----------------------- MODULE DnsmasqWrapper_proofs ------------------------
(***************************************************************************)
(* Proofs about the two parts of backend/pkg/dnsmasqwrapper.               *)
(*                                                                         *)
(* LogTail, for any log and any distance of the truncations: everything is *)
(* stated about the frontier of the tail, the last piece of the log that   *)
(* it has behind it.                                                       *)
(*                                                                         *)
(* DnsStats, for any answers of the server: records of any types, with any *)
(* number of strings and fields.                                           *)
(***************************************************************************)
EXTENDS LogTail, DnsStats, WellFoundedInduction, SequenceTheorems, TLAPS

Frontier == IF place = "rewinding" THEN start ELSE consumed

\* The tail never stands before the beginning of the file.
FrontierType ==
    /\ consumed <= position
    /\ Frontier \in 0..written
    /\ place # "rewinding" => start <= consumed

\* A lost line has a piece behind the frontier, and a line of which only the
\* head is behind it is lost.
LostLines ==
    /\ \A line \in lost : 2 * line <= Frontier + 1
    /\ ~IsTail(Frontier) => Line(Frontier) \in lost

\* The next truncation is at most maxLinesBeforeTruncate lines away.
NextTruncation ==
    /\ place = "opening" => /\ linesRead = 0
                            /\ linesNextTruncate = maxLinesBeforeTruncate
    /\ AttemptsAreSpaced
    /\ place = "truncating" => linesNextTruncate - linesRead = maxLinesBeforeTruncate

IInv ==
    /\ LogTypeOK
    /\ FrontierType
    /\ LostLines
    /\ LinesAreSettled
    /\ NextTruncation

-----------------------------------------------------------------------------
(* Pieces and lines.                                                       *)

LEMMA LineBounds ==
    ASSUME NEW piece \in Nat
    PROVE  /\ Line(piece) \in Nat
           /\ IsTail(piece) => 2 * Line(piece) = piece
           /\ ~IsTail(piece) => 2 * Line(piece) = piece + 1
BY DEF Line, IsTail

\* The lines that a drop of the pieces from first + 1 to last takes away.
LEMMA LinesOfBounds ==
    ASSUME NEW first \in Nat, NEW last \in Nat, first <= last, NEW line \in Nat
    PROVE  line \in LinesOf(first, last) <=> first < 2 * line /\ 2 * line <= last + 1
<1>1. line >= Line(first + 1) <=> first < 2 * line
  <2>1. CASE IsTail(first)
    BY <2>1 DEF Line, IsTail
  <2>2. CASE ~IsTail(first)
    BY <2>2 DEF Line, IsTail
  <2> QED
    BY <2>1, <2>2
<1>2. line <= Line(last) <=> 2 * line <= last + 1
  BY LineBounds
<1>3. Line(first + 1) \in Nat /\ Line(last) \in Nat
  BY LineBounds
<1> QED
  BY <1>1, <1>2, <1>3 DEF LinesOf

LEMMA WrittenLines ==
    ASSUME NEW last \in Nat, NEW line \in Nat
    PROVE  line \in 1..last \div 2 <=> 1 <= line /\ 2 * line <= last
OBVIOUS

LEMMA LinesGrow ==
    ASSUME NEW old \in Nat, NEW new \in Nat, old <= new
    PROVE  1..Line(old) \subseteq 1..Line(new)
BY DEF Line

-----------------------------------------------------------------------------
LEMMA IInvInit == Init => IInv
<1> SUFFICES ASSUME Init PROVE IInv
  OBVIOUS
<1>1. IsTail(0)
  BY DEF IsTail
<1>2. 1..written \div 2 = {}
  BY WrittenLines DEF Init
<1> QED
  BY <1>1, <1>2, LogAssumption
     DEF Init, IInv, LogTypeOK, FrontierType, LostLines, LinesAreSettled,
         NextTruncation, AttemptsAreSpaced, Frontier

\* What a step must establish about the histories, given where they stand.
LEMMA Settled ==
    ASSUME LogTypeOK', FrontierType',
           \A line \in processed' : 2 * line <= Frontier',
           \A line \in Nat : 1 <= line /\ 2 * line <= Frontier' =>
               line \in processed' \/ line \in lost',
           processed' \cap lost' = {}
    PROVE  LinesAreSettled'
<1>1. \A line \in 1..written' \div 2 : line \in Nat /\ 1 <= line
  BY WrittenLines DEF LogTypeOK
<1>2. \A line \in Nat : Ahead(line)' <=> 2 * line > Frontier'
  BY DEF Ahead, Frontier
<1>3. processed' \subseteq Nat
  BY LineBounds DEF LogTypeOK
<1> QED
  BY <1>1, <1>2, <1>3 DEF LinesAreSettled, FrontierType

\* What the invariant says of them.
LEMMA Behind ==
    ASSUME IInv
    PROVE  /\ \A line \in processed : line \in Nat /\ 1 <= line /\ 2 * line <= Frontier
           /\ \A line \in lost : line \in Nat /\ 1 <= line /\ 2 * line <= Frontier + 1
           /\ \A line \in Nat : 1 <= line /\ 2 * line <= Frontier =>
                  line \in processed \/ line \in lost
           /\ processed \cap lost = {}
<1>1. processed \subseteq Nat /\ lost \subseteq Nat
  BY LineBounds DEF IInv, LogTypeOK
<1>2. \A line \in Nat : Ahead(line) <=> 2 * line > Frontier
  BY DEF Ahead, Frontier
<1>3. \A line \in Nat : line \in 1..written \div 2 <=> 1 <= line /\ 2 * line <= written
  BY WrittenLines DEF IInv, LogTypeOK
<1>4. \A line \in processed \cup lost : 1 <= line
  BY LineBounds DEF IInv, LogTypeOK
<1> QED
  BY <1>1, <1>2, <1>3, <1>4 DEF IInv, LinesAreSettled, LostLines, FrontierType, LogTypeOK

\* A step that moves neither the frontier nor the histories.
LEMMA FrontierStays ==
    ASSUME IInv, LogTypeOK', FrontierType', Frontier' = Frontier,
           UNCHANGED historyVars
    PROVE  LostLines' /\ LinesAreSettled'
<1>1. LostLines'
  BY DEF IInv, LostLines, historyVars
<1>2. LinesAreSettled'
  BY Behind, Settled DEF historyVars
<1> QED
  BY <1>1, <1>2

-----------------------------------------------------------------------------
LEMMA AppendLogStep == IInv /\ AppendLog => IInv'
<1> SUFFICES ASSUME IInv, AppendLog PROVE IInv'
  OBVIOUS
<1>1. written' \in Nat /\ written <= written'
  BY LogAssumption DEF IInv, LogTypeOK, AppendLog
<1>2. LogTypeOK'
  <2>1. 1..Line(written) \subseteq 1..Line(written')
    BY <1>1, LinesGrow DEF IInv, LogTypeOK
  <2> QED
    BY <1>1, <2>1
       DEF IInv, LogTypeOK, AppendLog, readerVars, counterVars, historyVars
<1>3. Frontier' = Frontier /\ UNCHANGED historyVars
  BY DEF AppendLog, Frontier, readerVars, historyVars
<1>4. FrontierType'
  BY <1>1, <1>3
     DEF IInv, LogTypeOK, FrontierType, AppendLog, Frontier, readerVars
<1>5. NextTruncation'
  BY DEF IInv, NextTruncation, AttemptsAreSpaced, AppendLog, counterVars
<1> QED
  BY <1>2, <1>3, <1>4, <1>5, FrontierStays DEF IInv

LEMMA OpenLogStep == IInv /\ OpenLog => IInv'
<1> SUFFICES ASSUME IInv, OpenLog PROVE IInv'
  OBVIOUS
<1>1. LogTypeOK'
  BY DEF IInv, LogTypeOK, OpenLog, fileVars, readerVars, counterVars, historyVars
<1>2. Frontier' = Frontier /\ UNCHANGED historyVars
  BY DEF OpenLog, Frontier, fileVars, readerVars
<1>3. FrontierType'
  BY <1>2 DEF IInv, FrontierType, OpenLog, fileVars, readerVars
<1>4. NextTruncation'
  BY LogAssumption DEF IInv, NextTruncation, AttemptsAreSpaced, OpenLog, counterVars
<1> QED
  BY <1>1, <1>2, <1>3, <1>4, FrontierStays DEF IInv

LEMMA FillBufferStep == IInv /\ FillBuffer => IInv'
<1> SUFFICES ASSUME IInv, FillBuffer PROVE IInv'
  OBVIOUS
<1>1. LogTypeOK'
  BY DEF IInv, LogTypeOK, FillBuffer, fileVars, counterVars, historyVars
<1>2. Frontier' = Frontier /\ UNCHANGED historyVars
  BY DEF FillBuffer, Frontier, fileVars
<1>3. FrontierType'
  BY <1>2 DEF IInv, LogTypeOK, FrontierType, FillBuffer, fileVars
<1>4. NextTruncation'
  BY DEF IInv, NextTruncation, AttemptsAreSpaced, FillBuffer, counterVars
<1> QED
  BY <1>1, <1>2, <1>3, <1>4, FrontierStays DEF IInv

LEMMA ReadEOFStep == IInv /\ ReadEOF => IInv'
<1> SUFFICES ASSUME IInv, ReadEOF PROVE IInv'
  OBVIOUS
<1>1. /\ consumed \in Nat /\ position \in Nat /\ written \in Nat
      /\ consumed < position /\ position = written
  BY DEF IInv, LogTypeOK, ReadEOF
<1>2. Frontier = consumed /\ Frontier' = position
  BY DEF ReadEOF, Frontier
<1>3. \A line \in Nat :
        line \in LinesOf(consumed, position)
            <=> consumed < 2 * line /\ 2 * line <= position + 1
  BY <1>1, LinesOfBounds
<1>4. LinesOf(consumed, position) \subseteq 1..Line(written)
  BY <1>1, LineBounds DEF LinesOf, Line
<1>5. LogTypeOK'
  BY <1>1, <1>4 DEF IInv, LogTypeOK, ReadEOF, fileVars, counterVars
<1>6. FrontierType'
  BY <1>1, <1>2 DEF IInv, LogTypeOK, FrontierType, ReadEOF, fileVars
<1>7. LostLines'
  <2>1. \A line \in lost' : 2 * line <= position + 1
    BY <1>1, <1>2, <1>3, <1>4, Behind, LineBounds DEF ReadEOF
  <2>2. ~IsTail(position) => Line(position) \in LinesOf(consumed, position)
    BY <1>1, <1>3, LineBounds
  <2> QED
    BY <1>2, <2>1, <2>2 DEF LostLines, ReadEOF
<1>8. LinesAreSettled'
  <2>1. \A line \in Nat : 1 <= line /\ 2 * line <= position =>
            line \in processed' \/ line \in lost'
    BY <1>1, <1>2, <1>3, Behind DEF ReadEOF
  <2>2. \A line \in processed' : line \in Nat /\ 2 * line <= consumed
    BY <1>2, Behind DEF ReadEOF
  <2>3. processed' \cap lost' = {}
    BY <1>1, <1>3, <2>2, Behind DEF ReadEOF
  <2> QED
    BY <1>1, <1>2, <1>5, <1>6, <2>1, <2>2, <2>3, Settled
<1>9. NextTruncation'
  BY DEF IInv, NextTruncation, AttemptsAreSpaced, ReadEOF, counterVars
<1> QED
  BY <1>5, <1>6, <1>7, <1>8, <1>9 DEF IInv

\* The goroutine only goes elsewhere.
LEMMA MoveStep == IInv /\ (ReadFails \/ SkipTruncation \/ TruncateFails) => IInv'
<1> SUFFICES ASSUME IInv, ReadFails \/ SkipTruncation \/ TruncateFails
             PROVE  IInv'
  OBVIOUS
<1> USE DEF ReadFails, SkipTruncation, TruncateFails
<1>1. LogTypeOK'
  BY DEF IInv, LogTypeOK, fileVars, readerVars, counterVars, historyVars
<1>2. Frontier' = Frontier /\ UNCHANGED historyVars
  BY DEF Frontier, fileVars, readerVars
<1>3. FrontierType'
  BY <1>2 DEF IInv, FrontierType, fileVars, readerVars
<1>4. NextTruncation'
  BY LogAssumption DEF IInv, NextTruncation, AttemptsAreSpaced, counterVars
<1> QED
  BY <1>1, <1>2, <1>3, <1>4, FrontierStays DEF IInv

\* Where a line ends.
LEMMA ReadLineEnd ==
    ASSUME IInv, ReadLine
    PROVE  LET line == Line(consumed + 1) IN
               /\ line \in Nat
               /\ 2 * line = IF IsTail(consumed) THEN consumed + 2 ELSE consumed + 1
               /\ 2 * line <= position
               /\ Line(2 * line) = line
               /\ ~IsTail(consumed) => Line(consumed) = line
               /\ IsTail(2 * line)
<1>1. consumed \in Nat /\ position \in Nat
  BY DEF IInv, LogTypeOK
<1>2. PICK piece \in consumed + 1..position : IsTail(piece)
  BY DEF ReadLine, HasLine
<1>3. CASE IsTail(consumed)
  BY <1>1, <1>2, <1>3 DEF Line, IsTail
<1>4. CASE ~IsTail(consumed)
  BY <1>1, <1>2, <1>4 DEF Line, IsTail
<1> QED
  BY <1>3, <1>4

LEMMA ReadLineStep == IInv /\ ReadLine => IInv'
<1> SUFFICES ASSUME IInv, ReadLine PROVE IInv'
  OBVIOUS
<1> DEFINE line == Line(consumed + 1)
<1>1. /\ consumed \in Nat /\ position \in Nat /\ written \in Nat
      /\ position <= written
  BY DEF IInv, LogTypeOK
<1>2. /\ line \in Nat
      /\ 2 * line = IF IsTail(consumed) THEN consumed + 2 ELSE consumed + 1
      /\ 2 * line <= position
      /\ Line(2 * line) = line
      /\ ~IsTail(consumed) => Line(consumed) = line
      /\ IsTail(2 * line)
  BY ReadLineEnd
<1> HIDE DEF line
<1>3. /\ consumed' = 2 * line
      /\ processed' = IF IsTail(consumed) THEN processed \cup {line} ELSE processed
      /\ lost' = lost /\ written' = written /\ start' = start /\ position' = position
  BY <1>2 DEF ReadLine, fileVars, line
<1>4. Frontier = consumed /\ Frontier' = 2 * line
  BY <1>3 DEF ReadLine, Frontier
<1>5. LogTypeOK'
  <2>1. line \in 1..Line(written)
    BY <1>1, <1>2 DEF Line
  <2>2. /\ place' \in {"reading", "truncating"}
        /\ linesNextTruncate' \in Nat
        /\ linesRead' \in 0..linesNextTruncate'
    BY LogAssumption
       DEF IInv, LogTypeOK, NextTruncation, AttemptsAreSpaced, ReadLine
  <2> QED
    BY <1>1, <1>2, <1>3, <2>1, <2>2 DEF IInv, LogTypeOK
<1>6. FrontierType'
  BY <1>1, <1>2, <1>3, <1>4 DEF IInv, LogTypeOK, FrontierType, ReadLine
<1>7. LostLines'
  <2>1. \A l \in lost' : 2 * l <= 2 * line + 1
    BY <1>1, <1>2, <1>3, <1>4, Behind
  <2>2. IsTail(Frontier')
    BY <1>2, <1>4
  <2> QED
    BY <1>4, <2>1, <2>2 DEF LostLines
<1>8. LinesAreSettled'
  <2>1. \A l \in processed' : 2 * l <= 2 * line
    BY <1>1, <1>2, <1>3, <1>4, Behind
  <2>2. \A l \in Nat : 1 <= l /\ 2 * l <= 2 * line => l \in processed' \/ l \in lost'
    <3>1. CASE IsTail(consumed)
      BY <1>1, <1>2, <1>3, <1>4, <3>1, Behind
    <3>2. CASE ~IsTail(consumed)
      <4>1. line \in lost
        BY <1>2, <1>4, <3>2 DEF IInv, LostLines
      <4> QED
        BY <1>1, <1>2, <1>3, <1>4, <3>2, <4>1, Behind
    <3> QED
      BY <3>1, <3>2
  <2>3. processed' \cap lost' = {}
    <3>1. IsTail(consumed) => line \notin lost
      BY <1>1, <1>2, <1>4, Behind
    <3> QED
      BY <1>3, <3>1, Behind
  <2> QED
    BY <1>4, <1>5, <1>6, <2>1, <2>2, <2>3, Settled
<1>9. NextTruncation'
  BY LogAssumption
     DEF IInv, LogTypeOK, NextTruncation, AttemptsAreSpaced, ReadLine
<1> QED
  BY <1>5, <1>6, <1>7, <1>8, <1>9 DEF IInv

LEMMA TruncateLogStep == IInv /\ TruncateLog => IInv'
<1> SUFFICES ASSUME IInv, TruncateLog PROVE IInv'
  OBVIOUS
<1>1. /\ consumed \in Nat /\ position \in Nat /\ written \in Nat
      /\ consumed <= position /\ position <= written
  BY DEF IInv, LogTypeOK
<1>2. Frontier = consumed /\ Frontier' = written
  BY DEF TruncateLog, Frontier
<1>3. \A line \in Nat :
        line \in LinesOf(consumed, written)
            <=> consumed < 2 * line /\ 2 * line <= written + 1
  BY <1>1, LinesOfBounds
<1>4. LinesOf(consumed, written) \subseteq 1..Line(written)
  BY <1>1, LineBounds DEF LinesOf, Line
<1>5. LogTypeOK'
  <2>1. lost' \subseteq 1..Line(written) /\ processed' \subseteq 1..Line(written)
    BY <1>4 DEF IInv, LogTypeOK, TruncateLog
  <2>2. Line(written') = Line(written)
    BY DEF TruncateLog
  <2> QED
    BY <1>1, <2>1, <2>2 DEF IInv, LogTypeOK, TruncateLog, readerVars, counterVars
<1>6. FrontierType'
  BY <1>1, <1>2 DEF FrontierType, TruncateLog, readerVars
<1>7. LostLines'
  <2>1. \A line \in lost' : 2 * line <= written + 1
    BY <1>1, <1>2, <1>3, <1>4, Behind, LineBounds DEF TruncateLog
  <2>2. ~IsTail(written) => Line(written) \in lost'
    <3>1. CASE consumed < written
      BY <1>1, <1>3, <3>1, LineBounds DEF TruncateLog
    <3>2. CASE consumed = written
      BY <1>2, <3>2 DEF IInv, LostLines, TruncateLog
    <3> QED
      BY <1>1, <3>1, <3>2
  <2> QED
    BY <1>2, <2>1, <2>2 DEF LostLines
<1>8. LinesAreSettled'
  <2>1. \A line \in Nat : 1 <= line /\ 2 * line <= written =>
            line \in processed' \/ line \in lost'
    BY <1>1, <1>2, <1>3, Behind DEF TruncateLog
  <2>2. \A line \in processed' : line \in Nat /\ 2 * line <= consumed
    BY <1>2, Behind DEF TruncateLog
  <2>3. processed' \cap lost' = {}
    BY <1>1, <1>3, <2>2, Behind DEF TruncateLog
  <2> QED
    BY <1>1, <1>2, <1>5, <1>6, <2>1, <2>2, <2>3, Settled
<1>9. NextTruncation'
  BY DEF NextTruncation, AttemptsAreSpaced, TruncateLog
<1> QED
  BY <1>5, <1>6, <1>7, <1>8, <1>9 DEF IInv

LEMMA RewindStep == IInv /\ Rewind => IInv'
<1> SUFFICES ASSUME IInv, Rewind PROVE IInv'
  OBVIOUS
<1>1. LogTypeOK'
  BY LogAssumption DEF IInv, LogTypeOK, Rewind, fileVars, historyVars
<1>2. Frontier' = Frontier /\ UNCHANGED historyVars
  BY DEF Rewind, Frontier
<1>3. FrontierType'
  BY <1>2 DEF IInv, LogTypeOK, FrontierType, Rewind, fileVars
<1>4. NextTruncation'
  BY LogAssumption DEF NextTruncation, AttemptsAreSpaced, Rewind
<1> QED
  BY <1>1, <1>2, <1>3, <1>4, FrontierStays DEF IInv

LEMMA IInvStep == IInv /\ [Next]_vars => IInv'
<1> SUFFICES ASSUME IInv, [Next]_vars PROVE IInv'
  OBVIOUS
<1>1. CASE UNCHANGED vars
  BY <1>1 DEF vars, fileVars, readerVars, counterVars, historyVars, IInv,
     LogTypeOK, FrontierType, LostLines, LinesAreSettled, NextTruncation,
     AttemptsAreSpaced, Frontier, Ahead
<1> QED
  BY <1>1, AppendLogStep, OpenLogStep, FillBufferStep, ReadEOFStep, MoveStep,
     ReadLineStep, TruncateLogStep, RewindStep DEF Next, TailStep

-----------------------------------------------------------------------------
LEMMA TailInvariant == Spec => []IInv
BY IInvInit, IInvStep, PTL DEF Spec

\* The variables of the tail keep their types: it never reads beyond the end
\* of the log, nor returns what it has not read.
THEOREM TailTypeCorrect == Spec => []LogTypeOK
<1>1. IInv => LogTypeOK
  BY DEF IInv
<1> QED
  BY <1>1, TailInvariant, PTL

\* Every line that dnsmasq writes is processed, ahead or accounted as dropped.
THEOREM LinesAccounted == Spec => []LinesAreSettled
<1>1. IInv => LinesAreSettled
  BY DEF IInv
<1> QED
  BY <1>1, TailInvariant, PTL

\* The truncations are attempted every maxLinesBeforeTruncate lines.
THEOREM AttemptsSpaced == Spec => []AttemptsAreSpaced
<1>1. IInv => AttemptsAreSpaced
  BY DEF IInv, NextTruncation
<1> QED
  BY <1>1, TailInvariant, PTL

\* processLogLine gets the lines in their order and each at most once.
THEOREM LinesOrdered == Spec => LinesInOrder
<1>1. IInv /\ [Next]_vars =>
        [\A line \in processed' \ processed : \A old \in processed : old < line]_vars
  <2> SUFFICES ASSUME IInv, [Next]_vars
               PROVE  \A line \in processed' \ processed :
                          \A old \in processed : old < line
    OBVIOUS
  <2>1. CASE ReadLine
    <3>1. consumed \in Nat /\ Frontier = consumed
      BY <2>1 DEF IInv, LogTypeOK, ReadLine, Frontier
    <3>2. \A line \in processed' \ processed : line \in Nat /\ consumed < 2 * line
      BY <2>1, <3>1, ReadLineEnd DEF ReadLine
    <3> QED
      BY <3>1, <3>2, Behind
  <2>2. CASE ~ReadLine
    <3>1. processed' = processed
      BY <2>2 DEF Next, TailStep, AppendLog, OpenLog, FillBuffer, ReadEOF,
         ReadFails, SkipTruncation, TruncateFails, TruncateLog, Rewind, vars,
         historyVars
    <3> QED
      BY <3>1
  <2> QED
    BY <2>1, <2>2
<1> QED
  BY <1>1, TailInvariant, PTL DEF Spec, LinesInOrder

-----------------------------------------------------------------------------
(* DnsStats.                                                                 *)

USE DEF statsVars

-----------------------------------------------------------------------------
(* Min is the least element of a set of numbers that is not empty.           *)
LEMMA MinOfNaturals ==
  ASSUME NEW S, S \subseteq Nat, S # {}
  PROVE  Min(S) \in S /\ \A x \in S : Min(S) <= x
<1> DEFINE Less == OpToRel(<, Nat)
<1>1. PICK x \in S : \A y \in S : <<y, x>> \notin Less
  <2>1. IsWellFoundedOn(Less, Nat)
    BY NatLessThanWellFounded
  <2> HIDE DEF Less
  <2> QED
    BY <2>1, WFMin
<1>2. \A y \in S : x <= y
  <2> SUFFICES ASSUME NEW y \in S
               PROVE  x <= y
    OBVIOUS
  <2>1. x \in Nat /\ y \in Nat /\ ~(y < x)
    BY <1>1 DEF OpToRel
  <2> QED
    BY <2>1
<1> QED
  BY <1>2 DEF Min

(* The first TXT record of an answer is the one without another before it.   *)
LEMMA FirstOfAnswer ==
  ASSUME NEW answer \in Seq(Records), NEW txts, txts # {},
         txts = {i \in DOMAIN answer : answer[i].type = "TXT"}
  PROVE  /\ {i \in DOMAIN answer : /\ answer[i].type = "TXT"
                                   /\ \A j \in 1 .. i - 1 : answer[j].type # "TXT"}
              = {Min(txts)}
         /\ answer[Min(txts)].txt \in Seq(Seq(Fields))
<1>1. txts \subseteq 1 .. Len(answer) /\ Len(answer) \in Nat /\ txts \subseteq Nat
  OBVIOUS
<1>2. Min(txts) \in txts /\ \A x \in txts : Min(txts) <= x
  BY <1>1, MinOfNaturals
<1>3. \A i \in txts : (\A j \in 1 .. i - 1 : answer[j].type # "TXT") <=> i = Min(txts)
  <2> SUFFICES ASSUME NEW i \in txts
               PROVE  (\A j \in 1 .. i - 1 : j \notin txts) <=> i = Min(txts)
    BY <1>1
  <2> QED
    BY <1>1, <1>2
<1>4. Min(txts) \in DOMAIN answer
  BY <1>2
<1>5. answer[Min(txts)] \in Records
  BY <1>1, <1>4
<1> QED
  BY <1>2, <1>3, <1>5 DEF Records

(* What a question returns is what the first TXT record of the reply has.    *)
LEMMA QueryReturnsFirstTxt ==
  ASSUME NEW reply \in Replies \cup {NoReply}
  PROVE  /\ chaosTXTQuery(reply).err <=> ~Good(reply)
         /\ Good(reply) /\ FirstTxt(reply) # {} =>
              FirstTxt(reply) = {chaosTXTQuery(reply).val}
         /\ ~Good(reply) \/ FirstTxt(reply) = {} =>
              chaosTXTQuery(reply).val = <<>>
         /\ chaosTXTQuery(reply).val \in Seq(Seq(Fields))
<1>1. CASE ~Good(reply)
  BY <1>1 DEF Good, chaosTXTQuery, Error
<1>2. CASE Good(reply)
  <2> DEFINE answer == reply.answer
             txts   == {i \in DOMAIN answer : answer[i].type = "TXT"}
  <2>1. /\ answer \in Seq(Records) /\ DOMAIN answer = 1 .. Len(answer) /\ Len(answer) \in Nat
        /\ chaosTXTQuery(reply) = Value(IF txts = {} THEN <<>> ELSE answer[Min(txts)].txt)
    BY <1>2 DEF Good, chaosTXTQuery, Replies
  <2>2. CASE txts = {}
    BY <1>2, <2>1, <2>2 DEF Value, FirstTxt
  <2>3. CASE txts # {}
    <3>1. /\ FirstTxt(reply) = {answer[Min(txts)].txt}
          /\ answer[Min(txts)].txt \in Seq(Seq(Fields))
      <4> HIDE DEF txts, answer
      <4>1. txts = {i \in DOMAIN answer : answer[i].type = "TXT"}
        BY DEF txts
      <4>2. FirstTxt(reply) = {answer[i].txt : i \in {i \in DOMAIN answer :
                                 /\ answer[i].type = "TXT"
                                 /\ \A j \in 1 .. i - 1 : answer[j].type # "TXT"}}
        BY DEF FirstTxt, answer
      <4>3. {i \in DOMAIN answer : /\ answer[i].type = "TXT"
                                   /\ \A j \in 1 .. i - 1 : answer[j].type # "TXT"}
              = {Min(txts)} /\ answer[Min(txts)].txt \in Seq(Seq(Fields))
        BY <2>1, <2>3, <4>1, FirstOfAnswer
      <4> QED
        BY <4>2, <4>3
    <3> HIDE DEF txts, answer
    <3>2. ~chaosTXTQuery(reply).err /\ chaosTXTQuery(reply).val = answer[Min(txts)].txt
      BY <2>1, <2>3 DEF Value
    <3> QED
      BY <1>2, <3>1, <3>2
  <2> QED
    BY <2>2, <2>3
<1> QED
  BY <1>1, <1>2

(* What a counter becomes: the number that was sent, or 0 without one.       *)
Sent(reply) ==
  {n \in Numbers : Good(reply) /\ \E txt \in FirstTxt(reply) :
                      Len(txt) = 1 /\ txt[1] # <<>> /\ txt[1][1] = n}

LEMMA CounterIsSent ==
  ASSUME NEW reply \in Replies \cup {NoReply}
  PROVE  /\ chaosTXTQueryInteger(reply).val
              \in IF Sent(reply) = {} THEN {0} ELSE Sent(reply)
         /\ ~chaosTXTQueryInteger(reply).err => Good(reply)
         /\ chaosTXTQueryInteger(reply).err \in BOOLEAN
<1> DEFINE strVal == chaosTXTQuery(reply)
<1>1. /\ strVal.err <=> ~Good(reply)
      /\ Good(reply) /\ FirstTxt(reply) # {} => FirstTxt(reply) = {strVal.val}
      /\ ~Good(reply) \/ FirstTxt(reply) = {} => strVal.val = <<>>
      /\ strVal.val \in Seq(Seq(Fields))
  BY QueryReturnsFirstTxt
<1>2. strVal.err \in BOOLEAN
  BY DEF chaosTXTQuery, Error, Value
<1> HIDE DEF strVal
<1>3. chaosTXTQueryInteger(reply) =
        CASE strVal.err -> [err |-> TRUE, val |-> 0]
          [] ~strVal.err /\ Len(strVal.val) # 1 -> [err |-> FALSE, val |-> 0]
          [] OTHER -> IF strVal.val[1] # <<>> /\ strVal.val[1][1] \in Numbers
                      THEN [err |-> FALSE, val |-> strVal.val[1][1]]
                      ELSE [err |-> TRUE, val |-> 0]
  BY DEF chaosTXTQueryInteger, strVal
<1> DEFINE stat == chaosTXTQueryInteger(reply)
<1> SUFFICES /\ stat.val \in IF Sent(reply) = {} THEN {0} ELSE Sent(reply)
             /\ ~stat.err => Good(reply)
             /\ stat.err \in BOOLEAN
  OBVIOUS
<1>4. CASE strVal.err
  <2>1. stat = [err |-> TRUE, val |-> 0]
    BY <1>3, <1>4
  <2>2. Sent(reply) = {}
    BY <1>1, <1>4 DEF Sent
  <2> HIDE DEF stat
  <2> QED
    BY <2>1, <2>2
<1>5. CASE ~strVal.err /\ Len(strVal.val) # 1
  <2>1. stat = [err |-> FALSE, val |-> 0]
    BY <1>3, <1>5
  <2>2. Sent(reply) = {}
    <3>1. \A txt \in FirstTxt(reply) : txt = strVal.val
      BY <1>1, <1>5
    <3> QED
      BY <1>5, <3>1 DEF Sent
  <2> HIDE DEF stat
  <2> QED
    BY <1>1, <1>5, <2>1, <2>2
<1>6. CASE ~strVal.err /\ Len(strVal.val) = 1
  <2>1. Good(reply) /\ FirstTxt(reply) = {strVal.val}
    BY <1>1, <1>6
  <2>2. Sent(reply) = {n \in Numbers : strVal.val[1] # <<>> /\ strVal.val[1][1] = n}
    BY <1>6, <2>1 DEF Sent
  <2>3. CASE strVal.val[1] # <<>> /\ strVal.val[1][1] \in Numbers
    <3>1. stat = [err |-> FALSE, val |-> strVal.val[1][1]]
      BY <1>3, <1>6, <2>3
    <3>2. Sent(reply) = {strVal.val[1][1]}
      BY <2>2, <2>3
    <3> HIDE DEF stat
    <3> QED
      BY <2>1, <3>1, <3>2
  <2>4. CASE ~(strVal.val[1] # <<>> /\ strVal.val[1][1] \in Numbers)
    <3>1. stat = [err |-> TRUE, val |-> 0]
      BY <1>3, <1>6, <2>4
    <3>2. Sent(reply) = {}
      BY <2>2, <2>4
    <3> HIDE DEF stat
    <3> QED
      BY <3>1, <3>2
  <2> QED
    BY <2>3, <2>4
<1> QED
  BY <1>2, <1>4, <1>5, <1>6

(* What the upstream servers become: the rows before the first unreadable    *)
(* one, none without an answer.                                              *)
ServersAreRead(servers, upstreams) ==
  IF Good(servers) /\ FirstTxt(servers) # {}
  THEN \A txt \in FirstTxt(servers) : \E k \in 0 .. Len(txt) :
         /\ k < Len(txt) => Malformed(txt[k + 1])
         /\ \A i \in 1 .. k : ~Malformed(txt[i])
         /\ upstreams = Rows(SubSeq(txt, 1, k))
  ELSE upstreams = <<>>

LEMMA ServersRead ==
  ASSUME NEW reply \in Replies \cup {NoReply}
  PROVE  LET strings == chaosTXTQuery(reply)
             bad == {i \in DOMAIN strings.val : Malformed(strings.val[i])}
             read == IF bad = {} THEN strings.val
                                 ELSE SubSeq(strings.val, 1, Min(bad) - 1)
         IN  ServersAreRead(reply, Rows(read))
<1> DEFINE strings == chaosTXTQuery(reply)
           txt  == strings.val
           bad  == {i \in DOMAIN txt : Malformed(txt[i])}
           read == IF bad = {} THEN txt ELSE SubSeq(txt, 1, Min(bad) - 1)
<1>1. /\ Good(reply) /\ FirstTxt(reply) # {} => FirstTxt(reply) = {txt}
      /\ ~Good(reply) \/ FirstTxt(reply) = {} => txt = <<>>
      /\ txt \in Seq(Seq(Fields)) /\ DOMAIN txt = 1 .. Len(txt) /\ Len(txt) \in Nat
  BY QueryReturnsFirstTxt
<1>2. ASSUME txt = <<>>
      PROVE  Rows(read) = <<>>
  BY <1>2 DEF Rows
<1>3. \E k \in 0 .. Len(txt) :
        /\ k < Len(txt) => Malformed(txt[k + 1])
        /\ \A i \in 1 .. k : ~Malformed(txt[i])
        /\ read = SubSeq(txt, 1, k)
  <2>1. CASE bad = {}
    <3>1. SubSeq(txt, 1, Len(txt)) = txt
      BY <1>1
    <3>2. \A i \in 1 .. Len(txt) : ~Malformed(txt[i])
      BY <1>1, <2>1
    <3>3. read = SubSeq(txt, 1, Len(txt))
      BY <2>1, <3>1
    <3>4. Len(txt) \in 0 .. Len(txt) /\ ~(Len(txt) < Len(txt))
      BY <1>1
    <3> HIDE DEF read, txt, bad
    <3> QED
      BY <3>2, <3>3, <3>4
  <2>2. CASE bad # {}
    <3>1. bad \subseteq Nat
      BY <1>1
    <3> HIDE DEF bad, txt
    <3>2. Min(bad) \in bad /\ \A x \in bad : Min(bad) <= x
      BY <2>2, <3>1, MinOfNaturals
    <3>3. Min(bad) \in 1 .. Len(txt) /\ Malformed(txt[Min(bad)])
      BY <1>1, <3>2 DEF bad
    <3>4. \A i \in 1 .. Min(bad) - 1 : ~Malformed(txt[i])
      <4> SUFFICES ASSUME NEW i \in 1 .. Min(bad) - 1, Malformed(txt[i])
                   PROVE  FALSE
        OBVIOUS
      <4>1. i \in DOMAIN txt /\ i < Min(bad) /\ i \in Nat
        BY <1>1, <3>3
      <4>2. i \in bad
        BY <4>1 DEF bad
      <4>3. Min(bad) <= i
        BY <3>2, <4>2
      <4>4. Min(bad) \in Nat
        BY <3>1, <3>2
      <4> QED
        BY <4>1, <4>3, <4>4
    <3>5. /\ Min(bad) - 1 \in 0 .. Len(txt)
          /\ Malformed(txt[(Min(bad) - 1) + 1])
          /\ read = SubSeq(txt, 1, Min(bad) - 1)
      BY <1>1, <2>2, <3>3
    <3> DEFINE k == Min(bad) - 1
    <3> HIDE DEF read
    <3>6. k \in 0 .. Len(txt) /\ Malformed(txt[k + 1]) /\ read = SubSeq(txt, 1, k)
          /\ \A i \in 1 .. k : ~Malformed(txt[i])
      BY <3>4, <3>5
    <3> HIDE DEF k
    <3> QED
      BY <3>6
  <2> QED
    BY <2>1, <2>2
<1> HIDE DEF read, txt
<1>4. ServersAreRead(reply, Rows(read))
  BY <1>1, <1>2, <1>3 DEF ServersAreRead
<1> QED
  BY <1>4 DEF read, txt

-----------------------------------------------------------------------------
(* The invariant of GetDnsStats: the counters are those of the replies so    *)
(* far, in order, and an error that occurred is kept.                        *)
StatsInv ==
  /\ call \in {"idle", "asking", "done"}
  /\ replies \in Seq(Replies \cup {NoReply})
  /\ CASE call = "idle"   -> replies = <<>>
       [] call = "asking" -> Len(replies) <= Len(Counters)
       [] call = "done"   -> Len(replies) = Len(Counters) + 1
  /\ ret = [counters |-> ret.counters, upstreams |-> ret.upstreams]
  /\ ret.counters \in Seq(Int)
  /\ Len(ret.counters) = IF call = "done" THEN Len(Counters) ELSE Len(replies)
  /\ \A i \in DOMAIN ret.counters : ret.counters[i] = chaosTXTQueryInteger(replies[i]).val
  /\ call = "done" => ServersAreRead(replies[Len(replies)], ret.upstreams)
  /\ lastErr \in BOOLEAN
  /\ ~lastErr => \A i \in DOMAIN replies : Good(replies[i])

LEMMA StatsStep == StatsInv /\ [StatsNext]_statsVars => StatsInv'
<1> SUFFICES ASSUME StatsInv, [StatsNext]_statsVars
             PROVE  StatsInv'
  OBVIOUS
<1>0. Len(Counters) = 5 /\ DOMAIN Counters = 1 .. 5
  BY DEF Counters
<1>1. CASE AskCounter
  <2>1. PICK reply \in CounterReplies : replies' = Append(replies, reply) /\ Ask(reply)
    BY <1>1 DEF AskCounter
  <2>2. reply \in Replies \cup {NoReply}
    BY StatsAssumption
  <2> DEFINE stat == chaosTXTQueryInteger(reply)
  <2>3. stat.val \in Int /\ stat.err \in BOOLEAN /\ (~stat.err => Good(reply))
    <3>1. Sent(reply) \subseteq Int
      BY StatsAssumption DEF Sent
    <3>2. /\ stat.val \in IF Sent(reply) = {} THEN {0} ELSE Sent(reply)
          /\ ~stat.err => Good(reply)
          /\ stat.err \in BOOLEAN
      BY <2>2, CounterIsSent
    <3> HIDE DEF stat
    <3> QED
      BY <3>1, <3>2
  <2>4. /\ call = "asking" /\ call' = call /\ Len(replies) < 5
        /\ ret'.counters = Append(ret.counters, stat.val)
        /\ ret' = [counters |-> ret'.counters, upstreams |-> ret'.upstreams]
        /\ lastErr' = (lastErr \/ stat.err)
    BY <1>0, <1>1, <2>1 DEF AskCounter, Ask, Keep, StatsInv
  <2> HIDE DEF stat
  <2>5. /\ replies' \in Seq(Replies \cup {NoReply}) /\ Len(replies') = Len(replies) + 1
        /\ ret'.counters \in Seq(Int) /\ Len(ret'.counters) = Len(ret.counters) + 1
        /\ Len(replies) \in Nat /\ Len(ret.counters) = Len(replies)
    BY <2>1, <2>2, <2>3, <2>4 DEF StatsInv
  <2>6. \A i \in DOMAIN ret'.counters :
          ret'.counters[i] = chaosTXTQueryInteger(replies'[i]).val
    <3> SUFFICES ASSUME NEW i \in DOMAIN ret'.counters
                 PROVE  ret'.counters[i] = chaosTXTQueryInteger(replies'[i]).val
      OBVIOUS
    <3>1. CASE i = Len(replies) + 1
      <4>1. replies'[i] = reply /\ ret'.counters[i] = stat.val
        BY <2>1, <2>4, <2>5, <3>1 DEF StatsInv
      <4> QED
        BY <4>1 DEF stat
    <3>2. CASE i # Len(replies) + 1
      <4>1. i \in DOMAIN ret.counters /\ replies'[i] = replies[i]
            /\ ret'.counters[i] = ret.counters[i]
        BY <2>1, <2>4, <2>5, <3>2 DEF StatsInv
      <4> QED
        BY <4>1 DEF StatsInv
    <3> QED
      BY <3>1, <3>2
  <2>7. ~lastErr' => \A i \in DOMAIN replies' : Good(replies'[i])
    BY <2>1, <2>3, <2>4, <2>5 DEF StatsInv
  <2> QED
    BY <1>0, <2>3, <2>4, <2>5, <2>6, <2>7 DEF StatsInv
<1>2. CASE AskServers
  <2>1. PICK reply \in ServersReplies :
          LET strings == chaosTXTQuery(reply)
              bad == {i \in DOMAIN strings.val : Malformed(strings.val[i])}
              read == IF bad = {} THEN strings.val
                                  ELSE SubSeq(strings.val, 1, Min(bad) - 1)
          IN  /\ replies' = Append(replies, reply)
              /\ ret' = [ret EXCEPT !.upstreams = Rows(read)]
              /\ Keep(strings.err \/ bad # {})
    BY <1>2, Zenon DEF AskServers
  <2>2. reply \in Replies \cup {NoReply}
    BY StatsAssumption
  <2>3. /\ call = "asking" /\ call' = "done" /\ Len(replies) = 5
        /\ replies' = Append(replies, reply)
        /\ ret'.counters = ret.counters
        /\ ret' = [counters |-> ret'.counters, upstreams |-> ret'.upstreams]
    BY <1>0, <1>2, <2>1 DEF AskServers, StatsInv
  <2>4. ServersAreRead(reply, ret'.upstreams)
    <3> DEFINE strings == chaosTXTQuery(reply)
               bad == {i \in DOMAIN strings.val : Malformed(strings.val[i])}
               read == IF bad = {} THEN strings.val
                                   ELSE SubSeq(strings.val, 1, Min(bad) - 1)
    <3>1. ServersAreRead(reply, Rows(read))
      BY <2>2, ServersRead
    <3>2. ret' = [ret EXCEPT !.upstreams = Rows(read)]
      BY <2>1
    <3> HIDE DEF read
    <3>3. ret'.upstreams = Rows(read)
      BY <3>2 DEF StatsInv
    <3> QED
      BY <3>1, <3>3
  <2>5. lastErr' \in BOOLEAN /\ (~lastErr' => ~lastErr /\ Good(reply))
    <3>1. chaosTXTQuery(reply).err <=> ~Good(reply)
      BY <2>2, QueryReturnsFirstTxt
    <3> QED
      BY <2>1, <3>1 DEF Keep, StatsInv
  <2>6. /\ replies' \in Seq(Replies \cup {NoReply}) /\ Len(replies') = 6
        /\ replies'[6] = reply /\ \A i \in 1 .. 5 : replies'[i] = replies[i]
        /\ DOMAIN ret.counters = 1 .. 5 /\ Len(ret.counters) = 5
    <3>1. ret.counters \in Seq(Int) /\ Len(ret.counters) = 5
      BY <2>3 DEF StatsInv
    <3>2. replies \in Seq(Replies \cup {NoReply})
      BY DEF StatsInv
    <3>3. replies' \in Seq(Replies \cup {NoReply})
      BY <2>2, <2>3, <3>2
    <3>4. /\ Len(Append(replies, reply)) = Len(replies) + 1
          /\ Append(replies, reply)[Len(replies) + 1] = reply
          /\ \A i \in 1 .. Len(replies) : Append(replies, reply)[i] = replies[i]
      BY <2>2, <3>2, AppendProperties
    <3>5. /\ Len(replies') = 6 /\ replies'[6] = reply
          /\ \A i \in 1 .. 5 : replies'[i] = replies[i]
      BY <2>3, <3>4
    <3>6. DOMAIN ret.counters = 1 .. 5
      BY <3>1
    <3> QED
      BY <3>1, <3>3, <3>5, <3>6, Zenon
  <2>7. ~lastErr' => \A i \in DOMAIN replies' : Good(replies'[i])
    BY <2>3, <2>5, <2>6 DEF StatsInv
  <2> QED
    BY <1>0, <2>3, <2>4, <2>5, <2>6, <2>7 DEF StatsInv
<1>3. CASE UNCHANGED statsVars
  BY <1>3 DEF StatsInv, ServersAreRead
<1> QED
  BY <1>1, <1>2, <1>3 DEF StatsNext

LEMMA StatsInvariant == StatsSpec => []StatsInv
<1>1. StatsInit => StatsInv
  <2> SUFFICES ASSUME StatsInit
               PROVE  StatsInv
    OBVIOUS
  <2>1. /\ call \in {"idle", "asking"} /\ replies = <<>> /\ lastErr = FALSE
        /\ ret.counters = <<>> /\ ret.upstreams = <<>>
        /\ ret = [counters |-> ret.counters, upstreams |-> ret.upstreams]
    BY DEF StatsInit
  <2>2. Len(replies) = 0 /\ Len(ret.counters) = 0 /\ DOMAIN ret.counters = {}
        /\ DOMAIN replies = {} /\ Len(Counters) = 5
    BY <2>1 DEF Counters
  <2>3. replies \in Seq(Replies \cup {NoReply}) /\ ret.counters \in Seq(Int)
    BY <2>1
  <2>4. (CASE call = "idle"   -> replies = <<>>
           [] call = "asking" -> Len(replies) <= Len(Counters)
           [] call = "done"   -> Len(replies) = Len(Counters) + 1)
    <3>1. CASE call = "idle"
      BY <2>1, <3>1
    <3>2. CASE call = "asking"
      BY <2>2, <3>2
    <3> QED
      BY <2>1, <3>1, <3>2
  <2>5. Len(ret.counters) = IF call = "done" THEN Len(Counters) ELSE Len(replies)
    BY <2>1, <2>2
  <2> QED
    BY <2>1, <2>2, <2>3, <2>4, <2>5, Zenon DEF StatsInv
<1> QED
  BY <1>1, StatsStep, PTL DEF StatsSpec

(* A question that fails costs its own figure and no other, whatever the     *)
(* server answers to each of the six.                                        *)
THEOREM StatsLocal == StatsSpec => []FailuresAreLocal
<1>1. StatsInv => FailuresAreLocal
  <2> SUFFICES ASSUME StatsInv, call = "done"
               PROVE  /\ Len(replies) = Len(Counters) + 1
                      /\ \A i \in DOMAIN Counters : ret.counters[i]
                           \in IF Sent(replies[i]) = {} THEN {0} ELSE Sent(replies[i])
                      /\ ServersAreRead(replies[Len(replies)], ret.upstreams)
    BY Zenon DEF FailuresAreLocal, Sent, ServersAreRead
  <2>1. Len(Counters) = 5 /\ DOMAIN Counters = 1 .. 5
    BY DEF Counters
  <2>2. ASSUME NEW i \in DOMAIN Counters
        PROVE  ret.counters[i] \in IF Sent(replies[i]) = {} THEN {0} ELSE Sent(replies[i])
    <3>1. /\ i \in DOMAIN ret.counters /\ replies[i] \in Replies \cup {NoReply}
          /\ ret.counters[i] = chaosTXTQueryInteger(replies[i]).val
      BY <2>1 DEF StatsInv
    <3> QED
      BY <3>1, CounterIsSent
  <2> QED
    BY <2>1, <2>2 DEF StatsInv
<1> QED
  BY <1>1, StatsInvariant, PTL

(* Without an error every exchange succeeded.                                *)
THEOREM StatsReported == StatsSpec => []FailuresAreReported
<1>1. StatsInv => FailuresAreReported
  BY DEF StatsInv, FailuresAreReported
<1> QED
  BY <1>1, StatsInvariant, PTL
=============================================================================
