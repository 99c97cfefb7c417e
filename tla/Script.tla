-------------------------------- MODULE Script --------------------------------
(***************************************************************************)
(* The AyumuScript interpreter, AyumuScriptCli of src/src/script.cc, with  *)
(* the part of CommandLine::command and of the commands `if`, `else`, `fi`,*)
(* `loop` and `pool` (src/src/cli.cc) that decides what is carried out.    *)
(*                                                                         *)
(* One step is one turn of the while loop, that is one byte of the file.   *)
(* A byte is the end of a line, the first byte of a line, which stands for *)
(* its command, or Other.  What a condition evaluates to is left open.     *)
(* Left out: scriptKillSwitch, which nothing sets, jumpIndexes and         *)
(* returnPointer, which nothing reads, the arguments, and a line that is   *)
(* longer than `line`.  LBA is a byte, and so is the number under which a  *)
(* block is written: a file has no block that LBA could not count.         *)
(***************************************************************************)
EXTENDS Integers, SequencesExt

CONSTANTS
  Text,      \* the scripts: sequences of [kind, start, end], the places of
             \* a line's first byte and of the byte that ends it, from 0 on
  Block,     \* OFS_BLOCK_SIZE, 2048 in the code
  MaxNest,   \* elements of nestedLoop, 16 in the code
  Width,     \* values of a uint16_t, 65536 in the code
  MaxTrue    \* how often the conditions of loops hold: a bound of the model

Command == {"say", "if", "else", "fi", "loop", "pool"}
EndOfLine == "end"
Other == "other"
Byte == Command \cup {EndOfLine, Other}

ASSUME ScriptAssumption ==
  /\ \A t \in Text :
       /\ t \in Seq([kind : Command, start : Nat, end : Nat]) /\ t # <<>>
       /\ \A i \in DOMAIN t : t[i].start < t[i].end
       /\ \A i, j \in DOMAIN t : i < j => t[i].end < t[j].start
  /\ Block \in Nat \ {0} /\ MaxNest \in Nat \ {0} /\ MaxTrue \in Nat
  /\ Width \in Nat /\ Width > Block

VARIABLES
  text, size,  \* the script, and how many bytes it has on the disk
  indexF,      \* place in the file
  indexLBA,    \* place in the block
  buffer,      \* the block that was read
  LBA,         \* the next block to read
  line,        \* line[0], the command; Other for a word that is none
  indexL,      \* bytes of `line`; `start` is indexL > 0
  nested,      \* nestedLoop and nestedLoopCondition up to indexLoopF;
               \* `from` is a record for the properties
  condIf, condLoop,  \* of the command line
  over,
  left, lost   \* conditions that may still hold; a jump went astray

scriptVars == <<text, size, indexF, indexLBA, buffer, LBA, line, indexL, nested,
          condIf, condLoop, over, left, lost>>

-----------------------------------------------------------------------------
\* The layout of a script: what is not part of a line is a line end.
Covers(i, f) == text[i].start <= f /\ f < text[i].end

ByteAt(f) ==
  IF \E i \in DOMAIN text : Covers(i, f)
    THEN LET i == CHOOSE i \in DOMAIN text : Covers(i, f)
         IN  IF f = text[i].start THEN text[i].kind ELSE Other
    ELSE EndOfLine

\* The end of the last line may be missing; the line is not run then.
Lines == {i \in DOMAIN text : text[i].end < size}

\* The line that is being read at byte f.
LineAt(f) == 1 + Cardinality({i \in Lines : text[i].end < f})

ScriptInit ==
  /\ text \in Text
  /\ size \in {text[Len(text)].end, text[Len(text)].end + 1}
  /\ indexF = 0 /\ indexLBA = 0 /\ LBA = 0
  /\ buffer = <<>>
  /\ line = Other /\ indexL = 0
  /\ nested = <<>>
  /\ condIf = TRUE /\ condLoop = TRUE
  /\ over = FALSE /\ lost = FALSE
  /\ left = MaxTrue

-----------------------------------------------------------------------------
\* command(): what a false condition does not skip.  A definition named after
\* a mistake, here and below, is a variant of the one that follows it: put in
\* its place it must make a property fail.
Obeyed(c) ==
  /\ condIf \/ c = "fi"
  /\ condLoop \/ c = "pool"

\* The commands If, Else, Fi, loop and pool; any other leaves the conditions.
Execute(c) ==
  IF Obeyed(c)
    THEN /\ condIf' \in CASE c = "if"   -> BOOLEAN
                          [] c = "else" -> {~condIf}
                          [] c = "fi"   -> {TRUE}
                          [] OTHER      -> {condIf}
         /\ condLoop' \in CASE c = "loop" -> IF left > 0 THEN BOOLEAN ELSE {FALSE}
                            [] c = "pool" -> {TRUE}
                            [] OTHER      -> {condLoop}
         /\ left' = IF c = "loop" /\ condLoop' THEN left - 1 ELSE left
    ELSE UNCHANGED <<condIf, condLoop, left>>

\* The block that holds the byte at indexF, and the place of the byte in it.
BlockRead == indexF % Block = 0

\* ReadLBA; behind the end of the file the block was wiped.
BlockOf(n) == [i \in 1 .. Block |-> ByteAt(n * Block + i - 1)]

ReadBuffer == IF BlockRead THEN BlockOf(LBA) ELSE buffer
ReadIndex == IF BlockRead THEN 0 ELSE indexLBA
ReadLBA == LBA' = IF BlockRead THEN LBA + 1 ELSE LBA

\* file[indexLBA]: behind the buffer lies whatever lies there.
Current == IF ReadIndex < Block THEN {ReadBuffer[ReadIndex + 1]} ELSE Byte

LoopStartAfterIt == (ReadIndex - indexL + Width) % Width

\* nestedLoop[indexLoopF] = indexLBA - (strlen(line) + 1), in 16 bits.
LoopStart == (ReadIndex - (indexL + 1) + Width) % Width

Advance ==
  /\ indexLBA' = (ReadIndex + 1) % Width
  /\ indexF' = indexF + 1

\* A byte of a line.
Collect ==
  /\ \E byte \in Current \ {EndOfLine} :
       line' = IF indexL = 0 THEN byte ELSE line
  /\ indexL' = indexL + 1
  /\ Advance
  /\ UNCHANGED <<nested, condIf, condLoop, left, lost>>

\* A line end with no line before it.
Blank ==
  /\ EndOfLine \in Current /\ indexL = 0
  /\ Advance
  /\ UNCHANGED <<line, indexL, nested, condIf, condLoop, left, lost>>

LineEnds ==
  /\ EndOfLine \in Current /\ indexL > 0
  /\ indexL' = 0 /\ line' = Other

Ordinary ==
  /\ LineEnds
  /\ line # "loop" /\ (line = "pool" => nested = <<>>)
  /\ Execute(line)
  /\ Advance
  /\ UNCHANGED <<nested, lost>>

CondAssumed == TRUE
CondNow == condLoop'

HasRoom == Len(nested) < MaxNest

\* A loop beyond the last element shares the last element's condition.
EnterLoop ==
  /\ LineEnds
  /\ line = "loop"
  /\ Execute(line)
  /\ nested' = IF HasRoom
               THEN Append(nested, [pos |-> LoopStart, cond |-> CondNow, from |-> LineAt(indexF)])
               ELSE Append(Front(nested), [Last(nested) EXCEPT !.cond = CondNow])
  /\ Advance
  /\ UNCHANGED lost

LoopKept == nested' = nested
LoopForgotten == nested' = Front(nested)

LeaveLoop ==
  /\ LineEnds
  /\ line = "pool" /\ nested # <<>> /\ ~Last(nested).cond
  /\ LoopForgotten
  /\ Execute(line)
  /\ Advance
  /\ UNCHANGED lost

\* The way back is taken within the block, to the byte before the loop; then
\* the while loop steps on by one.
IndexBeforeIt == Last(nested).pos
IndexAtLoop == (Last(nested).pos + 1) % Width

RepeatLoop ==
  /\ LineEnds
  /\ line = "pool" /\ nested # <<>> /\ Last(nested).cond
  /\ indexF' = indexF - (ReadIndex - Last(nested).pos) + 1
  /\ indexLBA' = IndexAtLoop
  /\ lost' = (lost \/ indexF' # text[Last(nested).from].start)
  /\ LoopForgotten
  /\ Execute(line)

\* One turn of the while loop.
Turn ==
  /\ indexF < size
  /\ buffer' = ReadBuffer
  /\ ReadLBA
  /\ Collect \/ Blank \/ Ordinary \/ EnterLoop \/ LeaveLoop \/ RepeatLoop
  /\ UNCHANGED <<text, size, over>>

\* The conditions are reset when the script is over.
ConditionsReset == condIf' = TRUE /\ condLoop' = TRUE

Finish ==
  /\ indexF >= size /\ ~over
  /\ over' = TRUE
  /\ ConditionsReset
  /\ UNCHANGED <<text, size, indexF, indexLBA, buffer, LBA, line, indexL, nested, left, lost>>

ScriptNext == Turn \/ Finish

ScriptSpec == ScriptInit /\ [][ScriptNext]_scriptVars

\* The interpreter runs in an interrupt or in a task that keeps its turns.
FairSpec == ScriptSpec /\ WF_scriptVars(ScriptNext)

-----------------------------------------------------------------------------
ScriptTypeOK ==
  /\ size \in Nat
  /\ indexF \in 0 .. Width + size /\ indexLBA \in 0 .. Width - 1
  /\ LBA \in Nat /\ buffer \in {<<>>} \cup [1 .. Block -> Byte]
  /\ line \in Command \cup {Other} /\ indexL \in Nat
  /\ nested \in Seq([pos : 0 .. Width - 1, cond : BOOLEAN, from : Nat])
  /\ Len(nested) <= MaxNest
  /\ {condIf, condLoop, over, lost} \subseteq BOOLEAN
  /\ left \in 0 .. MaxTrue

(***************************************************************************)
(* Wherever the jumps of `pool` lead, the byte that is read next is in the *)
(* buffer and is the byte of the file at indexF: jumping moves both places *)
(* without reading a block.  In a script of up to 65536 bytes that holds   *)
(* of the jumps that go astray as well.                                    *)
(***************************************************************************)
InSync ==
  indexF < size /\ (~lost \/ size <= Width) =>
    /\ indexF % Block = 0 => LBA * Block = indexF
    /\ indexF % Block # 0 =>
         /\ indexLBA = indexF % Block
         /\ indexLBA < Len(buffer)
         /\ buffer[indexLBA + 1] = ByteAt(indexF)

LinesOf(kind, a, b) == {k \in a .. b : text[k].kind = kind}

\* The loops that are open before line i by the brackets of the text: from no
\* line on have more loops been closed than opened.
OpenBefore(i) ==
  {j \in LinesOf("loop", 1, i - 1) : \A k \in j + 1 .. i - 1 :
     Cardinality(LinesOf("pool", j + 1, k)) <= Cardinality(LinesOf("loop", j + 1, k))}

(***************************************************************************)
(* The loops remembered at run time are the ones whose brackets are open   *)
(* in the text, after any number of turns through loops in loops, skipped  *)
(* or not: `pool` takes its own loop, as long as there are not more open   *)
(* at once than nestedLoop has room for.                                   *)
(***************************************************************************)
PoolMatches ==
  ~lost /\ ~over /\ (\A i \in Lines : Cardinality(OpenBefore(i + 1)) <= MaxNest) =>
    /\ {nested[i].from : i \in DOMAIN nested} = OpenBefore(LineAt(indexF))
    /\ \A i, j \in DOMAIN nested : i < j => nested[i].from < nested[j].from

(***************************************************************************)
(* The two conditions are never false together: whatever skips, there is a *)
(* line that ends it.                                                      *)
(***************************************************************************)
OneCondition == condIf \/ condLoop

(***************************************************************************)
(* What holds between any two bytes that AyumuScriptCli reads: the buffer  *)
(* and the two places are in step, and one of the conditions is true.      *)
(***************************************************************************)
ScriptInv == ScriptTypeOK /\ InSync /\ OneCondition

\* The script as lines.
LineOf(i) ==
  [kind   |-> text[i].kind,
   inside |-> text[i].start > text[i].end - (text[i].end % Block),
   block  |-> text[i].end \div Block]

AsLines == INSTANCE ScriptLines WITH
  lines <- [i \in 1 .. Cardinality(Lines) |-> LineOf(i)],
  at    <- LineAt(indexF),
  opens <- [i \in DOMAIN nested |-> [line |-> nested[i].from, cond |-> nested[i].cond]]

(***************************************************************************)
(* The bytewise interpreter, its buffer and its jumps within a block run   *)
(* the script line by line, unless `pool` must go back to a loop of        *)
(* another block or to one that starts its block.                          *)
(***************************************************************************)
RunsTheLines == AsLines!Spec

(***************************************************************************)
(* A script whose loops' conditions fail in the end comes to its end, or   *)
(* is caught where a false `if` skips a loop for ever.                     *)
(***************************************************************************)
Ends == <>over \/ <>[](~condIf)
=============================================================================
