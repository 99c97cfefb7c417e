----------------------------- MODULE ScriptLines -----------------------------
(***************************************************************************)
(* What a writer of AyumuScript may count on: the script as lines, run one *)
(* after the other, where `if` and `loop` decide whether the lines that    *)
(* follow are carried out and `pool` goes back to its `loop`.              *)
(* AyumuScriptCli (module Script) works on bytes and blocks instead, and a *)
(* loop that does not lie inside one block is beyond it.                   *)
(***************************************************************************)
EXTENDS Naturals, Sequences

CONSTANT MaxNest   \* open loops remembered, 16 in the code

VARIABLES
  lines,     \* the script: [kind, inside, block] of each line
  at,        \* the line to be run next
  condIf,    \* CommandLine::conditionIf
  condLoop,  \* CommandLine::conditionLoop
  opens,     \* the loops entered and not left: [line, cond]
  lost,      \* a `pool` could not find its loop: nothing is promised any more
  over

vars == <<lines, at, condIf, condLoop, opens, lost, over>>

Top == opens[Len(opens)]
Popped == SubSeq(opens, 1, Len(opens) - 1)

\* command(): whether a line that is neither `fi` nor `pool` is carried out.
Obeyed == condIf /\ condLoop

Plain(kind) == at <= Len(lines) /\ lines[at].kind = kind

Say == Plain("say") /\ at' = at + 1 /\ UNCHANGED <<condIf, condLoop, opens>>

If ==
  /\ Plain("if")
  /\ condIf' \in IF Obeyed THEN BOOLEAN ELSE {condIf}
  /\ at' = at + 1
  /\ UNCHANGED <<condLoop, opens>>

\* `else` is itself a line that a false condition skips.
Else ==
  /\ Plain("else")
  /\ condIf' = IF Obeyed THEN FALSE ELSE condIf
  /\ at' = at + 1
  /\ UNCHANGED <<condLoop, opens>>

Fi ==
  /\ Plain("fi")
  /\ condIf' = (condIf \/ condLoop)
  /\ at' = at + 1
  /\ UNCHANGED <<condLoop, opens>>

Remembered(c) ==
  IF Len(opens) < MaxNest THEN Append(opens, [line |-> at, cond |-> c])
  ELSE Append(Popped, [Top EXCEPT !.cond = c])

Loop ==
  /\ Plain("loop")
  /\ condLoop' \in IF Obeyed THEN BOOLEAN ELSE {condLoop}
  /\ opens' = Remembered(condLoop')
  /\ at' = at + 1
  /\ UNCHANGED condIf

\* `pool` can go back to a loop of its own block that does not begin it.
InReach(l) == lines[l].inside /\ lines[l].block = lines[at].block

Pool ==
  /\ Plain("pool")
  /\ at' = IF opens # <<>> /\ Top.cond THEN Top.line ELSE at + 1
  /\ opens' = IF opens = <<>> THEN opens ELSE Popped
  /\ opens # <<>> /\ Top.cond => InReach(Top.line)
  /\ condLoop' = (condLoop \/ condIf)
  /\ UNCHANGED condIf

LosesItsWay ==
  /\ Plain("pool")
  /\ opens # <<>> /\ Top.cond /\ ~InReach(Top.line)
  /\ lost' = TRUE

End == at > Len(lines) /\ ~over /\ over' = TRUE /\ condIf' = TRUE /\ condLoop' = TRUE /\ UNCHANGED <<at, opens>>

Init ==
  /\ at = 1
  /\ condIf = TRUE /\ condLoop = TRUE
  /\ opens = <<>>
  /\ lost = FALSE /\ over = FALSE

Next ==
  /\ lines' = lines
  /\ \/ ~lost /\ ~over /\ UNCHANGED <<lost, over>> /\ (Say \/ If \/ Else \/ Fi \/ Loop \/ Pool)
     \/ ~lost /\ UNCHANGED lost /\ End
     \/ ~lost /\ LosesItsWay
     \/ lost /\ lost' = TRUE

Spec == Init /\ [][Next]_vars
=============================================================================
