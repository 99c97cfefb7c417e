----------------------------- MODULE ScriptTasks -----------------------------
(***************************************************************************)
(* Scripts that run as tasks: the commands `ext`, `exb` and `kill` of a    *)
(* command line (src/src/cli.cc), UserScript and the parts of              *)
(* AyumuScriptCli (src/src/script.cc) that use what is shared, on top of   *)
(* the scheduler of TaskManager.                                           *)
(*                                                                         *)
(* A script task is not told what to run.  On its first turn it takes the  *)
(* command line that was last given to LoadScriptForTask, one pointer for  *)
(* the machine, and from then on reads the script by the name that stands  *)
(* in that command line, and its conditions there.  Commands are typed at  *)
(* the keyboard and carried out inside its interrupt; tasks are            *)
(* interrupted anywhere.                                                   *)
(*                                                                         *)
(* A script is its blocks of lines.  Script (the module) has the details   *)
(* of reading one; here a line says something, or is an `if` that is       *)
(* false, or a `fi`.                                                       *)
(***************************************************************************)
EXTENDS TaskManager, Sequences

CONSTANTS
  Cli,       \* the command lines, one to a window
  Program,   \* what the scripts on the disk say: script -> its blocks
  None       \* no command line, no script

Script == DOMAIN Program
Line == {"say", "if", "fi"}

ASSUME ScriptTasksAssumption ==
  /\ None \notin Cli /\ None \notin Script /\ "exb" \notin Cli
  /\ \A s \in Script : Program[s] \in Seq(Seq(Line))

VARIABLES
  lastCli,     \* what LoadScriptForTask keeps
  scriptName, userTask, condIf,  \* of each command line
  freed,       \* Task objects given back to the heap
  stage,       \* task -> "new", "run", "over"
  cliOf, size, block, text, line, \* the local variables of a script task
  wild,        \* a task went on from registers it has run past
  asked,       \* task -> the command line and the script `ext` was typed for
  alone,       \* script tasks no other `ext` or script has met
  said,        \* lines each task has said
  makers       \* command lines that made script tasks, and "exb"

shared == <<lastCli, scriptName, userTask, condIf, freed>>
locals == <<stage, cliOf, size, block, text, line>>
records == <<wild, asked, alone, said, makers>>
scriptVars == <<shared, locals, records>>

Unasked == <<None, None>>
Made == {t \in Task : asked[t] # Unasked}

ScriptInit ==
  /\ Init
  /\ lastCli = None
  /\ scriptName = [c \in Cli |-> None]
  /\ userTask = [c \in Cli |-> NoTask]
  /\ condIf = [c \in Cli |-> TRUE]
  /\ freed = {}
  /\ stage = [t \in Task |-> "new"] /\ cliOf = [t \in Task |-> None]
  /\ size = [t \in Task |-> 0] /\ block = [t \in Task |-> 0]
  /\ text = [t \in Task |-> <<>>] /\ line = [t \in Task |-> 1]
  /\ wild = FALSE
  /\ asked = [t \in Task |-> Unasked]
  /\ alone = {}
  /\ said = [t \in Task |-> 0]
  /\ makers = {}

-----------------------------------------------------------------------------
(***************************************************************************)
(* Typed commands.  A command line obeys none while its condition is       *)
(* false, be it a script that made it so.  The memory of a freed Task is   *)
(* not given out again here.                                               *)
(*                                                                         *)
(* A definition named after a mistake, here and below, is a variant of the *)
(* one that follows it: put in its place it must make a property fail.     *)
(***************************************************************************)
FirstCli(c) == IF lastCli = None THEN c ELSE lastCli

\* What LoadScriptForTask(true, c) keeps.
LoadScriptForTask(c) == c

Waiting == {t \in Made : stage[t] = "new"}
RunningOn(c) == {t \in Made : stage[t] = "run" /\ cliOf[t] = c}

Ext(c, s, t) ==
  /\ condIf[c]
  /\ t \notin Made \cup Binary
  /\ lastCli' = LoadScriptForTask(c)
  /\ scriptName' = [scriptName EXCEPT ![c] = s]
  /\ userTask' = [userTask EXCEPT ![c] = t]
  /\ asked' = [asked EXCEPT ![t] = <<c, s>>]
  /\ alone' = (alone \ (Waiting \cup RunningOn(c)))
                \cup (IF Waiting \cup RunningOn(c) = {} THEN {t} ELSE {})
  /\ makers' = makers \cup {c}
  /\ AddTask(t) \/ (~HasRoom /\ UNCHANGED vars)
  /\ UNCHANGED <<condIf, freed, locals, wild, said>>

Exb(c, t) ==
  /\ condIf[c]
  /\ t \in Binary
  /\ AddTask(t)
  /\ makers' = makers \cup {"exb"}
  /\ UNCHANGED <<shared, locals, wild, asked, alone, said>>

FreesTheNamedTask(c, n) == {tasks[n]}

\* DeleteTaskForScript: whatever task was named, the last one made here.
Frees(c, n) == {userTask[c]} \ {NoTask}

Forgotten(c) == [userTask EXCEPT ![c] = NoTask]

KillTyped(c, n) ==
  /\ condIf[c]
  /\ tasks[n] # NoTask
  /\ Kill(n) \/ (numTasks = 0 /\ UNCHANGED vars)
  /\ freed' = freed \cup Frees(c, n)
  /\ userTask' = Forgotten(c)
  /\ UNCHANGED <<lastCli, scriptName, condIf, locals, records>>

-----------------------------------------------------------------------------
(***************************************************************************)
(* A script task, in its turn.                                             *)
(***************************************************************************)
\* UserScript, up to the size AyumuScriptCli asks for.
Start(t) ==
  /\ stage[t] = "new"
  /\ stage' = [stage EXCEPT ![t] = "run"]
  /\ cliOf' = [cliOf EXCEPT ![t] = lastCli]
  /\ size' = [size EXCEPT ![t] = Len(Program[scriptName[lastCli]])]
  /\ UNCHANGED <<block, text, line, shared, said>>

LineLeft(t) == line[t] <= Len(text[t])

BlockLeft(t) == block[t] < size[t]

\* The next block of the file of the name that stands there now; behind its
\* end, nothing that could be a command.
ReadBlock(t) ==
  /\ stage[t] = "run" /\ ~LineLeft(t) /\ BlockLeft(t)
  /\ block' = [block EXCEPT ![t] = @ + 1]
  /\ text' = [text EXCEPT ![t] =
       LET file == Program[scriptName[cliOf[t]]]
       IN  IF block[t] < Len(file) THEN file[block[t] + 1] ELSE <<>>]
  /\ line' = [line EXCEPT ![t] = 1]
  /\ UNCHANGED <<stage, cliOf, size, shared, said>>

RunLine(t) ==
  /\ stage[t] = "run" /\ LineLeft(t)
  /\ line' = [line EXCEPT ![t] = @ + 1]
  /\ condIf' = [condIf EXCEPT ![cliOf[t]] = CASE text[t][line[t]] = "if" -> FALSE
                                              [] text[t][line[t]] = "fi" -> TRUE
                                              [] OTHER -> @]
  /\ said' = IF text[t][line[t]] = "say" /\ condIf[cliOf[t]]
             THEN [said EXCEPT ![t] = @ + 1] ELSE said
  /\ UNCHANGED <<stage, cliOf, size, block, text, lastCli, scriptName, userTask, freed>>

ConditionsLeft(c) == condIf
ConditionsReset(c) == [condIf EXCEPT ![c] = TRUE]

\* The task is over and keeps its turns: Schedule assigns the kill flag anew.
Finish(t) ==
  /\ stage[t] = "run" /\ ~LineLeft(t) /\ ~BlockLeft(t)
  /\ stage' = [stage EXCEPT ![t] = "over"]
  /\ condIf' = ConditionsReset(cliOf[t])
  /\ UNCHANGED <<cliOf, size, block, text, line, lastCli, scriptName, userTask, freed, said>>

Works(t) ==
  /\ running = t
  /\ Start(t) \/ ReadBlock(t) \/ RunLine(t) \/ Finish(t)
  /\ UNCHANGED <<vars, wild, asked, alone, makers>>

-----------------------------------------------------------------------------
(***************************************************************************)
(* The timer.  A task that goes on from a frame it has run past finds      *)
(* another stack under it; what follows is not modelled.                   *)
(***************************************************************************)
Tick ==
  /\ Schedule
  /\ wild' = (running' \in stale')
  /\ UNCHANGED <<shared, locals, asked, alone, said, makers>>

ScriptNext ==
  /\ ~wild
  /\ \/ \E c \in Cli, s \in Script, t \in Task : Ext(c, s, t)
     \/ \E c \in Cli, t \in Task : Exb(c, t)
     \/ \E c \in Cli, n \in Slot : KillTyped(c, n)
     \/ \E t \in Task \ Binary : Works(t)
     \/ Tick

ScriptSpec == ScriptInit /\ [][ScriptNext]_<<vars, scriptVars>>

-----------------------------------------------------------------------------
ScriptTypeOK ==
  /\ TypeOK
  /\ lastCli \in Cli \cup {None}
  /\ \A c \in Cli : scriptName[c] \in Script \cup {None}
                    /\ userTask[c] \in Task \cup {NoTask}
  /\ condIf \in [Cli -> BOOLEAN]
  /\ freed \subseteq Made /\ alone \subseteq Made
  /\ \A t \in Task :
       /\ stage[t] = "new" <=> cliOf[t] = None
       /\ block[t] \in 0 .. size[t]
       /\ line[t] \in 1 .. Len(text[t]) + 1

(***************************************************************************)
(* `kill` takes the last task out of the turns and frees the last task its *)
(* command line made, whichever task was named.  As long as one command    *)
(* line makes all tasks that is the same task, and Schedule never reads a  *)
(* Task that has been freed.                                               *)
(***************************************************************************)
NoFreedTask ==
  \A c \in Cli : makers \subseteq {c} =>
    \A i \in Slot : i < numTasks \/ i = currentTask => tasks[i] \notin freed

(***************************************************************************)
(* No Task is freed twice, by however many command lines.                  *)
(***************************************************************************)
FreedOnce == \A c \in Cli : userTask[c] \notin freed

\* The lines of a script, each by its block and its place there; which are run
\* before place p, and whether the last condition before p is still open there.
LinesOf(s) == UNION {{b} \X (1 .. Len(Program[s][b])) : b \in 1 .. Len(Program[s])}
Says(s, q, what) == Program[s][q[1]][q[2]] = what
Before(q, p) == q[1] < p[1] \/ (q[1] = p[1] /\ q[2] < p[2])
OpenAt(s, p) ==
  \E q \in LinesOf(s) :
    /\ Before(q, p) /\ Says(s, q, "if")
    /\ \A r \in LinesOf(s) : Before(q, r) /\ Before(r, p) => ~Says(s, r, "fi")

\* What a script says before p when it has its command line for itself.
SaidAt(s, p) ==
  {q \in LinesOf(s) : Before(q, p) /\ Says(s, q, "say") /\ ~OpenAt(s, q)}
End(s) == <<Len(Program[s]) + 1, 1>>

(***************************************************************************)
(* A script runs as it is written, on the command line it was asked for    *)
(* on, if no other `ext` is typed before its first turn, none on that      *)
(* command line before its end, and no other script runs there.            *)
(***************************************************************************)
RunsAsWritten ==
  \A t \in alone :
    /\ stage[t] # "new" => cliOf[t] = asked[t][1]
    /\ stage[t] = "over" => said[t] = Cardinality(SaidAt(asked[t][2], End(asked[t][2])))

(***************************************************************************)
(* Command lines and tasks have their types, and the script of a task is   *)
(* the one that was asked for.  ext, exb and the tasks' own steps.         *)
(***************************************************************************)
TasksInv == ScriptTypeOK /\ RunsAsWritten

(***************************************************************************)
(* A command line without a running script obeys what is typed, although   *)
(* scripts, several at once and in any order, leave conditions behind.  A  *)
(* script that lost its turns by a `kill` before its end counts as running *)
(* and may leave its command line deaf for good.                           *)
(***************************************************************************)
IdleObeys == \A c \in Cli : RunningOn(c) = {} => condIf[c]
=============================================================================
