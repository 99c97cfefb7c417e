----------------------------- MODULE TaskManager -----------------------------
(***************************************************************************)
(* The scheduler: os::TaskManager of src/src/multitasking.cc, driven by    *)
(* the timer interrupt (InterruptManager::DoHandleInterrupt and int_bottom *)
(* of interruptstubs.s) on the x86 build.                                  *)
(*                                                                         *)
(* An interrupt pushes the registers of whatever the CPU executes on that  *)
(* context's own stack and hands Schedule a pointer to them; Schedule      *)
(* returns the pointer the CPU resumes from.  A context is a task or Main, *)
(* the kernel's own loop, which is no task.  A saved frame is modelled by  *)
(* the context whose registers it holds, and by whether that context has   *)
(* run on since (it is then in `stale`, and resuming it repeats what it    *)
(* has done).  Registers, stacks and priorities, which Schedule does not   *)
(* read, are left out.                                                     *)
(***************************************************************************)
EXTENDS Integers, FiniteSets

CONSTANTS
  Task,      \* the Task objects that are ever made
  Binary,    \* those made by `exb`, with instructionCount > 0
  NoTask,    \* an empty slot of tasks[]
  Main,      \* the context that booted the kernel
  MaxTasks   \* size of tasks[], 256 in the code

ASSUME TaskAssumption ==
  /\ Binary \subseteq Task
  /\ NoTask \notin Task
  /\ Main \notin Task
  /\ MaxTasks \in Nat \ {0}

VARIABLES
  tasks,        \* slot -> Task or NoTask
  numTasks,
  currentTask,  \* -1 when no task of tasks[] is known to be running
  saved,        \* Task::cpustate: task -> the context whose frame it points to
  stale,        \* contexts whose last registers were pushed but not saved
  running,      \* the context the CPU executes
  added,        \* tasks AddTask has taken
  killed,       \* tasks the `kill` command has named
  ended,        \* tasks Schedule has ended, their program being over
  since         \* task -> the tasks given the CPU since it last had it

taskVars == <<tasks, numTasks, currentTask, saved, stale, running>>
history == <<added, killed, ended, since>>
vars == <<taskVars, history>>

Slot == 0 .. MaxTasks - 1
Context == Task \cup {Main}

Init ==
  /\ tasks = [i \in Slot |-> NoTask]
  /\ numTasks = 0
  /\ currentTask = -1
  /\ saved = [t \in Task |-> t]
  /\ stale = {}
  /\ running = Main
  /\ added = {} /\ killed = {} /\ ended = {}
  /\ since = [t \in Task |-> {}]

-----------------------------------------------------------------------------
(***************************************************************************)
(* AddTask, by ext, exb and the kernel when it enters the GUI.  A full     *)
(* table refuses the task and changes nothing.                             *)
(*                                                                         *)
(* A definition named after a mistake, here and below, is a variant of the *)
(* one that follows it: put in its place it must make a property fail.     *)
(***************************************************************************)
HasRoom == numTasks < MaxTasks

LastSlot == numTasks - 1

FreeSlot == numTasks

AddTask(t) ==
  /\ t \notin added
  /\ HasRoom
  /\ tasks' = [tasks EXCEPT ![FreeSlot] = t]
  /\ numTasks' = numTasks + 1
  /\ added' = added \cup {t}
  /\ since' = [since EXCEPT ![t] = {}]
  /\ UNCHANGED <<currentTask, saved, stale, running, killed, ended>>

\* DeleteTask: the slot keeps its task and no other task moves.
Removed ==
  /\ currentTask' = -1
  /\ numTasks' = numTasks - 1

(***************************************************************************)
(* The `kill` command: any slot that was ever filled will do.  The kill    *)
(* flag DeleteTask sets is not modelled: Schedule assigns it before every  *)
(* test of it.                                                             *)
(***************************************************************************)
Kill(n) ==
  /\ tasks[n] # NoTask
  /\ numTasks > 0
  /\ Removed
  /\ killed' = killed \cup {tasks[n]}
  /\ UNCHANGED <<tasks, saved, stale, running, added, ended, since>>

(***************************************************************************)
(* Schedule.  Resume(i, f) is the return of tasks[i]->cpustate, read from  *)
(* the frames f; the interrupt stub switches to it.                        *)
(***************************************************************************)
Resume(i, f) ==
  /\ currentTask' = i
  /\ running' = f[tasks[i]]
  /\ since' = [t \in Task |->
                 IF t = f[tasks[i]] THEN {}
                 ELSE since[t] \cup ({f[tasks[i]]} \cap Task)]

AfterStartingOver(i, n) == 0
AfterSkippingOne(i, n) == IF i + 2 >= n THEN 0 ELSE i + 2

\* if (++i >= n) { i = 0; }
After(i, n) == IF i + 1 >= n THEN 0 ELSE i + 1

HasCurrentButZero == currentTask > 0

HasCurrent == currentTask >= 0

\* The program of the task at currentTask is over: eip is past its last
\* instruction.  eip is the running context's; any value of it is possible.
EndCurrent ==
  /\ HasCurrent
  /\ tasks[currentTask] \in Binary
  /\ ended' = ended \cup {tasks[currentTask]}
  /\ numTasks' = numTasks - 1
  /\ Resume(After(-1, numTasks - 1), saved)
  /\ stale' = stale \cup {running}
  /\ UNCHANGED <<tasks, saved, added, killed>>

SavedInNext == [saved EXCEPT ![tasks[After(currentTask, numTasks)]] = running]

SaveCurrent ==
  IF HasCurrent THEN [saved EXCEPT ![tasks[currentTask]] = running] ELSE saved

\* A frame is saved through currentTask, and lost when there is none.
NextTurn ==
  /\ saved' = SaveCurrent
  /\ stale' = IF HasCurrent THEN stale \ {running} ELSE stale \cup {running}
  /\ Resume(After(currentTask, numTasks), saved')
  /\ UNCHANGED <<tasks, numTasks, added, killed, ended>>

\* Without a task the interrupt returns to where it came from.
NoTurn == numTasks <= 0 /\ UNCHANGED vars

Schedule == NoTurn \/ (numTasks > 0 /\ (EndCurrent \/ NextTurn))

Next ==
  \/ \E t \in Task : AddTask(t)
  \/ \E n \in Slot : Kill(n)
  \/ Schedule

Spec == Init /\ [][Next]_vars

\* The timer keeps ticking: the PIT runs from boot and nothing here masks it.
FairSpec == Spec /\ WF_vars(Schedule)

-----------------------------------------------------------------------------
TypeOK ==
  /\ tasks \in [Slot -> Task \cup {NoTask}]
  /\ numTasks \in 0 .. MaxTasks
  /\ currentTask \in -1 .. MaxTasks - 1
  /\ saved \in [Task -> Context]
  /\ stale \subseteq Context
  /\ running \in Context
  /\ added \subseteq Task /\ killed \subseteq Task /\ ended \subseteq Task
  /\ since \in [Task -> SUBSET Task]

Counted == {tasks[i] : i \in 0 .. numTasks - 1}

(***************************************************************************)
(* Schedule never follows a null task pointer, whatever was killed or has  *)
(* ended: every slot it may read next holds a task, although DeleteTask    *)
(* lowers numTasks without moving anything.                                *)
(***************************************************************************)
SlotsFilled ==
  /\ \A i \in 0 .. numTasks - 1 : tasks[i] # NoTask
  /\ currentTask >= 0 => currentTask < numTasks \/ (currentTask = 0 /\ tasks[0] # NoTask)

(***************************************************************************)
(* currentTask names the task the CPU executes, so that the frame Schedule *)
(* stores belongs to the task it stores it in: across every mix of AddTask *)
(* and kill, as long as no program has run to its end.                     *)
(***************************************************************************)
CurrentRuns == ended = {} /\ currentTask >= 0 => running = tasks[currentTask]

FramesOwn == ended = {} => \A t \in Task : saved[t] = t

(***************************************************************************)
(* Only an ended program or a kill makes a task lose work: without either  *)
(* a task always resumes where the timer stopped it.                       *)
(***************************************************************************)
NothingLost == ended = {} /\ killed = {} => stale \subseteq {Main}

(***************************************************************************)
(* Turns go round: as long as nothing is killed or ends, no task is given  *)
(* the CPU twice while another task waits for its first turn since.        *)
(***************************************************************************)
RoundRobin ==
  [][Schedule /\ ended' = {} /\ killed = {} =>
       \A t \in Counted : t # running' => running' \notin since[t]]_vars

(***************************************************************************)
(* Once no more tasks are killed and no more programs end, every slot      *)
(* within numTasks keeps getting the CPU, wherever the last kill or end    *)
(* has put currentTask and whatever the table holds by then.  While they   *)
(* go on there is no such promise: each starts the round again at slot 0,  *)
(* and whoever adds and kills between any two turns keeps slot 1 waiting.  *)
(***************************************************************************)
NoneLeaves == numTasks' >= numTasks

TurnsComeRound ==
  <>[][NoneLeaves]_vars => \A i \in Slot : []<>(currentTask = i \/ numTasks <= i)
=============================================================================
