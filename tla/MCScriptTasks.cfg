SPECIFICATION ScriptSpec
CONSTANTS
  Task = {t1, t2, b}
  Binary = {b}
  NoTask = NoTask
  Main = Main
  MaxTasks = 2
  Cli = {c1, c2}
  Program <- Programs
  None = None
INVARIANTS TasksInv NoFreedTask IdleObeys
SYMMETRY Alike
\* The model ends where a task goes on from an old frame.
CHECK_DEADLOCK FALSE
