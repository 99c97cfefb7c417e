SPECIFICATION FairSpec
CONSTANTS
  Task = {t1, t2, t3, t4}
  Binary = {t1}
  NoTask = NoTask
  Main = Main
  MaxTasks = 3
INVARIANTS SlotsFilled FramesOwn NothingLost
PROPERTIES RoundRobin TurnsComeRound
