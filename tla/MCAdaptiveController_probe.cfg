SPECIFICATION Spec
CONSTANTS
  Tasks = {1, 2}
  Handles = {1, 2}
  Wirings <- BothServices
  MaxInteractions = 1
  PauseFrom <- NotWaiting
  MaxOps <- FiveOrThree
  MaxRestarts = 1
INVARIANTS AnswerableWhileLeased ClosedTasksRecover NoDeadlock
PROPERTY PausedStaysPaused
CHECK_DEADLOCK FALSE
