CONSTANTS
  mode = mode
  process = process
  Pages <- TwoPages
  Commands <- SomeCommands
  Buffer = 24
  Lists = {0}
  Garbage = {0, 8, 100}
SPECIFICATION Spec
CHECK_DEADLOCK FALSE
INVARIANTS TypeOK AnswerOwed OneLateMessage
PROPERTIES CommandReturns StopReturns
