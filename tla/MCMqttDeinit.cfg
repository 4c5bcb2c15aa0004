SPECIFICATION Spec
CONSTANTS
  Tasks = {1, 2}
  Topics = {t1}
  QueueCap = 3
  MaxGen = 2
  MaxPub = 1
  NoTask = NoTask
  NoTopic = NoTopic
INVARIANT ProcessReturned
CHECK_DEADLOCK FALSE
