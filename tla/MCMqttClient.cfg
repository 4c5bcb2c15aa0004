SPECIFICATION Spec
CONSTANTS
  Tasks = {1, 2}
  Topics = {t1}
  QueueCap = 2
  MaxGen = 2
  MaxPub = 1
  NoTask = NoTask
  NoTopic = NoTopic
INVARIANTS TypeOK SingleLoop ConnectedIsServed SubscriptionsLive FreedOnlyQuiet
CHECK_DEADLOCK FALSE
PROPERTIES StopTakesEffect
