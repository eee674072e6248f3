SPECIFICATION MCSpec
CONSTANTS
  Families = {"servants"}
  Clients = {c1}
  Tasks = {t1}
  t1 = t1
  t2 = t2
  Ways <- LowWays
  Interruptible = {}
  Throwing = {t1}
  Timeouts = FALSE
  EventWorlds = {w1, w2}
  Wide = {w2}
  Waited = {w2}
  Subscribers = {s1, s2}
  w1 = w1
  w2 = w2
  s1 = s1
  s2 = s2
  Home <- OneEach
  Once = {s1}
  Throwers = {s2}
  TopicForm = "channel_topic"
  Subscribed <- AnyToken
  Published <- FirstPublishes
  Wildcard = "*"
  Nil = ""
  MaxTokens <- TwoAndOne
  MaxPublish = 2
  None = None
INVARIANTS
  LowLayerFirst
CHECK_DEADLOCK FALSE
