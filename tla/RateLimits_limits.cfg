CONSTANTS
  conversation = conversation
  caller = caller
  login = login
  Buckets = {conversation, caller, login}
  Capacity <- Capacities
  Gates = {login}
  Chats <- OneConversation
  Per = 3
  Second = 2
  IdleFor = 4
  WindowStarts = {0, 2}
  Horizon = 8
SPECIFICATION Spec
INVARIANTS WindowBound RetryAfterHonest
PROPERTIES ImplementsIdealLimiter
CHECK_DEADLOCK FALSE
