SPECIFICATION Spec
CONSTANTS
  Threads = {t1, t2}
  Assist = Assist
  None = None
  o1 = o1
  o2 = o2
  r1 = r1
  Objs = {o1, o2}
  Reactors = {r1}
  ReactorOf <- OneDomain
  AssistObj = o2
  BlockObjs = {o1}
  PollLists <- Lists
  Deadlines = {1}
  Never = 1
  MayFail = FALSE
  MaxEvents = 2
INVARIANT EveryoneWoken
CHECK_DEADLOCK FALSE
