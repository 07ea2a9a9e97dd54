SPECIFICATION FairSpec
CONSTANTS
  None = None
  result = result
  value = value
  reader = reader
  polled = polled
  c1 = c1
  c2 = c2
  app = app
  dashboard = dashboard
  Connection = {app, dashboard}
  Listens <- ListenSets
  listener = app
  notify_conn = dashboard
  Wait = {result, value, reader, polled}
  channel <- WaitChannel
  accepts <- SecondValue
  PoolOnly = {polled}
  Batch = 2
  Client = {c1, c2}
  Fanout = {task}
  rearm = rearm
  MaxRows = 2
  MaxValues = 2
  Together <- Dashboard
PROPERTY WatchNeverHangs
CHECK_DEADLOCK FALSE
