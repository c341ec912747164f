SPECIFICATION Spec
CONSTANTS
  api = api
  ai = ai
  worker = worker
  Services = {api, ai, worker}
  StopOrder <- MCStopOrder
  Worker = worker
  Reset = {api, ai}
  MinTasks <- MCMinTasks
  MaxTasks <- MCMaxTasks
  MaxRetries = 2
  MaxMessages = 8
PROPERTY
  StoppedStaysStopped
CHECK_DEADLOCK FALSE
