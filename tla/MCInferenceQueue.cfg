CONSTANTS
  o1 = o1
  o2 = o2
  Objs <- MCObjs
  Size <- MCSize
  QueueSize = 2
  SubmitRetryMax = 2
  InferenceRetryCount = 2
  NumMaxWaitRetries = 1
  MaxRuns = 2
SPECIFICATION FairSpec
PROPERTIES ImplementsService RunReturns
