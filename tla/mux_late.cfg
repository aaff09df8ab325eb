\* The facade's use of the client, with every scheduling fairness the runtime
\* gives. One frame in each window.
SPECIFICATION FairSpec
CONSTANTS
  t1 = t1
  t2 = t2
  hello = hello
  read = read
  fatal = fatal
  write = write
  huge = huge
  noCall = noCall
  Tasks <- MCTasks
  Requests <- MCRequests
  Sends <- MCSends
  Oversized <- MCHuge
  Fatal <- MCFatal
  Skewed <- None
  NoCall <- noCall
  MaxCalls = 2
  WireCap = 1
  HelloFirst = TRUE
PROPERTIES EveryRequestEnds
CHECK_DEADLOCK FALSE
