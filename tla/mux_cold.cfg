\* A Client used directly: sends may come before any request.
\* One frame in each window.
SPECIFICATION FairSpec
CONSTANTS
  t1 = t1
  t2 = t2
  hello = hello
  read = read
  fatal = fatal
  write = write
  huge = huge
  noCall = noCall
  Tasks <- MCTasks
  Requests <- MCRequests
  Sends <- MCSends
  Oversized <- MCHuge
  Fatal <- MCFatal
  Skewed <- None
  NoCall <- noCall
  MaxCalls = 2
  WireCap = 1
  HelloFirst = FALSE
INVARIANTS FollowUpSees
CHECK_DEADLOCK FALSE
