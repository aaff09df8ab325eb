\* A Client used directly: sends may come before any request, so the cold path
\* is taken; one send is too large for a frame. One frame in each window.
SPECIFICATION FairSpec
CONSTANTS
  t1 = t1
  t2 = t2
  hello = hello
  read = read
  fatal = fatal
  write = write
  huge = huge
  noCall = noCall
  Tasks <- MCTasks
  Requests <- MCRequests
  Sends <- MCSends
  Oversized <- MCHuge
  Fatal <- MCFatal
  Skewed <- MCSkewed
  NoCall <- noCall
  MaxCalls = 2
  WireCap = 1
  HelloFirst = FALSE
INVARIANTS AnsweredFromOwnCall ServedOnce
PROPERTIES ResolvedWhileReaderRuns QueuedIsServed
\* Every call may have been made and answered: the system rests there.
CHECK_DEADLOCK FALSE
