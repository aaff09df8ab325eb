\* The facade's use of the client: a request has opened the stream before the
\* first send. At most WireCap = 1 frame in each direction's window.
SPECIFICATION Spec
CONSTANTS
  t1 = t1
  t2 = t2
  hello = hello
  read = read
  fatal = fatal
  write = write
  huge = huge
  noCall = noCall
  Tasks <- MCTasks
  Requests <- SmallRequests
  Sends <- SmallSends
  Oversized <- None
  Fatal <- MCFatal
  Skewed <- HelloSkewed
  NoCall <- noCall
  MaxCalls = 3
  WireCap = 1
  HelloFirst = TRUE
INVARIANTS TypeOK FollowUpSees NoLostWaiter
PROPERTIES ImplementsRpc
SYMMETRY TaskSymmetry
\* Every call may have been made and answered: the system rests there.
CHECK_DEADLOCK FALSE
