\* One buffer is dropped between the call that records it and the submission.
SPECIFICATION Spec
CONSTANTS
  e1 = e1
  e2 = e2
  p1 = p1
  p2 = p2
  kept = kept
  loose = loose
  view = view
  Encoders <- TwoEncoders
  Borrowing <- TwoEncoders
  Passes <- TwoPasses
  Resources <- ThreeResources
  Buffers <- TwoBuffers
  Kept <- KeptOnes
  Calls <- ThreeCalls
  MaxCommands <- Few
  MaxHandles <- Clones
  WireCap = 2
  MaxFrame = 3
INVARIANT RefusalSurfaces
CHECK_DEADLOCK FALSE
