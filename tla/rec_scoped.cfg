\* Two threads, each with an encoder and passes; those of e2 forget the borrow.
SPECIFICATION Spec
CONSTANTS
  e1 = e1
  e2 = e2
  p1 = p1
  p2 = p2
  kept = kept
  loose = loose
  view = view
  Encoders <- TwoEncoders
  Borrowing <- JustOne
  Passes <- TwoPasses
  Resources <- ThreeResources
  Buffers <- TwoBuffers
  Kept <- KeptOnes
  Calls <- ThreeCalls
  MaxCommands <- Few
  MaxHandles <- Clones
  WireCap = 2
  MaxFrame = 3
SYMMETRY Alike
INVARIANTS TypeOK KeptIsThere
PROPERTIES KeptIsExecuted ImplementsTape
CHECK_DEADLOCK FALSE
