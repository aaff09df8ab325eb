\* Bytes of two values, bodies of up to two bytes.
SPECIFICATION FairSpec
CONSTANTS
  Base = 2
  MaxBody = 2
  Window = 3
  MaxFrames = 3
  MaxForeign = 10
  Bodies <- ShortBodies
  Junk <- MixedBody
INVARIANTS TypeOK ReadsAsWritten ReadsToTheEnd
PROPERTIES ImplementsLink FramesArrive
\* Nothing more has to be sent.
CHECK_DEADLOCK FALSE
