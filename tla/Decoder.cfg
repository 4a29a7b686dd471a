SPECIFICATION Spec
CONSTANTS
  None = None
  MaxConns = 2
  StreamOf <- Switches
  Headers <- Bytes
  Buffers = {b1, b2}
  MaxUnits = 2
  MaxPending = 1
  MaxOrphans = 1
  JoinsMidStream = FALSE
SYMMETRY Interchangeable
INVARIANTS TypeOK OneStreamPerCodec BuffersAccounted MissesDoNotAddUp OneLossPerReset Bootstraps StoppedReleasesCodec
CHECK_DEADLOCK FALSE
