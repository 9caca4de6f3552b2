SPECIFICATION FairSpec
CONSTANTS
  Conns <- MCConns
  PtrOf <- MCPtrOf
  LibOf <- MCLibOf
  StreamOf <- MCStreamOf
  MaxData = 3
  Skipped = {"b"}
  RingSize = 1
  maxConns = 2
  MaxFails = 1
INVARIANT CaptureIsComplete
PROPERTY EveryLibraryProbed
