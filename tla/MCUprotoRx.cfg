SPECIFICATION RxSpec
CONSTANTS
  Header = 3
  Trailer = 1
  MaxPayload = 5
  BufSize = 10
  Payloads = {0, 1}
  MaxLine = 15
  MaxFrames = 6
  MaxNoise = 1
INVARIANTS Resynchronises
PROPERTIES ImplementsStream
CHECK_DEADLOCK FALSE
