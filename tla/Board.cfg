CONSTANTS
  c1 = c1
  Clients = {c1}
  SEGS = 2
  MaxTries = 3
  MaxCuts = 2
  WIDTH = 128
  HEIGHT = 64
  MaxDrawings = 3
  MaxLosses = 2
  Scrambled <- MCScrambled
  MAX_LABEL = 2
  MAX_NAME = 5
  TAIL = 1
  ANSWER = 2
  MAX_BODY = 8
  Datagrams <- MCDatagrams
  Board = Board
  Junk = Junk
  BYTE = 2
  DEPTH = 2
  Colours <- MCColours
  LATCH = 11
  MaxPixels = 3
  MaxTests = 3
  MaxCalls = 3
  MaxSuites = 2
  NUM_SAMPLES = 3
  PRINT_PERIOD = 4
  Raw <- MCRaw
  Delays <- MCDelays
  MaxClock = 20
  FLOORS = 5
  W = 5
  H = 16
  WORD = 128
  Font <- MCFont
  PRECISION = 100
  SIG = 3
  LEAP = 4
  ACCURACY = 400
  Printable = {0}
  Null = Null
  Requests <- MCRequests
  Squares <- MCSquares
  Lines <- MCLines
  Texts <- MCTexts
  Pictures <- MCPictures
  Numbers <- MCNumbers
  Strings <- MCStrings
  Floats <- MCFloats
  Prints <- MCPrints
SPECIFICATION BoardSpec
INVARIANTS BoardTypeOK HeldOnlyUnasked CountedOncePerLoss InStep QuestionEchoed ReplyFits
  BitsArrive VerdictsTrue FormUnderstood ShapesDrawn TextReadable AssertionsJudge FloatsTold
PROPERTIES Finishes ShowHeals  MeanTold
CHECK_DEADLOCK FALSE
