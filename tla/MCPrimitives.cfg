SPECIFICATION Spec
CONSTANTS
  Base = 4
  SmallInt = 1
  SmallString = 2
  SmallTag = 2
  SmallSize = 3
  OutBlock = 24
  TrailBlock = 2
  StackInit = 2
  StackMax = 8
  HashAlpha = 65
  HashBeta = 19
  HashWord = 4096
  HashMask = 1024
  WordBits = 6
  MaxDims = 3
  HashElts = 3
  PageBits = 4
  HashFactor = 7
  NameBuckets = 2
  Messages <- MCMessages
  Graphs <- MCGraphs
  Limits <- MCLimits
  Operations <- Bin
  Operands <- MCOperands
  Numerals <- MCNumerals
  Arrays <- MCArrays
  Roots = {1, 2, 3}
  RootLevels = {0, 1, 2}
  Pages = {1, 2, 3, 4}
  PageKinds = {"heap"}
  Names = {1, 2, 3}
  MaxOps = 3
  Stacks <- MCStacks
  LexTable <- MCLexTable
  LexInputs <- MCLexInputs
  ParseTable <- MCParseTable
  ParseInputs <- MCParseInputs
  Lengths <- MCLengths
  Views <- MCViews
  Clocks <- MCClocks
  IoBuffer = 2
  MaxChannels = 2
  MaxHandles = 2
  MaxSent = 5
INVARIANTS RoundTrip WriterIsContained ComparesInOrder NumbersAreExact ElementsArePlaced LookupsFind TokensAreMaximal ParsesTheGrammar ChunksDoNotShow
CHECK_DEADLOCK FALSE
