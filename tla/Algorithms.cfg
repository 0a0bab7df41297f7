SPECIFICATION Spec
CONSTANTS
  Bits <- MCBits
  DoubleMant = 5
  Word = 30
  QmdWords = 64
  WordBytes = 8
  HeaderBytes = 2
  SectionBytes = 2
  ProgramBytes = 1
  SymbolBytes = 1
  MaxSections = 8
  Narrowed <- MCNarrowed
  Widened <- MCWidened
  Quarters <- MCQuarters
  Shapes <- MCShapes
  Launches <- MCLaunches
  Methods <- MCMethods
  Pushes <- MCPushes
  Captures <- MCCaptures
  Cubins <- MCCubins
INVARIANTS ConversionNearest CastKeepsValue LayoutsExact EncodingsDecode KernelsFound
