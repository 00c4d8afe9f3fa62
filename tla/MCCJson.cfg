SPECIFICATION CJsonSpec
CONSTANTS
    MaxLength = 6
    Nodes = {n1, n2, n3, n4}
    None = none
    PrintItems <- SmallItems
    Height <- SmallHeight
    BufferSizes <- SmallSizes
    DefaultSize = 4
    IntMax = 40
    ParseTexts <- SmallTexts
    NestingLimit = 2
    StringTexts <- SmallLiterals
VIEW View
INVARIANTS
    UnreadIntact MinifiedUnlessBackslashQuote ListShape PrintsTheText ParsesTheText StaysInside
    NothingLeaks
PROPERTY ImplementsTree
\* A call ends.
CHECK_DEADLOCK FALSE
