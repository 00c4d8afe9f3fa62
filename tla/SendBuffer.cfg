SPECIFICATION SendSpec
CONSTANTS
    BufferSize = 8
    Pre = 2
    MaxLength = 10
INVARIANTS FittingSentWhole InsideIfFits
