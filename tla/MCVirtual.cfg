\* Writes through every view, masked reads through the views of whole registers.
SPECIFICATION Spec
CONSTANTS
  big = big
  small = small
  whole = whole
  both = both
  cut = cut
  part = part
  twice = twice
  Registers = {big, small}
  ViewNames = {whole, both, cut, part, twice}
  Width <- MCWidth
  Slices <- MCSlices
  Samples <- MCSamples
  Masks <- MCMasks
  ReadableViews = {whole, cut}
  UnmaskedViewReads = FALSE
  MaxMismatches = 1
INVARIANTS WritesReachTheirBits ViewsReadBack
PROPERTIES MismatchIffWrong CompareResultShowsWrongBits
