SPECIFICATION FairSpec
CONSTANTS
  PipeCap = 1
  Prompt = 2
  MaxOutput = 3
INVARIANT VisitInv
PROPERTY ReturnsUnlessHeld
