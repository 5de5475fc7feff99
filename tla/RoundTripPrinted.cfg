SPECIFICATION RoundTripSpec
CONSTANTS
  MaxLen = 5
  Files  <- MCPlainFiles
  Leaves <- MCLeaves
  Heads  <- MCHeads
INVARIANT AstSurvives
