SPECIFICATION RoundTripSpec
CONSTANTS
  MaxLen = 5
  Files  <- MCAllFiles
  Leaves <- MCLeaves
  Heads  <- MCHeads
INVARIANT PlacedByBraces
INVARIANT AcceptsTheGrammar
INVARIANT ErrorsAreContained
INVARIANT JudgedAlone
INVARIANT CommentsTakeTheirBody
INVARIANT RoundTrips
INVARIANT NamesSurvive
INVARIANT DumpsTellAll
PROPERTY Progress
