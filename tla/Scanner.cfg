SPECIFICATION Spec
\* The parser asks for nothing behind the end of the text.
CHECK_DEADLOCK FALSE
CONSTANTS
  CommentLen = 6
  OtherLen   = 5
  MaxWords   = 3
  Texts <- MCTexts
INVARIANTS
  LongestPieces
  LinesTell
  KeptIsTheNearest
  DocHasItsBody
  EchoesSurvive
PROPERTY
  Ends
