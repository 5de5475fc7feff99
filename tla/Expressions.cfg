SPECIFICATION Spec
\* The program ends once it has printed.
CHECK_DEADLOCK FALSE
CONSTANTS
  MaxLen = 4
  Sources <- MCSources
INVARIANTS
  AcceptsTheLanguage
  GroupsByPrecedence
  UnitsLeaveNoTrace
  RoundTrips
