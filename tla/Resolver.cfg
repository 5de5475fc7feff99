CONSTANTS
  MaxDepth = 32
  Programs <- MCPrograms
SPECIFICATION Spec
INVARIANTS
  TypeOK
  LexicalScoping
  ScopingIsOrderFree
  UnboundIsReportedOrDeferred
  DuplicatesReported
PROPERTIES
  BindingsAreFinal
