CONSTANTS
  MaxDepth = 32
  Programs <- AliasTrees
SPECIFICATION Spec
INVARIANTS
  AliasesSeenThrough
