CONSTANTS
  MaxDepth = 32
  Programs <- SiblingTrees
SPECIFICATION Spec
INVARIANTS
  SiblingOrderIrrelevant
