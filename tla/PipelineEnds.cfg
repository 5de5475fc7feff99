SPECIFICATION Spec
CONSTANT MaxDepth = 32
CONSTANT Programs <- MCInlineTrees
CONSTANT Commands <- PlainCommand
INVARIANT EndsArePorts
