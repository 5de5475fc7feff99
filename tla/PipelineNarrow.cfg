SPECIFICATION Spec
CONSTANT MaxDepth = 32
CONSTANT Programs <- MCUntypedMiddle
CONSTANT Commands <- PlainCommand
INVARIANT RedefinitionsNarrow
