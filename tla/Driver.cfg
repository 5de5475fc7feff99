SPECIFICATION Spec
CONSTANT Commands <- MCCommands
INVARIANT TypeOK
INVARIANT OutputIsChecked
INVARIANT ExitCodeTells
INVARIANT InOrder
PROPERTY Exits
