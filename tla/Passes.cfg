SPECIFICATION MCSpec
CONSTANT MaxDepth = 32
CONSTANT Programs <- MCFiles
CONSTANT Commands <- MCCommandLines
INVARIANT WalkedEndsArePorts
INVARIANT FlowsAreDirected
INVARIANT ConstantsStayConstant
INVARIANT RedefinitionsLeadUp
INVARIANT TypedChainsNarrow
INVARIANT SpecializesIsReachability
INVARIANT TypingIsSound
INVARIANT IgnoranceIsAccepted
INVARIANT OwnedFeaturesHaveOwners
PROPERTY ImplementsDriver
