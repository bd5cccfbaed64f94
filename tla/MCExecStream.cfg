SPECIFICATION FairSpec
CONSTANT Commands <- MCCommands
INVARIANT TypeOK
INVARIANT NoFalseSuccess
INVARIANT StatusHasACause
INVARIANT OutputWithoutHoles
INVARIANT CleanRunExact
PROPERTY PromiseKept
PROPERTY CommandReturns
\* A command really ends.
CHECK_DEADLOCK FALSE
