SPECIFICATION FairSpec
CONSTANT Unsettled = {3, 5, 7}
CONSTANT Sources <- MCSources
INVARIANT TypeOK
INVARIANT UploadComplete
INVARIANT PartialIsPrefix
INVARIANT FailureHasACause
PROPERTY UploadReturns
\* An upload that has returned stops.
CHECK_DEADLOCK FALSE
