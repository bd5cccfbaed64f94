SPECIFICATION FairSpec
CONSTANT Transfers <- MCTransfers
INVARIANT TypeOK
INVARIANT RefusalKeptOutOfFile
INVARIANT CleanTransferSucceeds
PROPERTY CallPromised
PROPERTY TransferReturns
\* A transfer really ends.
CHECK_DEADLOCK FALSE
