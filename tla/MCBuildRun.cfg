SPECIFICATION FairSpec
CONSTANT Configs <- MCConfigs
INVARIANT TypeOK
INVARIANT LeaksAccounted
INVARIANT TeardownInReverse
INVARIANT PushFromStoppedVM
INVARIANT PushedImageReal
INVARIANT PastWaitMeansBooted
INVARIANT AssertedKeysPresent
INVARIANT ResultMatchesProgress
INVARIANT StartedPushDecides
PROPERTY LeaseHonoured
PROPERTY BuildReturns
\* A build really ends: once Builder.Run has returned nothing more need happen.
CHECK_DEADLOCK FALSE
