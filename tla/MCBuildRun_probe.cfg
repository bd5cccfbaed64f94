SPECIFICATION FairSpec
CONSTANT Configs <- MCAgent
PROPERTY AgentConnectBounded
\* A build really ends: once Builder.Run has returned nothing more need happen.
CHECK_DEADLOCK FALSE
