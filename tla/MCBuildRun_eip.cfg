SPECIFICATION Spec
CONSTANT Configs <- MCAgentIP
INVARIANT EveryResourceReleased
\* A build really ends: once Builder.Run has returned nothing more need happen.
CHECK_DEADLOCK FALSE
