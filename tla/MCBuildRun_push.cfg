SPECIFICATION Spec
CONSTANT Configs <- MCPush
INVARIANT ArtifactPointsAtPush
\* A build really ends: once Builder.Run has returned nothing more need happen.
CHECK_DEADLOCK FALSE
