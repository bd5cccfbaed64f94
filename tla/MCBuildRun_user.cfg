SPECIFICATION Spec
CONSTANT Configs <- MCUser
INVARIANT ExplicitUserKept
\* A build really ends: once Builder.Run has returned nothing more need happen.
CHECK_DEADLOCK FALSE
