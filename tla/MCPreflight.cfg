SPECIFICATION Spec
CONSTANT Slug <- MCSlug
CONSTANT lower <- MClower
CONSTANT trim <- MCtrim
CONSTANT Id <- MCId
CONSTANT Fallback <- MCFallback
CONSTANT Cap = 4
CONSTANT Suffix <- MCSuffix
CONSTANT Families <- MCFamilies
INVARIANT TypeOK
INVARIANT AcceptedIffRulesKept
INVARIANT RegionIsRight
INVARIANT ImageNameIsRight
\* A template is rejected, a step halts, or BuildRun goes on.
CHECK_DEADLOCK FALSE
