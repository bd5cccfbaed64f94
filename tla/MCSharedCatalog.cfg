SPECIFICATION Spec
CONSTANTS
  b1 = b1
  b2 = b2
  b3 = b3
  n1 = n1
  n2 = n2
  n3 = n3
  Builds = {b1, b2, b3}
  Names = {n1, n2, n3}
  Nobody = Nobody
  None = None
  asked <- MCAsked
  Keeping <- MCKeeping
INVARIANT TypeOK
INVARIANT ImageStays
INVARIANT OrphanExplained
PROPERTY ImagesArePrivate
\* Builds end.
CHECK_DEADLOCK FALSE
