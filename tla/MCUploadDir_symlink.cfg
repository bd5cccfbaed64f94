SPECIFICATION Spec
CONSTANT Unsettled = {3, 5, 7}
CONSTANT Sources <- MCSources
INVARIANT ContentsUploaded
\* An upload that has returned stops.
CHECK_DEADLOCK FALSE
