--------------------------- MODULE MCViewerStream ---------------------------
EXTENDS ViewerStream

StepTimes == [t \in Tracks |-> IF t = "video" THEN 2 ELSE 3]
=============================================================================
