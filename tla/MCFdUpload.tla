----------------------------- MODULE MCFdUpload -----------------------------
\* A stream upload interleaves with its workers, so its files are one unit shorter.
EXTENDS FdUpload

Sizes == [m \in ModeNames |-> IF m \in Streams THEN {4} ELSE {0, 5}]
Bounds == [m \in ModeNames |-> IF m \in Streams THEN 4 ELSE 5]
=============================================================================
