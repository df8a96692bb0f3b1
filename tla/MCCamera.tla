------------------------------ MODULE MCCamera ------------------------------
EXTENDS Camera

CONSTANTS c1, c2

\* One caller works the recorder or streams, the other wants a clip or an mp4; the photos are
\* those of the loop, which go through the same queue.
TwoCallers == [t \in {c1, c2} |->
    IF t = c1 THEN {"start", "pause", "stream"} ELSE {"clip", "convert"}]

=============================================================================
