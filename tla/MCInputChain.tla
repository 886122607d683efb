--------------------------- MODULE MCInputChain ---------------------------
EXTENDS InputChain

CONSTANT left   \* with both sources; other events take the queue's room

Deltas == {-1, 1}
=============================================================================
