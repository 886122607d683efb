------------------------- MODULE MCRestartVerify -------------------------
EXTENDS RestartVerify

CONSTANTS mouse, twin, stranger   \* two of one model and one of another

ModelOfMice == [u \in Unit |-> IF u = stranger THEN "other model" ELSE "model"]
=============================================================================
