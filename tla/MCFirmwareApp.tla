--------------------------- MODULE MCFirmwareApp ---------------------------
EXTENDS FirmwareApp

CONSTANTS m1, other,        \* two mice, each of a model of its own
          old, new, junk,   \* old is an image for modelA only
          modelA, modelB

Mice == {m1, other}
Modelling == [u \in Mice |-> IF u = other THEN modelB ELSE modelA]
Images == {old, new, junk}
Versions == [i \in Images |-> IF i = new THEN 2 ELSE 1]
Naming == [i \in Images |-> IF i = old THEN {modelA} ELSE {modelA, modelB}]
Formed == {old, new}
KnownRunning == {new}
=============================================================================
