---- MODULE MCConnection ----
EXTENDS Connection
CONSTANT MaxStream
MCResponses == {<<>>, <<1>>, <<0, 1>>}
Bounded == Len(stream) <= MaxStream
====
