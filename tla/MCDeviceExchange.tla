---- MODULE MCDeviceExchange ----
EXTENDS DeviceExchange
MCResponses == {<<>>, <<1>>, <<0, 1, 1, 0>>}
MCTelemetry == {<<>>, <<0>>, <<1, 1, 0, 1>>, <<0, 0, 0, 0, 0>>}
====
