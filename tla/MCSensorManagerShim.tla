------------------------ MODULE MCSensorManagerShim ------------------------
EXTENDS SensorManagerShim

CONSTANTS c1, c2

MCClients == {c1, c2}
=============================================================================
