------------------------------ MODULE MCLights ------------------------------
EXTENDS Lights

CONSTANTS slow, fast

MCPeriods == { slow, fast }

Request(r, g, b, mode, period) ==
    [red |-> r, green |-> g, blue |-> b, flashMode |-> mode, period |-> period]

\* Dark, dark but flashing, each colour, both, blue, and two that blink.
MCRequests == {
    Request(0, 0, 0, "none", slow),
    Request(0, 0, 0, "timed", fast),
    Request(255, 0, 0, "none", slow),
    Request(0, 128, 0, "none", slow),
    Request(0, 0, 64, "none", slow),
    Request(255, 0, 0, "timed", slow),
    Request(255, 128, 0, "hardware", fast) }

=============================================================================
