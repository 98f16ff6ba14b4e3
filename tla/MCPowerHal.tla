----------------------------- MODULE MCPowerHal -----------------------------
EXTENDS PowerHal

\* The frequencies of the Z2580, and two of its four CPUs.
MCFrequencies == { 800, 933, 1333, 1600, 2000 }

=============================================================================
