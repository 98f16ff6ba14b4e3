--------------------------- MODULE MCGraphicBuffers ---------------------------
EXTENDS GraphicBuffers, TLC

CONSTANTS b1, b2, h1, h2, small, large, f1

MCBuffers == { b1, b2 }
MCHandles == { h1, h2 }
MCParams  == { small, large }
MCFences  == { f1 }

\* A module that takes fences, one that does not, and one that takes them but
\* has no YCbCr locks.
MCGrallocs == { {"async", "async_ycbcr", "ycbcr"}, {"ycbcr"}, {"async"} }

Symmetry == Permutations(MCHandles) \cup Permutations(MCBuffers)
              \cup Permutations(MCParams)

=============================================================================
