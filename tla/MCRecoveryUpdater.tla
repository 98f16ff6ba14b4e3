------------------------- MODULE MCRecoveryUpdater -------------------------
(* Five files: one longer than a partition, whose last header leaves the    *)
(* major null; one that ends before the token area; one that names no major *)
(* at all; one for another device; and one without a header.  The device's  *)
(* versions parse, or do not from the first byte on.                        *)
EXTENDS RecoveryUpdater, TLC

CONSTANTS good, short, bare, foreign, junk

MCImages  == {good, short, bare, foreign, junk}
MCHeaders == (good :> <<262, 0>>) @@ (short :> <<262>>) @@ (bare :> <<0>>)
                 @@ (foreign :> <<262, 7>>) @@ (junk :> <<>>)
MCSize    == (good :> 3) @@ (short :> 1) @@ (bare :> 2) @@ (foreign :> 2)
                 @@ (junk :> 2)
MCIfwiBytes    == <<6, 1>>
MCParsedTokens == {0, 28}
=============================================================================
