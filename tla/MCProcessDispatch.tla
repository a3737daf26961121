--------------------------- MODULE MCProcessDispatch ---------------------------
EXTENDS ProcessDispatch, TLC
CONSTANTS w1, w2, claude, codex

MCAdapter == (w1 :> claude) @@ (w2 :> codex)
=============================================================================
