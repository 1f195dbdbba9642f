--------------------------- MODULE MCMarketFeeds ---------------------------
(***************************************************************************)
(* Instance of LiveExecution, and of the MarketFeeds under it, for TLC.    *)
(***************************************************************************)
EXTENDS LiveExecution

CONSTANTS S1, S2, K1, K2, I1   \* sessions, tokens, an order

=============================================================================
