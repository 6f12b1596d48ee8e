--------------------------- MODULE MCChannelPair ----------------------------
(* Two processes that create the pair, at the same time or one after the other, *)
(* and one that connects to it.                                             *)
EXTENDS ChannelPair, TLC

CONSTANTS p, q, r
MCProcesses == {p, q, r}
=============================================================================
