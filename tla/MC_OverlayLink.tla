--------------------------- MODULE MC_OverlayLink ---------------------------
EXTENDS OverlayLink, TLC

CONSTANTS d1, g1, i1, i2
MCDaemons == {d1}
MCGames == {g1}
MCInodes == {i1, i2}
MCControllers == {"overlay", "pc"}
=============================================================================
