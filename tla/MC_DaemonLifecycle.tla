------------------------- MODULE MC_DaemonLifecycle -------------------------
EXTENDS DaemonLifecycle

CONSTANTS d1, d2, g1, g2, i1, i2
MCDaemons == {d1, d2}
MCGames == {g1, g2}
MCTwoInodes == {i1, i2}
MCAll == {"app", "overlay", "pc"}
=============================================================================
