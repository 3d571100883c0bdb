--------------------------- MODULE MC_ReaderCache ---------------------------
EXTENDS ReaderCache

CONSTANTS a1, a2, c1, w1, w2
MCActors == {a1, a2}
MCClasses == {c1}
MCWorlds == {w1, w2}
MCTeams == {1, 2}
MCOneTeam == {1}
MCNoBots == {FALSE}
=============================================================================
