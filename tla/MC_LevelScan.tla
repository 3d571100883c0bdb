---------------------------- MODULE MC_LevelScan ----------------------------
EXTENDS LevelScan

CONSTANTS a1, a2, c1, c2, w1, w2
MCAddrs == {a1, a2}
MCClasses == {c1, c2}
MCWorlds == {w1, w2}
\* The second class is another one in the second world.
MCKindIn == [w \in MCWorlds |->
               [c \in MCClasses |-> IF c = c1 \/ w = w2 THEN "item" ELSE "vehicle"]]
MCHinted == {c2}
MCIdOf == [c \in MCClasses |-> IF c = c1 THEN "listed" ELSE "other"]
MCMaxList == [k \in {"player", "vehicle", "item"} |-> IF k = "item" THEN 2 ELSE 1]
MCMaxShown == MCMaxList
=============================================================================
