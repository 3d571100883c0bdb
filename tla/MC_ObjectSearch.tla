-------------------------- MODULE MC_ObjectSearch --------------------------
(* Three classes, of which the LocalPlayer's and another share a bucket;    *)
(* the class of class objects, judged in every pass, has one of its own.   *)
EXTENDS ObjectSearch

CONSTANTS player, other, meta, b1, b2
MCClasses == {player, other, meta}
MCPlayerClasses == {player}
MCBuckets == {b1, b2}
MCBucketOf == [c \in MCClasses |-> IF c = meta THEN b2 ELSE b1]
=============================================================================
