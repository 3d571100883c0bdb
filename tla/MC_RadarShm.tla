---------------------------- MODULE MC_RadarShm ----------------------------
(* A small file: one word before the sequence, two behind it.              *)
EXTENDS RadarShm, TLC

CONSTANTS d1, d2, magic, s1, s2
MCDaemons == {d1, d2}
MCPrefix == {magic}
MCSuffix == {s1, s2}
MCSymmetry == Permutations(MCSuffix) \cup Permutations(MCDaemons)
=============================================================================
