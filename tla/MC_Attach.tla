------------------------------ MODULE MC_Attach ------------------------------
(* An address space of 16 whose executable prefers address 4 and has its      *)
(* objects 3 further; up to three images, two of which are looked at.         *)
EXTENDS Attach

MCBases == {2, 4, 9, 14}
\* Nothing, the right offset, the preferred address it stands for, one beside
\* it, and one that wraps.
MCConfigured == {0, 3, 7, 6, 15}
=============================================================================
