--------------------------- MODULE MC_SchemaDump ---------------------------
(* Four objects, three of them within the cap, in batches of two: a full   *)
(* batch, a short one, and an object that is not looked at.                *)
EXTENDS SchemaDump
=============================================================================
