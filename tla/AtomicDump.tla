----------------------------- MODULE AtomicDump -----------------------------
(***************************************************************************)
(* What the schema dump promises to those who read its file, with the      *)
(* walk, the stream and the pending file hidden: there is no schema, or a  *)
(* whole one, replaced in one step by one of classes the game has loaded.  *)
(***************************************************************************)

CONSTANTS Classes, None

VARIABLES loaded,  \* the classes the game has loaded
          schema   \* the classes the file lists; None: there is no file

Init == loaded \in SUBSET Classes /\ schema = None

Load == /\ loaded' \in SUBSET Classes /\ loaded \subseteq loaded'
        /\ UNCHANGED schema

\* A schema without a class is none.
Replace == /\ schema' \in (SUBSET loaded) \ {{}}
           /\ UNCHANGED loaded

Next == Load \/ Replace

Spec == Init /\ [][Next]_<<loaded, schema>>
=============================================================================
