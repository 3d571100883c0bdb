---------------------------- MODULE MC_ClassRead ----------------------------
EXTENDS ClassRead

CONSTANTS f1, f2, f3, o1, o2
MCFields == {f1, f2, f3}
MCObjects == {o1, o2}
\* The super class, or what the sizes of a class without one lead to.
MCSuper(p, o) == [q \in SuperPointers |-> IF q = p THEN o ELSE None]
MCSupers == {MCSuper("SUPER", o2)}
\* The layouts of UE 4.18 and of UE 4.25, where the two lists are apart.
MCStart418 == [p \in StartPointers |-> IF p = "CHILDREN" THEN f1 ELSE IF p = "CHILD_PROPS" THEN f2 ELSE None]
MCStart425 == [p \in StartPointers |-> IF p = "CHILDREN" THEN None ELSE IF p = "CHILD_PROPS" THEN f1 ELSE f2]
MCStarts == {MCStart418, MCStart425}
\* A list of three fields, of UFields or with an FField, and a class two outers deep.
MCMemory(k, l, u, t) ==
  [next |-> [f \in MCFields |-> IF f = f1 THEN f2 ELSE IF f = f2 THEN f3 ELSE None],
   kind |-> [f \in MCFields |-> IF f = f1 THEN "Property" ELSE IF f = f2 THEN k ELSE l],
   outer |-> [o \in MCObjects |-> IF o = o1 THEN o2 ELSE None],
   super |-> u, start |-> t]
MCMemories ==
  {MCMemory("Function", "Property", MCSuper("SUPER", o2), MCStart418),
   MCMemory("Property", "Function", MCSuper("SUPER_425", o2), MCStart425),
   MCMemory("FField", "Property", MCSuper("SUPER", o2), MCStart425)}
MCIndices == 0..3
MCNamed == MCFields \cup MCObjects \cup {"Property", "Function", "Field"}
MCIndexOf == [n \in MCNamed |-> CASE n = "Property" -> 0 [] n = "Function" -> 1
                                  [] n \in {f1, f3, o1} -> 2 [] OTHER -> 3]
MCNumberOf == [n \in MCNamed |-> IF n = f3 THEN 2 ELSE 0]
MCLengthOf == [i \in MCIndices |-> IF i = 2 THEN 3 ELSE 1]
MCMisleading == {0, 3}
=============================================================================
