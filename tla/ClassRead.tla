------------------------------ MODULE ClassRead ------------------------------
(***************************************************************************)
(* How the dump reads one UClass after another out of the game: the path   *)
(* name of the class and of its super class along the chain of outers, its *)
(* properties and its functions along linked lists of fields, each from    *)
(* the first pointer of a few that is one, and every name through          *)
(* ue4r_resolve_name and its direct-mapped cache.                          *)
(*                                                                         *)
(* The game runs on: a field or an object that it frees is reused, so its  *)
(* links and its kind change under the walk.  Names do not change.  A read *)
(* may fail.  A name is an index into the engine's table and a length; the *)
(* type, offset and size of a property and the numbers of a function are   *)
(* left out.                                                               *)
(***************************************************************************)
EXTENDS Integers, FiniteSets, Sequences

CONSTANTS
  Fields,     \* what a walk of a list may come to, field or not
  Objects,    \* what a chain of outers may come to
  None,       \* no pointer that passes rm_validate_ptr
  Memories,   \* what the game's memory may hold at first
  Supers, Starts,  \* what the pointers of the class may hold
  Class,      \* the class that is read
  Indices,    \* indices of the name table
  IndexOf,    \* per field, object and kind: ComparisonIndex of its FName
  NumberOf,   \* per field, object and kind: Number of its FName
  LengthOf,   \* per index: length of the name
  Misleading, \* indices that read as another name where a read fails: in the
              \* layouts tried later, or a wide name whose flags do not read
  Keep,       \* characters of a name that the cache holds (59)
  Piece,      \* characters rm_read_string reads at a time (64)
  CacheSize,  \* slots of the name cache (8192)
  MaxWalk,    \* MAX_LIST_WALK (1000)
  MaxDepth,   \* MAX_PATH_DEPTH (10)
  MaxChanges, MaxFails  \* bounds on changes of the game and failed reads

\* The classes of the UFields of UE 4.18, as their names tell them.
UFields == {"Property", "Function", "Field"}
\* What a pointer leads to: a UField; an FField of UE 4.25, which holds its owner
\* where a UField holds its class; or memory without a pointer there.
Kinds == UFields \cup {"FField", "Other"}
Named == Fields \cup Objects \cup UFields
Slots == 0..(CacheSize - 1)

\* The pointers of a class, by their names in ue4_offsets.h.
SuperPointers == {"SUPER", "SUPER_425"}
StartPointers == {"CHILDREN", "CHILD_PROPS", "CHILDREN_425"}

Memory == [next : [Fields -> Fields \cup {None}], kind : [Fields -> Kinds],
           outer : [Objects -> Objects \cup {None}],
           super : [SuperPointers -> Objects \cup {None}],
           start : [StartPointers -> Fields \cup {None}]]

ASSUME ClassSetsAssumption == IsFiniteSet(Fields) /\ IsFiniteSet(Objects)
ASSUME ClassAssumption == Class \in Objects
ASSUME MemoriesAssumption ==
  /\ Memories \subseteq Memory
  /\ Supers \subseteq [SuperPointers -> Objects \cup {None}]
  /\ Starts \subseteq [StartPointers -> Fields \cup {None}]
ASSUME ClassNoneAssumption == None \notin Fields \cup Objects \cup Indices
ASSUME NamesAssumption ==
  /\ Indices \subseteq Nat /\ Misleading \subseteq Indices
  /\ IndexOf \in [Named -> Indices] /\ NumberOf \in [Named -> Nat]
  /\ LengthOf \in [Indices -> Nat \ {0}]
\* The name of a field's class tells a property from a function and from the rest.
ASSUME KindsAssumption == \A j, k \in UFields : IndexOf[j] = IndexOf[k] => j = k
ASSUME PieceAssumption == Keep \in Nat \ {0} /\ Piece \in Nat /\ Keep <= Piece
ASSUME SizesAssumption == /\ {CacheSize, MaxWalk} \subseteq Nat \ {0}
                          /\ {MaxDepth, MaxChanges, MaxFails} \subseteq Nat

VARIABLES
  memory,   \* links and kinds of the game's fields and objects, the class's pointers
  changes,  \* changes the game made
  names,    \* name_cache, the reads that failed, the indices misread
  steady,   \* no change and no failed read since this class was begun
  pc,       \* what is built or walked, what is looked for next, or "done"
  ptr,      \* the object or field the walk has come to
  count,    \* depth of the path, or count of the walk
  path,     \* per "path" and "super": the path name, innermost name first
  list      \* per "properties" and "functions": the list built

readVars == <<names, pc, ptr, count, path, list>>
vars == <<memory, changes, names, steady, pc, ptr, count, path, list>>

\* A name as it comes out: whose it is (None: garbage), how much of it, and
\* the number appended.
Text == [of : Indices \cup {None}, len : Nat, suffix : Seq(Nat)]
Unknown == [of |-> None, len |-> 0, suffix |-> <<>>]
Ellipsis == [of |-> None, len |-> 3, suffix |-> <<>>]

AtMost(a, b) == IF a < b THEN a ELSE b

EmptyPaths == [w \in {"path", "super"} |-> <<>>]
EmptyLists == [w \in {"properties", "functions"} |-> <<>>]

Init ==
  /\ memory \in Memories /\ changes = 0
  /\ names = [cache |-> [s \in Slots |-> None], fails |-> 0, misread |-> {}]
  /\ steady = TRUE
  /\ pc = "path" /\ ptr = Class /\ count = 0
  /\ path = EmptyPaths /\ list = EmptyLists

-----------------------------------------------------------------------------
(* The game.                                                               *)

\* A field is freed and its memory used for another one.
FieldReused(f) ==
  /\ changes < MaxChanges
  /\ \E k \in Kinds, n \in Fields \cup {None} :
       memory' = [memory EXCEPT !.kind[f] = k, !.next[f] = n]
  /\ changes' = changes + 1
  /\ steady' = FALSE
  /\ UNCHANGED readVars

ObjectReused(o) ==
  /\ changes < MaxChanges
  /\ \E n \in Objects \cup {None}, u \in Supers, t \in Starts :
       memory' = IF o = Class
                 THEN [memory EXCEPT !.outer[o] = n, !.super = u, !.start = t]
                 ELSE [memory EXCEPT !.outer[o] = n]
  /\ changes' = changes + 1
  /\ steady' = FALSE
  /\ UNCHANGED readVars

-----------------------------------------------------------------------------
(* ue4r_resolve_name: what may come out for the FName of n, and what        *)
(* becomes of names.                                                       *)

\* snprintf("_%d", number - 1).
Suffix(n) == IF NumberOf[n] > 0 THEN <<NumberOf[n] - 1>> ELSE <<>>

\* A read may fail.
ReadFails(s) == s.fails < MaxFails

Failed(s) == [s EXCEPT !.fails = @ + 1]

\* Fault for mutation: the name is cached with the number of this object.
CachedNumbered(s, n, of, len) ==
  [s EXCEPT !.cache[IndexOf[n] % CacheSize] =
     [key |-> IndexOf[n], of |-> of, len |-> AtMost(len, Keep), suffix |-> Suffix(n)]]

\* The name is cached without the number, as much of it as fits.
Cached(s, n, of, len) ==
  [s EXCEPT !.cache[IndexOf[n] % CacheSize] =
     [key |-> IndexOf[n], of |-> of, len |-> AtMost(len, Keep), suffix |-> <<>>]]

\* The FName does not read.
Unread(s, n) == {[text |-> Unknown, names |-> Failed(s)]}

\* Fault for mutation: whatever name the slot holds is taken.
HitAny(s, n) == s.cache[IndexOf[n] % CacheSize] # None

Hit(s, n) == LET e == s.cache[IndexOf[n] % CacheSize]
             IN e # None /\ e.key = IndexOf[n]

\* The cached name with this object's own number; without it if that does not
\* read.
FromCache(s, n) ==
  LET e == s.cache[IndexOf[n] % CacheSize]
      T(x) == [of |-> e.of, len |-> e.len, suffix |-> e.suffix \o x]
  IN {[text |-> T(Suffix(n)), names |-> s]}
     \cup IF ReadFails(s) THEN {[text |-> T(<<>>), names |-> Failed(s)]} ELSE {}

\* The name table: the whole name, without the number if that does not read; the
\* pieces before one that does not read; or, if the table does not read, what the
\* other layouts make of the index.
FromTable(s, n) ==
  LET i == IndexOf[n]
      T(of, len) == [of |-> of, len |-> len, suffix |-> Suffix(n)]
      F == Failed(s)
  IN {[text |-> T(i, LengthOf[i]), names |-> Cached(s, n, i, LengthOf[i])]}
     \cup IF ~ReadFails(s) THEN {}
          ELSE {[text |-> [of |-> i, len |-> LengthOf[i], suffix |-> <<>>],
                 names |-> Cached(F, n, i, LengthOf[i])]}
               \cup {[text |-> T(i, p * Piece), names |-> Cached(F, n, i, p * Piece)] :
                  p \in {q \in 1..LengthOf[i] : q * Piece < LengthOf[i]}}
               \cup {[text |-> T(None, LengthOf[i]),
                      names |-> Cached([F EXCEPT !.misread = @ \cup {i}], n, None, LengthOf[i])] :
                       j \in Misleading \cap {i}}

ue4r_resolve_name(s, n) ==
  (IF Hit(s, n) THEN FromCache(s, n) ELSE FromTable(s, n))
  \cup IF ReadFails(s) THEN Unread(s, n) ELSE {}

\* A slot of the cache may be lost to an index that is none of the table's.
Evicting(s) == {s} \cup {[s EXCEPT !.cache[i] = None] : i \in Slots}

\* What comes out for the bits of memory that holds no FName: any name of the table,
\* or none that is known.
Garbage(s) ==
  (UNION {ue4r_resolve_name(s, n) : n \in Named})
  \cup {[text |-> Unknown, names |-> t] : t \in Evicting(s)}

\* A pointer that does not read counts as none.
Follow(s, p) ==
  {[to |-> p, names |-> s]}
  \cup IF ReadFails(s) THEN {[to |-> None, names |-> Failed(s)]} ELSE {}

Reads(s) == names' = s /\ steady' = (steady /\ s.fails = names.fails)

-----------------------------------------------------------------------------
(* build_path_name.                                                        *)

After == CASE pc = "path" -> "to super"
           [] pc \in {"to super", "super"} -> "to properties"
           [] pc = "properties" -> "to functions"
           [] pc = "functions" -> "done"

\* Fault for mutation: the functions are counted on from the properties.
GoOnCounted ==
  pc' = After /\ ptr' = None /\ count' = IF pc = "properties" THEN count ELSE 0

\* Where a path or a list is followed by what comes next.
GoOn == pc' = After /\ ptr' = None /\ count' = 0

Building == pc \in {"path", "super"}

\* Fault for mutation: the depth is not passed on.
DeeperNot == count

Deeper == count + 1

OuterName ==
  /\ Building /\ count <= MaxDepth
  /\ \E r \in ue4r_resolve_name(names, ptr) : \E o \in Follow(r.names, memory.outer[ptr]) :
       /\ path' = [path EXCEPT ![pc] = Append(@, r.text)]
       /\ Reads(o.names)
       /\ IF o.to = None THEN GoOn ELSE ptr' = o.to /\ count' = Deeper /\ UNCHANGED pc
  /\ UNCHANGED <<memory, changes, list>>

TooDeep ==
  /\ Building /\ count > MaxDepth
  /\ path' = [path EXCEPT ![pc] = Append(@, Ellipsis)]
  /\ GoOn
  /\ UNCHANGED <<memory, changes, names, steady, list>>

-----------------------------------------------------------------------------
(* The pointers of the class.                                              *)

\* What is read at an offset, of m, when the reads at X fail.
Held(m, o, X) == IF o \in X THEN None ELSE m[o]

Or(p, q) == IF p = None THEN q ELSE p

SuperOf(X) == Or(Held(memory.super, "SUPER", X), Held(memory.super, "SUPER_425", X))

\* Both lists begin at UStruct::Children, if it is a pointer; only the properties
\* may begin at UStruct::ChildProperties.
Start(w, X) ==
  Or(Held(memory.start, "CHILDREN", X),
     Or(IF w = "properties" THEN Held(memory.start, "CHILD_PROPS", X) ELSE None,
        Held(memory.start, "CHILDREN_425", X)))

ReadsBut(X) ==
  /\ names.fails + Cardinality(X) <= MaxFails
  /\ Reads([names EXCEPT !.fails = @ + Cardinality(X)])

FindsSuper ==
  /\ pc = "to super"
  /\ \E X \in SUBSET SuperPointers :
       /\ ReadsBut(X)
       /\ IF SuperOf(X) = None THEN GoOn
          ELSE pc' = "super" /\ ptr' = SuperOf(X) /\ UNCHANGED count
  /\ UNCHANGED <<memory, changes, path, list>>

FindsList(w, to) ==
  /\ pc = to /\ pc' = w
  /\ \E X \in SUBSET StartPointers : ReadsBut(X) /\ ptr' = Start(w, X)
  /\ UNCHANGED <<memory, changes, count, path, list>>

Finds == \/ FindsSuper
         \/ FindsList("properties", "to properties") \/ FindsList("functions", "to functions")

-----------------------------------------------------------------------------
(* read_properties and read_functions.                                     *)

Walking(w) == pc = w /\ ptr # None /\ count < MaxWalk

Says(t, k) == t.of = IndexOf[k]

UField(f) == memory.kind[f] \in UFields

\* The name of what a field's ClassPrivate leads to: the owner's, of an FField.
ClassName(s) ==
  CASE UField(ptr) -> ue4r_resolve_name(s, memory.kind[ptr])
    [] memory.kind[ptr] = "FField" -> ue4r_resolve_name(s, Class)
    [] memory.kind[ptr] = "Other" -> {[text |-> Unknown, names |-> s]}

\* The name of a UField, or what comes out at its place.
OwnName(s) == IF UField(ptr) THEN ue4r_resolve_name(s, ptr) ELSE Garbage(s)

\* Of a UField read as what it is the entry keeps the name.  Of anything else any
\* name may come out, and the entry leaves it out.
NamedEntry(n) == [at |-> ptr, ufield |-> TRUE, name |-> n]
OtherEntry == [at |-> ptr, ufield |-> FALSE]
Entry(n) == IF UField(ptr) THEN NamedEntry(n) ELSE OtherEntry

\* UField::Next, or what comes out at its place.
Step(s) ==
  \E n \in IF UField(ptr) THEN {memory.next[ptr]} ELSE Fields \cup {None} :
    \E o \in Follow(s, n) : Reads(o.names) /\ ptr' = o.to

\* A UProperty, by the name of its class.
Property ==
  /\ Walking("properties") /\ memory.kind[ptr] # "Other"
  /\ \E t \in ClassName(names) :
       /\ Says(t.text, "Property")
       /\ \E n \in OwnName(t.names) :
            /\ list' = [list EXCEPT !["properties"] = Append(@, Entry(n.text))]
            /\ Step(n.names)
  /\ count' = count + 1
  /\ UNCHANGED <<memory, changes, pc, path>>

\* Another UField, one whose class has no name that reads, or an FField by its
\* owner's name: passed over.
NoProperty ==
  /\ Walking("properties") /\ memory.kind[ptr] # "Other"
  /\ \E t \in ClassName(names) : ~Says(t.text, "Property") /\ Step(t.names)
  /\ UNCHANGED <<memory, changes, pc, count, path, list>>

\* Without a pointer to a class, there or read, it is read as an FProperty.  Of a
\* UField the name is then that of the bits of UField::Next, "None" at the end of a
\* list, and what is followed is no link of the list; of an FField both are its own.
FProperty ==
  /\ Walking("properties")
  /\ \E s \in IF memory.kind[ptr] = "Other" THEN {names}
               ELSE IF ReadFails(names) THEN {Failed(names)} ELSE {} :
       \E n \in Garbage(s) : \E t \in Garbage(n.names) :
         /\ list' = [list EXCEPT !["properties"] = Append(@, OtherEntry)]
         /\ Reads(t.names)
  /\ ptr' \in Fields \cup {None}
  /\ count' = count + 1
  /\ UNCHANGED <<memory, changes, pc, path>>

\* Fault for mutation: only functions count.
CountedIfFunction(f) == IF f THEN count + 1 ELSE count

\* Every child of the class counts.
Counted(f) == count + 1

Function ==
  /\ Walking("functions")
  /\ \E t \in ClassName(names) :
       /\ Says(t.text, "Function")
       /\ \E n \in OwnName(t.names) :
            /\ list' = [list EXCEPT !["functions"] = Append(@, Entry(n.text))]
            /\ Step(n.names)
  /\ count' = Counted(TRUE)
  /\ UNCHANGED <<memory, changes, pc, path>>

NoFunction ==
  /\ Walking("functions")
  /\ \E t \in ClassName(names) : ~Says(t.text, "Function") /\ Step(t.names)
  /\ count' = Counted(FALSE)
  /\ UNCHANGED <<memory, changes, pc, path, list>>

\* The list is over, or the cap reached.
WalkEnds ==
  /\ \E w \in {"properties", "functions"} : pc = w /\ ~Walking(w)
  /\ GoOn
  /\ UNCHANGED <<memory, changes, names, steady, path, list>>

\* The walk over the object array comes to the next class.
NextClass ==
  /\ pc = "done"
  /\ pc' = "path" /\ ptr' = Class /\ count' = 0
  /\ path' = EmptyPaths /\ list' = EmptyLists /\ steady' = TRUE
  /\ UNCHANGED <<memory, changes, names>>

Read == OuterName \/ TooDeep \/ Finds \/ Property \/ NoProperty \/ FProperty
        \/ Function \/ NoFunction \/ WalkEnds

Game == \/ \E f \in Fields : FieldReused(f)
        \/ \E o \in Objects : ObjectReused(o)

Next == Game \/ Read \/ NextClass

Spec == Init /\ [][Next]_vars

\* The daemon goes on reading; the game owes nothing.
FairSpec == Spec /\ WF_vars(Read)

-----------------------------------------------------------------------------
(* Properties.                                                             *)

NameEntry == [key : Indices, of : Indices \cup {None}, len : 0..Keep, suffix : Seq(Nat)]

\* Every variable keeps its type; path and lists keep to their caps.
ClassTypeOK ==
  /\ memory \in Memory /\ changes \in 0..MaxChanges
  /\ names.cache \in [Slots -> NameEntry \cup {None}]
  /\ names.fails \in 0..MaxFails /\ names.misread \subseteq Misleading
  /\ steady \in BOOLEAN
  /\ pc \in {"path", "to super", "super", "to properties", "properties",
             "to functions", "functions", "done"}
  /\ ptr \in IF Building THEN Objects ELSE Fields \cup {None}
  /\ count \in Nat
  /\ \A w \in DOMAIN path : Len(path[w]) <= MaxDepth + 2
  /\ \A w \in DOMAIN list : Len(list[w]) <= MaxWalk

\* A cached name is the beginning of the name of its index, all of it that the
\* cache holds, without any object's number: also when only the first piece of
\* the name could be read.  Only an index that was once misread, in another layout
\* or as narrow, keeps a wrong name.
CacheRight ==
  \A s \in Slots : LET e == names.cache[s] IN
    e # None =>
      /\ e.key % CacheSize = s /\ e.suffix = <<>>
      /\ \/ e.of = e.key /\ e.len = AtMost(LengthOf[e.key], Keep)
         \/ e.of = None /\ e.key \in names.misread

\* Whatever was cached before, the name of a UProperty or a UFunction in a record is
\* its own: of its index, as long as the cache keeps names at least, and with its own
\* number.  After a failed read it may be unknown, or miss its number.
Right(t, n) ==
  \/ ~steady /\ t = Unknown
  \/ IndexOf[n] \in names.misread
  \/ /\ t.of = IndexOf[n]
     /\ t.len >= AtMost(LengthOf[IndexOf[n]], Keep) /\ t.len <= LengthOf[IndexOf[n]]
     /\ t.suffix = Suffix(n) \/ (~steady /\ t.suffix = <<>>)

\* But for what was read as an FProperty or out of an FField: while the memory of a
\* class is left alone and every read succeeds, that is nothing on a list of UFields.
NamesRight ==
  \A w \in DOMAIN list : \A i \in 1..Len(list[w]) :
    list[w][i].ufield => Right(list[w][i].name, list[w][i].at)

\* The reference: the whole chain from p among S, if it ends.
Chains(to, p, S) ==
  {c \in UNION {[1..n -> S] : n \in 1..Cardinality(S)} :
     /\ c[1] = p /\ to[c[Len(c)]] = None
     /\ \A i \in 1..(Len(c) - 1) : c[i + 1] = to[c[i]]}

\* How many of the first i of a chain are in S; and that s lists just these, in
\* their order.
Rank(c, i, S) == Cardinality({k \in 1..i : c[k] \in S})

ListsFirst(s, c, i, S) ==
  /\ Len(s) = Rank(c, i, S)
  /\ \A k \in 1..i : c[k] \in S => s[Rank(c, k, S)].at = c[k]

\* The lists of UE 4.18: the whole one from where a walk starts, of UFields alone.
UFieldLists(w) ==
  {c \in Chains(memory.next, Start(w, {}), Fields) : \A i \in 1..Len(c) : UField(c[i])}

PropertyFields == {f \in Fields : memory.kind[f] = "Property"}
FunctionFields == {f \in Fields : memory.kind[f] = "Function"}

\* The properties of the class in order, all of them or as many as the cap allows.
PropertiesWhole ==
  \A c \in UFieldLists("properties") : \E n \in 0..Len(c) :
    /\ ListsFirst(list["properties"], c, n, PropertyFields)
    /\ n < Len(c) => Len(list["properties"]) = MaxWalk

\* The functions among its children, or among as many of them as the cap allows.
FunctionsWhole ==
  \A c \in UFieldLists("functions") :
    ListsFirst(list["functions"], c, AtMost(MaxWalk, Len(c)), FunctionFields)

Top(w) == IF w = "path" THEN Class ELSE memory.super["SUPER"]

\* As deep a path as the cap allows, with an ellipsis in front of a deeper one.
PathWhole(w) ==
  \A o \in Chains(memory.outer, Top(w), Objects) :
    /\ Len(path[w]) = AtMost(Len(o), MaxDepth + 2)
    /\ \A i \in 1..Len(path[w]) :
         IF i = MaxDepth + 2 THEN path[w][i] = Ellipsis ELSE Right(path[w][i], o[i])

\* The names by which properties and functions are known were never misread.
KindsRead == {IndexOf["Property"], IndexOf["Function"]} \cap names.misread = {}

\* While the game leaves the memory of a class alone, its chains end and every
\* read succeeds, its record holds its path and its super class's, its properties
\* and its functions in order, if its lists are of UFields: unless the very names
\* that tell a property or a function were once cached wrong.
RecordWhole ==
  pc = "done" /\ steady /\ KindsRead =>
    PathWhole("path") /\ PathWhole("super") /\ PropertiesWhole /\ FunctionsWhole

\* The walk of the properties does not count what it takes for no property: all
\* UFields, once that name was misread.
Uncounted(f) ==
  \/ memory.kind[f] \in {"Function", "Field", "FField"}
  \/ memory.kind[f] = "Property" /\ IndexOf["Property"] \in names.misread

\* It goes round among these, from where it is back to there.
Circling ==
  /\ pc = "properties" /\ ptr # None
  /\ LET Beyond(S) == UNION {IF UField(f) THEN {memory.next[f]} ELSE Fields :
                             f \in {g \in S \cap Fields : Uncounted(g)}}
         R[k \in 0..Cardinality(Fields)] ==
           IF k = 0 THEN Beyond({ptr}) ELSE R[k - 1] \cup Beyond(R[k - 1])
     IN ptr \in R[Cardinality(Fields)]

\* The record of a class is finished whatever the game makes of its links
\* under the walk, circles included, but for the circles that no cap breaks.
Ends == []<>(pc = "done" \/ Circling)
=============================================================================
