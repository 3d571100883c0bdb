------------------------------ MODULE LevelScan ------------------------------
(***************************************************************************)
(* The slow half of radar_tick: scan_persistent_level reads the actor      *)
(* array of the level chunk by chunk, classifies what it finds through a   *)
(* cache of classes, and replaces the lists of characters, vehicles and    *)
(* items; every tick then publishes vehicles and items from those lists,   *)
(* the items under a name kept in a cache that is keyed by address.        *)
(*                                                                         *)
(* The game runs between any two reads: it spawns, destroys and moves      *)
(* actors, reuses their addresses, and travels.  What a destroyed actor    *)
(* leaves behind may go on reading or not.  What a frame shows of          *)
(* characters is ReaderCache's part.  Lists are sets: which of the actors  *)
(* beyond a cap are left out is not told apart, nor is a pointer that a    *)
(* scan met twice because its address was reused meanwhile.                *)
(***************************************************************************)
EXTENDS Naturals, FiniteSets, Functions

CONSTANTS
  Addrs,     \* addresses at which actors may be allocated
  Classes,   \* addresses of their UClasses
  Worlds,    \* worlds the game travels between
  None,      \* no world, no actor, no entry
  KindIn,    \* per world and class: what its names say it is
  Hinted,    \* classes of items whose names say what they are
  IdOf,      \* per class of items: whether they have an id, and a listed one
  Slots,     \* length the actor array may grow to
  Chunk,     \* slots read by one call (512)
  Least,     \* a shorter array is not taken for the level's actors (5)
  Longest,   \* nor is a longer one (8192)
  MaxList,   \* per kind: entries of its list (512, 64, 256)
  MaxShown,  \* per kind: entries of the frame (100, 30, 60)
  MaxClasses, MaxMeta, \* entries of g_classes (4096) and g_item_meta (256)
  MaxSpawns, \* bound on the actors a behaviour creates
  MaxFails   \* bound on the reads that fail on a level that is there

Listed == {"player", "vehicle", "item"}
Kinds == Listed \cup {"ignore"}
Names == {"", "Supply", "Loot Crate", "item", "hint"}

Actor == [cls : Classes, at : {"near", "far", "nowhere"}]

ASSUME LevelSetsAssumption == IsFiniteSet(Addrs) /\ IsFiniteSet(Classes)
ASSUME LevelNoneAssumption == None \notin Worlds \cup Addrs \cup Kinds \cup Actor
ASSUME KindInAssumption == KindIn \in [Worlds -> [Classes -> Kinds]]
ASSUME ItemsAssumption == IdOf \in [Classes -> {"none", "listed", "other"}] /\ Hinted \subseteq Classes
ASSUME LevelCapsAssumption ==
  /\ {Slots, Chunk, Least, Longest, MaxClasses, MaxMeta} \subseteq Nat \ {0}
  /\ {MaxSpawns, MaxFails} \subseteq Nat
  /\ MaxList \in [Listed -> Nat] /\ MaxShown \in [Listed -> Nat]

VARIABLES
  view,    \* the world the LocalPlayer leads to, or None
  actor,   \* per address: what reads there
  slot,    \* the actor array of the level
  len,     \* its length
  uses,    \* per address: actors created there
  dpc,     \* radar_tick: "find", "scan", "chunk" or "show"
  world,   \* world
  start, count, \* the scan's place in the array and the length it read
  batch,   \* pointers of the chunk that are still to be looked at
  found,   \* new_chars, new_vehs, new_items
  list,    \* characters, vehicles, items: the entries that are not null
  origin,  \* the world whose level the lists were read from
  class,   \* per class: its entry of g_classes
  unread,  \* classes cached without a name that read
  meta,    \* per address: its entry of g_item_meta
  mixed,   \* a world was found by search while the caches held entries
  misread, \* items that were named, last, from reads of which some failed
  fails,   \* reads that failed
  out      \* the vehicles and items of the frame

gameVars == <<view, actor, slot, len, uses>>
scanVars == <<start, count, batch, found>>
cacheVars == <<list, origin, class, unread, meta, mixed>>
vars == <<gameVars, dpc, world, scanVars, cacheVars, misread, fails, out>>

NoActors == [a \in Addrs |-> None]
EmptyArray == [i \in 1..Slots |-> None]
NoLists == [k \in Listed |-> {}]
NoClasses == [c \in Classes |-> None]
NoMeta == [a \in Addrs |-> None]
NoFrame == [status |-> "starting", vehicles |-> {}, items |-> {}]

InLevel == {slot[i] : i \in 1..Slots} \ {None}
CachedClasses == {c \in Classes : class[c] # None}
CachedItems == {a \in Addrs : meta[a] # None}

Init ==
  /\ view = None /\ actor = NoActors /\ slot = EmptyArray /\ len = 0 /\ uses = [a \in Addrs |-> 0]
  /\ dpc = "find" /\ world = None
  /\ start = 0 /\ count = 0 /\ batch = {} /\ found = NoLists
  /\ list = NoLists /\ origin = None /\ class = NoClasses /\ unread = {}
  /\ meta = NoMeta /\ mixed = FALSE
  /\ misread = {} /\ fails = 0 /\ out = NoFrame

-----------------------------------------------------------------------------
(* The game.                                                               *)

readerVars == <<dpc, world, scanVars, cacheVars, misread, fails, out>>

\* Loading a world takes longer than one radar_tick.
Arrive(w) ==
  /\ view = None /\ dpc = "find"
  /\ view' = w
  /\ UNCHANGED <<actor, slot, len, uses, readerVars>>

\* Travelling: nothing of the world that is left reads any more.
Leave ==
  /\ view # None
  /\ view' = None /\ slot' = EmptyArray /\ len' = 0 /\ actor' = NoActors
  /\ UNCHANGED <<uses, readerVars>>

Spawned == FoldFunction(+, 0, uses)

\* An actor appears, not placed yet, in a slot that was freed or at the end of the array.
Spawn(a, i) ==
  /\ view # None
  /\ Spawned < MaxSpawns
  /\ a \notin InLevel
  /\ slot[i] = None /\ i <= len + 1
  /\ slot' = [slot EXCEPT ![i] = a]
  /\ len' = IF i > len THEN i ELSE len
  /\ \E c \in Classes : actor' = [actor EXCEPT ![a] = [cls |-> c, at |-> "nowhere"]]
  /\ uses' = [uses EXCEPT ![a] = @ + 1]
  /\ UNCHANGED <<view, readerVars>>

\* It moves, or its root component comes or goes.
Moves(a) ==
  /\ a \in InLevel
  /\ \E p \in {"near", "far", "nowhere"} : actor' = [actor EXCEPT ![a].at = p]
  /\ UNCHANGED <<view, slot, len, uses, readerVars>>

Destroy(i) ==
  /\ slot[i] # None
  /\ slot' = [slot EXCEPT ![i] = None]
  /\ actor' \in {[actor EXCEPT ![slot[i]] = None], actor}
  /\ UNCHANGED <<view, len, uses, readerVars>>

Game == \/ \E w \in Worlds : Arrive(w)
        \/ Leave
        \/ \E a \in Addrs, i \in 1..Slots : Spawn(a, i)
        \/ \E a \in Addrs : Moves(a)
        \/ \E i \in 1..Slots : Destroy(i)

-----------------------------------------------------------------------------
(* find_world, in so far as it concerns the caches.                        *)

\* Fault for mutation: g_class_count is left as it is.
ClearAllButClasses ==
  /\ list' = NoLists /\ origin' = None
  /\ meta' = NoMeta /\ mixed' = FALSE
  /\ UNCHANGED <<class, unread>>

\* Fault for mutation: g_item_meta_count is left as it is.
ClearAllButItems ==
  /\ list' = NoLists /\ origin' = None /\ class' = NoClasses /\ unread' = {}
  /\ mixed' = FALSE
  /\ UNCHANGED meta

ClearCaches ==
  /\ list' = NoLists /\ origin' = None /\ class' = NoClasses /\ unread' = {}
  /\ meta' = NoMeta /\ mixed' = FALSE

FindsWorld ==
  /\ dpc = "find" /\ world # None /\ view # None
  /\ IF world # view THEN ClearCaches ELSE UNCHANGED cacheVars
  /\ world' = view
  /\ dpc' = "scan"
  /\ UNCHANGED <<gameVars, scanVars, misread, fails, out>>

LosesWorld ==
  /\ dpc = "find" /\ view = None
  /\ world' = None
  /\ out' = NoFrame
  /\ UNCHANGED <<gameVars, dpc, scanVars, cacheVars, misread, fails>>

\* The search among the engine's objects ends: the caches are kept.
SearchFinds ==
  /\ dpc = "find" /\ world = None /\ view # None
  /\ world' = view
  /\ mixed' = (mixed \/ list # NoLists \/ CachedClasses # {} \/ CachedItems # {})
  /\ dpc' = "scan"
  /\ UNCHANGED <<gameVars, scanVars, list, origin, class, unread, meta, misread, fails, out>>

-----------------------------------------------------------------------------
(* scan_persistent_level.                                                  *)

\* now < next_scan_time.
NoScan ==
  /\ dpc = "scan"
  /\ dpc' = "show"
  /\ UNCHANGED <<gameVars, world, scanVars, cacheVars, misread, fails, out>>

\* array() finds the actors of a world that is still there.
LevelReads == world = view /\ len \in Least..Longest

ScanStarts ==
  /\ dpc = "scan" /\ LevelReads
  /\ start' = 0 /\ count' = len /\ batch' = {} /\ found' = NoLists
  /\ dpc' = "chunk"
  /\ UNCHANGED <<gameVars, world, cacheVars, misread, fails, out>>

\* No array passes: the lists stay as they are.
ScanRefused ==
  /\ dpc = "scan" /\ ~LevelReads
  /\ dpc' = "show"
  /\ UNCHANGED <<gameVars, world, scanVars, cacheVars, misread, fails, out>>

ReadsChunk ==
  /\ dpc = "chunk" /\ batch = {} /\ start < count
  /\ world = view
  /\ batch' = {slot[i] : i \in {j \in 1..Slots : start < j /\ j <= start + Chunk /\ j <= count}}
                \ {None}
  /\ start' = start + Chunk
  /\ UNCHANGED <<gameVars, dpc, world, count, found, cacheVars, misread, fails, out>>

\* The scan goes on after a chunk that does not read.
ChunkFails ==
  /\ dpc = "chunk" /\ batch = {} /\ start < count
  /\ \/ world # view /\ UNCHANGED fails
     \/ fails < MaxFails /\ fails' = fails + 1
  /\ start' = start + Chunk
  /\ UNCHANGED <<gameVars, dpc, world, count, batch, found, cacheVars, misread, out>>

\* Fault for mutation: the test for a full list is left out.
ListedAsAny(a, k) ==
  [n \in Listed |-> IF n = k THEN found[n] \cup {a} ELSE found[n]]

\* The actor joins the new list of its kind if there is room.
ListedAs(a, k) ==
  [n \in Listed |-> IF n = k /\ Cardinality(found[n]) < MaxList[n]
                      THEN found[n] \cup {a} ELSE found[n]]

\* classify_class: the cached kind, or the one the class's names say; the
\* class is cached if there is room.
Classifies(a) ==
  LET c == actor[a].cls
      Resolve(k, bad) ==
        /\ found' = ListedAs(a, k)
        /\ IF Cardinality(CachedClasses) < MaxClasses
             THEN /\ class' = [class EXCEPT ![c] = k]
                  /\ unread' = IF bad THEN unread \cup {c} ELSE unread
             ELSE UNCHANGED <<class, unread>>
  IN /\ dpc = "chunk" /\ a \in batch
     /\ actor[a] # None
     /\ \/ /\ class[c] # None
           /\ found' = ListedAs(a, class[c])
           /\ UNCHANGED <<class, unread, fails>>
        \/ /\ class[c] = None
           /\ Resolve(KindIn[world][c], FALSE)
           /\ UNCHANGED fails
        \/ /\ class[c] = None /\ fails < MaxFails
           /\ Resolve("ignore", TRUE)
           /\ fails' = fails + 1
     /\ batch' = batch \ {a}
     /\ UNCHANGED <<gameVars, dpc, world, start, count, list, origin, meta, misread, mixed, out>>

\* The class pointer of an actor that went meanwhile does not read.
Skips(a) ==
  /\ dpc = "chunk" /\ a \in batch
  /\ actor[a] = None
  /\ batch' = batch \ {a}
  /\ UNCHANGED <<gameVars, dpc, world, start, count, found, cacheVars, misread, fails, out>>

\* Fault for mutation: what the scan found is added to the lists.
AddLists == [k \in Listed |-> list[k] \cup found[k]]

NewLists == found

\* The three lists are replaced, after every chunk.
ScanEnds ==
  /\ dpc = "chunk" /\ batch = {} /\ start >= count
  /\ list' = NewLists /\ origin' = world
  /\ start' = 0 /\ count' = 0 /\ found' = NoLists
  /\ dpc' = "show"
  /\ UNCHANGED <<gameVars, world, batch, class, unread, meta, misread, mixed, fails, out>>

-----------------------------------------------------------------------------
(* What radar_tick publishes of vehicles and items.                        *)

Placed(a) == actor[a] # None /\ actor[a].at # "nowhere"
Near(a) == Placed(a) /\ actor[a].at = "near"

\* The name an item id stands for, by itself or by its thousands.
resolve_item_info(id) == IF id = "listed" THEN "item" ELSE "Loot Crate"

\* Fault for mutation: a generic name is taken for a name.
NamedGeneric(id, hinted) ==
  LET n == IF id = "none" THEN "" ELSE resolve_item_info(id)
      r == IF n = "" /\ hinted THEN "hint" ELSE n
  IN IF r = "" THEN "Supply" ELSE r

\* The name, then what the names of the actor, its class and its mesh say if
\* it is empty or generic, then "Supply".
Named(id, hinted) ==
  LET n == IF id = "none" THEN "" ELSE resolve_item_info(id)
      r == IF n \in {"", "Loot Crate"} /\ hinted THEN "hint" ELSE n
  IN IF r = "" THEN "Supply" ELSE r

\* The name when all of it reads, and the names when an id or those names may not.
ItemName(a) == Named(IdOf[actor[a].cls], actor[a].cls \in Hinted)
NamesRead(a) == {ItemName(a)} \cup {Named("none", actor[a].cls \in Hinted)}
                  \cup {Named(id, FALSE) : id \in {"none", IdOf[actor[a].cls]}}

\* Entries met before the frame was full leave the list if they do not read.
Kept(k, S) == IF Cardinality(S) < MaxShown[k] THEN {a \in list[k] : Placed(a)} ELSE list[k]

\* As many of the entries that are near as the frame holds.
Fills(k, S) ==
  LET N == {a \in list[k] : Near(a)}
  IN /\ S \subseteq N
     /\ Cardinality(S) <= MaxShown[k]
     /\ S # N => Cardinality(S) = MaxShown[k]

\* A name is cached with whatever was read for it, while there is room.
Stores(of, I) ==
  \E M \in SUBSET (I \ CachedItems) :
    /\ Cardinality(CachedItems \cup M) <= MaxMeta
    /\ M # I \ CachedItems => Cardinality(CachedItems \cup M) = MaxMeta
    /\ meta' = [a \in Addrs |-> IF a \in M THEN [name |-> of[a], world |-> world] ELSE meta[a]]

Shows ==
  /\ dpc = "show"
  /\ \E V, I \in SUBSET Addrs :
       /\ Fills("vehicle", V) /\ Fills("item", I)
       /\ list' = [list EXCEPT !["vehicle"] = Kept("vehicle", V), !["item"] = Kept("item", I)]
       /\ \E of \in [I -> Names] :
            LET bad == {a \in I \ CachedItems : of[a] # ItemName(a)}
            IN /\ \A a \in I : IF a \in CachedItems THEN of[a] = meta[a].name
                                                   ELSE of[a] \in NamesRead(a)
               /\ misread' = (misread \cap CachedItems) \cup bad
               /\ IF bad = {} THEN UNCHANGED fails ELSE fails < MaxFails /\ fails' = fails + 1
               /\ out' = [status |-> "ready", vehicles |-> V,
                          items |-> {[at |-> a, name |-> of[a]] : a \in I}]
               /\ Stores(of, I)
  /\ dpc' = "find"
  /\ UNCHANGED <<gameVars, world, scanVars, origin, class, unread, mixed>>

RadarTick ==
  \/ FindsWorld \/ LosesWorld \/ SearchFinds
  \/ NoScan \/ ScanStarts \/ ScanRefused
  \/ ReadsChunk \/ ChunkFails \/ ScanEnds
  \/ \E a \in Addrs : Classifies(a) \/ Skips(a)
  \/ Shows

Next == Game \/ RadarTick

Spec == Init /\ [][Next]_vars

\* The radar loop keeps calling radar_tick, and a scan is due again and again,
\* every 1.25 s; the game owes nothing.
FairSpec == Spec /\ WF_vars(RadarTick) /\ SF_vars(ScanStarts \/ ScanRefused)

-----------------------------------------------------------------------------
(* Properties.                                                             *)

\* Every variable keeps its type; no list, cache or frame overflows.
LevelTypeOK ==
  /\ view \in Worlds \cup {None} /\ world \in Worlds \cup {None}
  /\ origin \in Worlds \cup {None}
  /\ actor \in [Addrs -> Actor \cup {None}] /\ slot \in [1..Slots -> Addrs \cup {None}]
  /\ len \in 0..Slots /\ uses \in [Addrs -> Nat] /\ fails \in 0..MaxFails
  /\ dpc \in {"find", "scan", "chunk", "show"} /\ mixed \in BOOLEAN
  /\ start \in Nat /\ count \in 0..Slots /\ batch \subseteq Addrs
  /\ found \in [Listed -> SUBSET Addrs] /\ list \in [Listed -> SUBSET Addrs]
  /\ \A k \in Listed : /\ Cardinality(found[k]) <= MaxList[k]
                       /\ Cardinality(list[k]) <= MaxList[k]
  /\ class \in [Classes -> Kinds \cup {None}] /\ unread \subseteq Classes /\ misread \subseteq Addrs
  /\ Cardinality(CachedClasses) <= MaxClasses
  /\ meta \in [Addrs -> [name : Names, world : Worlds \cup {None}] \cup {None}]
  /\ Cardinality(CachedItems) <= MaxMeta
  /\ Cardinality(out.vehicles) <= MaxShown["vehicle"]
  /\ Cardinality(out.items) <= MaxShown["item"]

\* A radar_tick that has its world works with lists, classes and item names of
\* that world, however the game travelled while a scan was going on; not so
\* after a world that was found by search with entries in the caches.
CachesOfWorld ==
  dpc # "find" /\ ~mixed =>
    /\ list # NoLists => origin = world
    /\ \A a \in CachedItems : meta[a].world = world

\* Every class in the cache has the kind its names say in this world, but for
\* the classes whose name did not read when they were first met: those stay
\* ignored until the world changes.
ClassesRight ==
  dpc # "find" /\ ~mixed =>
    \A c \in CachedClasses \ unread : class[c] = KindIn[world][c]

\* What an item should be called: a listed id counts most, then a name that
\* says what it is.
Called(c) == IF IdOf[c] = "listed" THEN "item"
             ELSE IF c \in Hinted THEN "hint"
             ELSE IF IdOf[c] = "other" THEN "Loot Crate" ELSE "Supply"

\* What it may be called besides when some of it does not read.
Lesser(c) == {"Supply"} \cup (IF c \in Hinted THEN {"hint"} ELSE {})
                        \cup (IF IdOf[c] = "other" THEN {"Loot Crate"} ELSE {})

\* An item is published under the name of the actor at its address, from the
\* cache or not, unless another one was there before: the cache keeps the name
\* of the first.  A name found when a read failed is kept as well: it may say
\* less than it should, and is still never the name of another item.
ItemNamesRight ==
  \A i \in out.items :
    actor[i.at] # None /\ uses[i.at] = 1 =>
      \/ i.name = Called(actor[i.at].cls)
      \/ i.at \in misread /\ i.name \in Lesser(actor[i.at].cls)

\* The reference: what a frame should show of a kind.
Expected(k) == {a \in InLevel : KindIn[view][actor[a].cls] = k /\ Near(a)}

Fits(k) == /\ Cardinality({a \in InLevel : KindIn[view][actor[a].cls] = k}) <= MaxList[k]
           /\ Cardinality(Expected(k)) <= MaxShown[k]

Poisoned == \E c \in CachedClasses : class[c] # KindIn[view][c]

\* Once the game keeps still in a world whose level reads, frames come to show
\* its near vehicles and items, all of them and nothing else, whatever the
\* lists held before; provided they fit and no class was cached wrong.
Converges ==
  <>[][FALSE]_gameVars =>
  <>[](view # None /\ len \in Least..Longest /\ Fits("vehicle") /\ Fits("item") /\ ~Poisoned =>
         /\ out.vehicles = Expected("vehicle")
         /\ {i.at : i \in out.items} = Expected("item"))
=============================================================================
