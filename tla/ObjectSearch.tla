---------------------------- MODULE ObjectSearch ----------------------------
(***************************************************************************)
(* How find_world comes to the LocalPlayer: ue4r_find_instance goes over   *)
(* the engine's object array in pieces, first for the class of that name,  *)
(* then for an instance of it, with a cache of the classes it has judged.  *)
(* The game allocates and frees objects and grows the array meanwhile, and *)
(* any read of its memory may fail.                                        *)
(*                                                                         *)
(* An object's address is known by its index; what stands there outlives   *)
(* the object until it is overwritten.  The throttle says only when the    *)
(* next call is made; the game may act between any two objects, while the  *)
(* few reads about one object count as one step.  Classes are native: they *)
(* are never unloaded.                                                     *)
(***************************************************************************)
EXTENDS Integers

CONSTANTS
  N,             \* slots the array may grow to
  MaxObjects,    \* longest array that is searched (MAX_OBJECTS, 500000)
  BatchSize,     \* objects one call looks at (512)
  Classes,       \* classes of the engine's objects
  PlayerClasses, \* LocalPlayer and the classes derived from it
  Meta,          \* the class of class objects
  Buckets,       \* slots of lookup_keys (256)
  BucketOf,      \* per class, the bucket its address falls into
  MaxChanges,    \* bound on what the game allocates, frees and links
  MaxFails,      \* bound on the reads that fail
  None

ASSUME ArrayAssumption == N \in Nat \ {0} /\ MaxObjects \in Nat /\ BatchSize \in Nat \ {0}
ASSUME BoundsAssumption == MaxChanges \in Nat /\ MaxFails \in Nat
ASSUME ClassAssumption == PlayerClasses \subseteq Classes \ {Meta} /\ Meta \in Classes
ASSUME NoClassAssumption == None \notin Classes
ASSUME BucketAssumption == BucketOf \in [Classes -> Buckets]

VARIABLES
  len,      \* elements of the array
  live,     \* indices with an object
  mem,      \* per index: what stands at the address of the object it has or had
  spare,    \* the world's game instance names a player with a controller
  changes, fails,    \* the bounded counters
  cursor,   \* world_cursor: the next index, or -1
  left,     \* budget of the call, 0 between two calls
  upto,     \* the call's count
  batch,    \* indices with a pointer when the call read its piece of the array
  known,    \* lookup_class is set
  key,      \* lookup_keys
  match,    \* lookup_matches
  lp        \* local_player

gameVars == <<len, live, mem, spare, changes>>
callVars == <<left, upto, batch>>
cacheVars == <<known, key, match>>
vars == <<gameVars, fails, cursor, callVars, cacheVars, lp>>

Indices == 0..(N - 1)

\* The class object named LocalPlayer, and the instances: default objects have
\* the flag 0x10; a player is linked to a world through its viewport, and fully
\* so once it has a controller that points back.
TheClass == [cls |-> Meta, cdo |-> FALSE, link |-> "none"]
Instances == [cls : Classes \ {Meta}, cdo : BOOLEAN, link : {"none", "world", "full"}]

IsPlayer(o) == o # None /\ o.cls \in PlayerClasses /\ ~o.cdo /\ o.link = "full"

Init ==
  /\ len \in 1..N
  /\ \E i \in Indices :
       /\ i < len
       /\ live = {i} /\ mem = [j \in Indices |-> IF j = i THEN TheClass ELSE None]
  /\ spare = FALSE /\ changes = 0 /\ fails = 0
  /\ cursor = 0 /\ left = 0 /\ upto = 0 /\ batch = {}
  /\ known = FALSE /\ lp = None
  /\ key = [b \in Buckets |-> None] /\ match = [b \in Buckets |-> FALSE]

-----------------------------------------------------------------------------
(* The game.                                                               *)

Changes ==
  /\ changes < MaxChanges
  /\ changes' = changes + 1
  /\ UNCHANGED <<fails, cursor, callVars, cacheVars, lp>>

Allocate(i) ==
  /\ Changes
  /\ i <= len /\ i \notin live
  /\ len' = IF i = len THEN len + 1 ELSE len
  /\ live' = live \cup {i}
  /\ \E o \in Instances : ~(o.cdo /\ o.link # "none") /\ mem' = [mem EXCEPT ![i] = o]
  /\ UNCHANGED spare

\* The memory may keep the object as it was, or be overwritten.
Free(i) ==
  /\ Changes
  /\ mem[i] \notin {None, TheClass}
  /\ live' = live \ {i}
  /\ \E o \in {None, mem[i]} : mem' = [mem EXCEPT ![i] = o]
  /\ UNCHANGED <<len, spare>>

\* A player gets or loses its world or its controller.
Relink(i) ==
  /\ Changes
  /\ i \in live /\ mem[i] \notin {None, TheClass}
  /\ ~mem[i].cdo /\ mem[i].cls \in PlayerClasses
  /\ \E l \in {"none", "world", "full"} : mem' = [mem EXCEPT ![i].link = l]
  /\ spare' \in BOOLEAN
  /\ UNCHANGED <<len, live>>

-----------------------------------------------------------------------------
(* find_world without a local player, and ue4r_find_instance.              *)

\* A step whose reads of the game's memory all succeed, and one with a failed read.
Reads == UNCHANGED fails
Fails == fails < MaxFails /\ fails' = fails + 1

Searches == lp = None /\ cursor >= 0

Past(c, n) == c >= n

\* The array is exhausted, too long or not read: the cursor says so.
Exhausted ==
  /\ Searches /\ left = 0
  /\ Past(cursor, len) \/ len > MaxObjects
  /\ Reads
  /\ cursor' = -1
  /\ UNCHANGED <<gameVars, callVars, cacheVars, lp>>

NotRead ==
  /\ Searches /\ left = 0
  /\ Fails
  /\ cursor' = -1
  /\ UNCHANGED <<gameVars, callVars, cacheVars, lp>>

\* The call's piece of the array is read at once; if it cannot be, each pointer alone.
Piece ==
  \/ Reads /\ batch' = {i \in live : i \in cursor..(cursor + BatchSize - 1)}
  \/ Fails /\ batch' = {}

\* Fault for mutation: the array's capacity is taken for its count.
BeginsCapacity ==
  /\ Searches /\ left = 0
  /\ ~Past(cursor, len) /\ len <= MaxObjects
  /\ left' = BatchSize /\ upto' = N
  /\ Piece
  /\ UNCHANGED <<gameVars, cursor, cacheVars, lp>>

Begins ==
  /\ Searches /\ left = 0
  /\ ~Past(cursor, len) /\ len <= MaxObjects
  /\ left' = BatchSize /\ upto' = len
  /\ Piece
  /\ UNCHANGED <<gameVars, cursor, cacheVars, lp>>

\* Fault for mutation: the cursor is left at the end.
WrapStays == UNCHANGED cursor

Wrap == cursor' = 0

\* The next lookup, 0.5 s later, begins at the front.
StartOver ==
  /\ lp = None /\ cursor < 0
  /\ Wrap
  /\ UNCHANGED <<gameVars, fails, callVars, cacheVars, lp>>

Looking == Searches /\ left > 0 /\ ~Past(cursor, upto)

\* A pointer comes from the call's piece, else from the array as it is now; the
\* object is read where it points, whatever stands there by now.
Object == IF cursor \in batch \cup live THEN mem[cursor] ELSE None

\* The cursor goes to c; the call is over with a candidate, at its count or
\* without budget.
Advance(c, candidate) ==
  /\ cursor' = IF ~candidate /\ Past(c, upto) THEN -1 ELSE c
  /\ IF candidate \/ Past(c, upto) \/ left = 1
       THEN left' = 0 /\ upto' = 0 /\ batch' = {}
       ELSE left' = left - 1 /\ UNCHANGED <<upto, batch>>

\* Until the class is known only class objects matter; with it the search
\* starts again at the front.
FindsClass ==
  /\ Looking /\ ~known
  /\ Object = TheClass
  /\ Reads
  /\ known' = TRUE
  /\ Advance(0, FALSE)
  /\ UNCHANGED <<gameVars, key, match, lp>>

\* Fault for mutation: a bucket in use answers for any class that falls into it.
HitAny(c) == key[BucketOf[c]] # None

Hit(c) == key[BucketOf[c]] = c

\* The walk along the super chain ends at the class searched for, at the chain's
\* end, or at a pointer that does not read.
Chain(c) == [match : {(c \in PlayerClasses)}, fails : {fails}] \cup
            [match : {FALSE}, fails : {fails + 1} \cap 0..MaxFails]

\* What the cache says of the class; a class that is not in it is judged, for
\* better or worse, and displaces the one in its bucket.
Verdicts(c) ==
  IF Hit(c) THEN {[match |-> match[BucketOf[c]], fails |-> fails]} ELSE Chain(c)

Judge(c, v) ==
  /\ key' = [key EXCEPT ![BucketOf[c]] = IF Hit(c) THEN @ ELSE c]
  /\ match' = [match EXCEPT ![BucketOf[c]] = v.match]
  /\ UNCHANGED known

\* With the class known, the instances that are no default objects are judged.
Judged == known /\ Object \notin {None} \cup {o \in Instances : o.cdo}

\* An instance that is linked is the local player.
FindsPlayer ==
  /\ Looking /\ Judged
  /\ Object.link = "full"
  /\ \E v \in Verdicts(Object.cls) : v.match /\ Judge(Object.cls, v) /\ fails' = v.fails
  /\ lp' = cursor
  /\ Advance(cursor + 1, TRUE)
  /\ UNCHANGED gameVars

\* Another class, or a class taken for another.
Refuses ==
  /\ Looking /\ Judged
  /\ \E v \in Verdicts(Object.cls) : ~v.match /\ Judge(Object.cls, v) /\ fails' = v.fails
  /\ Advance(cursor + 1, FALSE)
  /\ UNCHANGED <<gameVars, lp>>

\* A candidate without its links, or whose links do not read.
Rejects ==
  /\ Looking /\ Judged
  /\ \E v \in Verdicts(Object.cls) :
       /\ v.match /\ Judge(Object.cls, v)
       /\ IF Object.link = "full" THEN Fails ELSE fails' = v.fails
  /\ Advance(cursor + 1, TRUE)
  /\ UNCHANGED <<gameVars, lp>>

\* Nothing there, a default object, an object before the class is known, or one
\* whose header or name does not read.
PassesOver ==
  /\ Looking
  /\ \/ ~Judged /\ (known \/ Object # TheClass) /\ Reads
     \/ Object # None /\ Fails
  /\ Advance(cursor + 1, FALSE)
  /\ UNCHANGED <<gameVars, cacheVars, lp>>

\* What stands at the player's address still leads to a world with a controller,
\* the player's own or that of the first player of the game instance.
Kept ==
  /\ mem[lp] # None
  /\ mem[lp].link = "full" \/ (mem[lp].link = "world" /\ spare)

\* The world or the controller is gone, or does not read: the search begins anew.
Loses ==
  /\ lp # None
  /\ IF Kept THEN Fails ELSE Reads
  /\ lp' = None /\ cursor' = 0
  /\ UNCHANGED <<gameVars, callVars, cacheVars>>

Searching == \/ Exhausted \/ NotRead \/ Begins \/ StartOver \/ FindsClass \/ FindsPlayer
             \/ Refuses \/ Rejects \/ PassesOver \/ Loses

Next == \/ \E i \in Indices : Allocate(i) \/ Free(i) \/ Relink(i)
        \/ Searching

\* radar_tick keeps calling find_world; no read is obliged to fail.
Spec == Init /\ [][Next]_vars /\ WF_vars(Searching /\ Reads)

-----------------------------------------------------------------------------
(* Properties.                                                             *)

\* Every variable keeps its type; neither the cursor nor a call's count passes
\* the end of the array.
SearchTypeOK ==
  /\ len \in 1..N /\ changes \in 0..MaxChanges /\ fails \in 0..MaxFails
  /\ live \subseteq Indices /\ spare \in BOOLEAN
  /\ mem \in [Indices -> Instances \cup {TheClass, None}]
  /\ cursor \in -1..N /\ cursor <= len
  /\ left \in 0..BatchSize /\ upto \in 0..N /\ upto <= len /\ batch \subseteq Indices
  /\ known \in BOOLEAN /\ lp \in Indices \cup {None}
  /\ key \in [Buckets -> Classes \cup {None}] /\ match \in [Buckets -> BOOLEAN]

\* What the search takes for the local player is one by all that stands at its
\* address, whatever classes share the buckets of its cache, whatever the game
\* put there since its piece of the array was read, and whatever read failed.
FoundIsPlayer ==
  [][lp = None /\ lp' # None => IsPlayer(mem'[lp'])]_vars

\* The cache holds a 'no' for a class of the player's: a super pointer did not
\* read when it was judged.
Misjudged(c) == Hit(c) /\ ~match[BucketOf[c]]

\* An object whose class is another of the bucket, judged in every pass.
Displaced(c) ==
  \E j \in live : /\ ~mem[j].cdo
                  /\ mem[j].cls # c /\ BucketOf[mem[j].cls] = BucketOf[c]

\* As long as there is a player that stays and reads do not fail for ever, the
\* search does not stay without one: ReaderCache's SearchFinds happens.  Except
\* that a single failed read may make it refuse the player's class for good, and
\* only while no object has another class of its bucket.
SearchEnds ==
  \A i \in Indices, c \in PlayerClasses :
    <>[](i \in live /\ IsPlayer(mem[i]) /\ mem[i].cls = c /\ len <= MaxObjects) =>
    []<>(lp # None) \/ <>[](Misjudged(c) /\ ~Displaced(c))
=============================================================================
