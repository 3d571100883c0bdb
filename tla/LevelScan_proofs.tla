-------------------------- MODULE LevelScan_proofs --------------------------
(***************************************************************************)
(* The lists and caches of the level scan, for any number of actors,       *)
(* classes and worlds, any caps, and whatever the game does meanwhile:     *)
(* nothing overflows, what is kept belongs to the world it is used in, and *)
(* an item has the name of the actor at its address.                       *)
(***************************************************************************)
EXTENDS LevelScan, FiniteSetTheorems, TLAPS

(***************************************************************************)
(* The inductive invariant.                                                *)
(***************************************************************************)

GameOK ==
  /\ view \in Worlds \cup {None}
  /\ actor \in [Addrs -> Actor \cup {None}] /\ slot \in [1..Slots -> Addrs \cup {None}]
  /\ len \in 0..Slots /\ uses \in [Addrs -> Nat]
  /\ \A i \in 1..Slots : slot[i] # None => actor[slot[i]] # None
  /\ \A i, j \in 1..Slots : slot[i] # None /\ slot[i] = slot[j] => i = j

ScanOK ==
  /\ dpc \in {"find", "scan", "chunk", "show"} /\ fails \in 0..MaxFails /\ misread \subseteq Addrs
  /\ start \in Nat /\ count \in 0..Slots /\ batch \subseteq Addrs
  /\ found \in [Listed -> SUBSET Addrs]
  /\ \A k \in Listed : Cardinality(found[k]) <= MaxList[k]

ListsOK ==
  /\ list \in [Listed -> SUBSET Addrs]
  /\ \A k \in Listed : Cardinality(list[k]) <= MaxList[k]

ClassesOK ==
  /\ class \in [Classes -> Kinds \cup {None}] /\ unread \subseteq Classes
  /\ Cardinality(CachedClasses) <= MaxClasses

MetaOK ==
  /\ meta \in [Addrs -> [name : Names, world : Worlds \cup {None}] \cup {None}]
  /\ Cardinality(CachedItems) <= MaxMeta

CacheOK ==
  /\ origin \in Worlds \cup {None} /\ mixed \in BOOLEAN
  /\ ListsOK /\ ClassesOK /\ MetaOK

FrameOK ==
  /\ Cardinality(out.vehicles) <= MaxShown["vehicle"]
  /\ Cardinality(out.items) <= MaxShown["item"]

\* A world is there where it is used.
WorldOK ==
  /\ world \in Worlds \cup {None}
  /\ dpc # "find" => world # None

\* As long as the daemon has a world, and did not find it by search with
\* entries in the caches, they are of that world.  Between losing a world and
\* finding the next one they may be of another.
OfWorld ==
  ~mixed /\ world # None =>
    /\ list # NoLists => origin = world
    /\ \A a \in CachedItems : meta[a].world = world
    /\ \A c \in CachedClasses \ unread : class[c] = KindIn[world][c]

LInv == GameOK /\ ScanOK /\ CacheOK /\ FrameOK /\ WorldOK /\ OfWorld

LEMMA LInvTypes == LInv => LevelTypeOK
BY DEF LInv, GameOK, ScanOK, CacheOK, ListsOK, ClassesOK, MetaOK, FrameOK, WorldOK, LevelTypeOK

LEMMA NoneIsNone == None \notin Worlds /\ None \notin Addrs /\ None \notin Kinds
BY LevelNoneAssumption

LEMMA ActorIsSome == None \notin Actor
BY LevelNoneAssumption

LEMMA Caps ==
  /\ Slots \in Nat \ {0} /\ Chunk \in Nat \ {0} /\ MaxClasses \in Nat \ {0} /\ MaxMeta \in Nat \ {0}
  /\ MaxFails \in Nat /\ Least \in Nat
  /\ \A k \in Listed : MaxList[k] \in Nat /\ MaxShown[k] \in Nat
BY LevelCapsAssumption

\* A set of actors is finite.
LEMMA FiniteActors == ASSUME NEW S \in SUBSET Addrs PROVE IsFiniteSet(S) /\ Cardinality(S) \in Nat
<1>1. IsFiniteSet(S)
  BY LevelSetsAssumption, FS_Subset
<1> QED BY <1>1, FS_CardinalityType

LEMMA OneMore ==
  ASSUME NEW S, IsFiniteSet(S), NEW x
  PROVE  Cardinality(S \cup {x}) <= Cardinality(S) + 1 /\ Cardinality(S \cup {x}) \in Nat
<1>1. Cardinality(S) \in Nat /\ IsFiniteSet(S \cup {x})
  BY FS_CardinalityType, FS_AddElement
<1>2. Cardinality(S \cup {x}) \in Nat
  BY <1>1, FS_CardinalityType
<1>3. CASE x \in S
  <2>1. S \cup {x} = S
    BY <1>3
  <2> QED BY <1>1, <2>1
<1>4. CASE x \notin S
  <2>1. Cardinality(S \cup {x}) = Cardinality(S) + 1
    BY <1>4, FS_AddElement
  <2> QED BY <1>1, <1>2, <2>1
<1> QED BY <1>3, <1>4

\* Empty caches and lists keep to their caps.
LEMMA Cleared ==
  ASSUME ClearCaches
  PROVE  CacheOK' /\ list' = NoLists /\ CachedItems' = {} /\ CachedClasses' = {} /\ ~mixed'
<1>1. Cardinality({}) = 0
  BY FS_EmptySet
<1>2. ListsOK'
  BY <1>1, Caps DEF ClearCaches, NoLists, ListsOK
<1>3. CachedClasses' = {} /\ CachedItems' = {}
  BY DEF ClearCaches, NoClasses, NoMeta, CachedClasses, CachedItems
<1>4. ClassesOK' /\ MetaOK'
  BY <1>1, <1>3, Caps DEF ClearCaches, NoClasses, NoMeta, ClassesOK, MetaOK
<1> QED BY <1>2, <1>3, <1>4 DEF ClearCaches, CacheOK

LEMMA LevelInit == Init => LInv
<1> SUFFICES ASSUME Init PROVE LInv
  OBVIOUS
<1>1. Cardinality({}) = 0
  BY FS_EmptySet
<1>2. GameOK
  BY Caps DEF Init, GameOK, NoActors, EmptyArray
<1>3. ScanOK
  BY <1>1, Caps DEF Init, ScanOK, NoLists
<1>4. CachedClasses = {} /\ CachedItems = {}
  BY DEF Init, NoClasses, NoMeta, CachedClasses, CachedItems
<1>5. ListsOK /\ ClassesOK /\ MetaOK
  BY <1>1, <1>4, Caps DEF Init, NoLists, NoClasses, NoMeta, ListsOK, ClassesOK, MetaOK
<1>6. FrameOK
  BY <1>1, Caps DEF Init, NoFrame, FrameOK, Listed
<1> QED BY <1>2, <1>3, <1>5, <1>6 DEF Init, LInv, CacheOK, WorldOK, OfWorld

(***************************************************************************)
(* The game.  It touches nothing of the daemon.                            *)
(***************************************************************************)

LEMMA GameKeeps == LInv /\ Game => LInv'
<1> SUFFICES ASSUME LInv, Game PROVE LInv'
  OBVIOUS
<1>1. UNCHANGED readerVars
  BY DEF Game, Arrive, Leave, Spawn, Moves, Destroy
<1>2. /\ ScanOK' /\ CacheOK' /\ FrameOK' /\ WorldOK' /\ OfWorld'
  BY <1>1 DEF readerVars, scanVars, cacheVars, LInv, ScanOK, CacheOK, ListsOK, ClassesOK, MetaOK,
     FrameOK, WorldOK, OfWorld, CachedItems, CachedClasses
<1>3. GameOK'
  <2> USE DEF LInv, GameOK
  <2>1. CASE \E w \in Worlds : Arrive(w)
    BY <2>1 DEF Arrive
  <2>2. CASE Leave
    BY <2>2, Caps DEF Leave, EmptyArray, NoActors
  <2>3. ASSUME NEW a \in Addrs, NEW i \in 1..Slots, Spawn(a, i) PROVE GameOK'
    <3>1. PICK c \in Classes : actor' = [actor EXCEPT ![a] = [cls |-> c, at |-> "nowhere"]]
      BY <2>3 DEF Spawn
    <3>2. slot' = [slot EXCEPT ![i] = a] /\ view' = view /\ uses' = [uses EXCEPT ![a] = @ + 1]
      BY <2>3 DEF Spawn
    <3>3. len' \in 0..Slots
      BY <2>3, Caps DEF Spawn
    <3>4. actor' \in [Addrs -> Actor \cup {None}]
      BY <3>1 DEF Actor
    <3>5. \A j \in 1..Slots : slot[j] # a
      BY <2>3, NoneIsNone DEF Spawn, InLevel
    <3>6. \A j \in 1..Slots : slot'[j] # None => actor'[slot'[j]] # None
      <4>1. [cls |-> c, at |-> "nowhere"] # None
        BY <2>3, ActorIsSome DEF Actor
      <4> QED BY <3>1, <3>2, <3>5, <4>1
    <3>7. \A j, k \in 1..Slots : slot'[j] # None /\ slot'[j] = slot'[k] => j = k
      <4> TAKE j, k \in 1..Slots
      <4>1. \A l \in 1..Slots : l # i => slot'[l] = slot[l]
        BY <3>2
      <4>2. slot'[i] = a
        BY <3>2
      <4>3. CASE j = i \/ k = i
        BY <3>5, <4>1, <4>2, <4>3
      <4>4. CASE j # i /\ k # i
        BY <4>1, <4>4
      <4> QED BY <4>3, <4>4
    <3>8. slot' \in [1..Slots -> Addrs \cup {None}] /\ uses' \in [Addrs -> Nat]
      BY <3>2
    <3> QED BY <3>2, <3>3, <3>4, <3>6, <3>7, <3>8
  <2>4. ASSUME NEW a \in Addrs, Moves(a) PROVE GameOK'
    <3>1. PICK p \in {"near", "far", "nowhere"} : actor' = [actor EXCEPT ![a].at = p]
      BY <2>4 DEF Moves
    <3>2. actor[a] \in Actor
      BY <2>4 DEF Moves, InLevel
    <3>3. actor'[a] \in Actor /\ actor' \in [Addrs -> Actor \cup {None}]
      BY <3>1, <3>2 DEF Actor
    <3>4. UNCHANGED <<view, slot, len, uses>>
      BY <2>4 DEF Moves
    <3> QED BY <3>1, <3>3, <3>4, ActorIsSome
  <2>5. ASSUME NEW i \in 1..Slots, Destroy(i) PROVE GameOK'
    BY <2>5 DEF Destroy
  <2> QED BY <2>1, <2>2, <2>3, <2>4, <2>5 DEF Game
<1> QED BY <1>2, <1>3 DEF LInv

(***************************************************************************)
(* The world.                                                              *)
(***************************************************************************)

LEMMA FindsWorldKeeps == LInv /\ FindsWorld => LInv'
<1> SUFFICES ASSUME LInv, FindsWorld PROVE LInv'
  OBVIOUS
<1> USE DEF LInv
<1>1. GameOK' /\ ScanOK' /\ FrameOK'
  BY DEF FindsWorld, gameVars, scanVars, GameOK, ScanOK, FrameOK
<1>2. WorldOK'
  BY NoneIsNone DEF FindsWorld, WorldOK, GameOK
<1>3. CASE world # view
  <2>1. ClearCaches
    BY <1>3 DEF FindsWorld
  <2>2. CacheOK' /\ list' = NoLists /\ CachedItems' = {} /\ CachedClasses' = {}
    BY <2>1, Cleared
  <2>3. OfWorld'
    BY <2>2 DEF OfWorld, NoLists
  <2> QED BY <1>1, <1>2, <2>2, <2>3
<1>4. CASE world = view
  <2>1. UNCHANGED <<cacheVars, world>>
    BY <1>4 DEF FindsWorld
  <2>2. CacheOK' /\ OfWorld'
    BY <2>1 DEF cacheVars, CacheOK, ListsOK, ClassesOK, MetaOK, OfWorld, NoLists, CachedItems, CachedClasses
  <2> QED BY <1>1, <1>2, <2>2
<1> QED BY <1>3, <1>4

LEMMA LosesWorldKeeps == LInv /\ LosesWorld => LInv'
<1> SUFFICES ASSUME LInv, LosesWorld PROVE LInv'
  OBVIOUS
<1> USE DEF LInv
<1>1. GameOK' /\ ScanOK' /\ CacheOK'
  BY DEF LosesWorld, gameVars, scanVars, cacheVars, GameOK, ScanOK, CacheOK, ListsOK, ClassesOK, MetaOK,
     CachedItems, CachedClasses
<1>2. FrameOK'
  <2>1. Cardinality({}) = 0
    BY FS_EmptySet
  <2> QED BY <2>1, Caps DEF LosesWorld, NoFrame, FrameOK, Listed
<1>3. WorldOK' /\ OfWorld'
  BY DEF LosesWorld, WorldOK, OfWorld
<1> QED BY <1>1, <1>2, <1>3

LEMMA SearchFindsKeeps == LInv /\ SearchFinds => LInv'
<1> SUFFICES ASSUME LInv, SearchFinds PROVE LInv'
  OBVIOUS
<1> USE DEF LInv
<1>1. GameOK' /\ ScanOK' /\ FrameOK'
  BY DEF SearchFinds, gameVars, scanVars, GameOK, ScanOK, FrameOK
<1>2. CacheOK'
  <2>1. mixed' \in BOOLEAN
    BY Zenon DEF SearchFinds, CacheOK
  <2> QED BY <2>1 DEF SearchFinds, CacheOK, ListsOK, ClassesOK, MetaOK, CachedItems, CachedClasses
<1>3. WorldOK'
  BY NoneIsNone DEF SearchFinds, WorldOK, GameOK
<1>4. OfWorld'
  <2>1. ~mixed' => list = NoLists /\ CachedClasses = {} /\ CachedItems = {}
    BY DEF SearchFinds
  <2>2. UNCHANGED <<list, class, meta>>
    BY DEF SearchFinds
  <2> QED BY <2>1, <2>2 DEF OfWorld, NoLists, CachedClasses, CachedItems
<1> QED BY <1>1, <1>2, <1>3, <1>4

(***************************************************************************)
(* The scan.                                                               *)
(***************************************************************************)

\* Steps that only move the scan on.
LEMMA ScanMovesKeeps ==
  ASSUME LInv, NoScan \/ ScanStarts \/ ScanRefused \/ ReadsChunk \/ ChunkFails
                 \/ \E a \in Addrs : Skips(a)
  PROVE  LInv'
<1> USE DEF LInv
<1>1. UNCHANGED <<gameVars, cacheVars, world, out>>
  BY DEF NoScan, ScanStarts, ScanRefused, ReadsChunk, ChunkFails, Skips, cacheVars
<1>2. GameOK' /\ CacheOK' /\ FrameOK' /\ OfWorld'
  BY <1>1 DEF gameVars, cacheVars, GameOK, CacheOK, ListsOK, ClassesOK, MetaOK, FrameOK, OfWorld,
     NoLists, CachedItems, CachedClasses
<1>3. WorldOK'
  BY <1>1 DEF NoScan, ScanStarts, ScanRefused, ReadsChunk, ChunkFails, Skips, WorldOK
<1>4. ScanOK'
  <2>1. CASE NoScan \/ ScanRefused
    BY <2>1 DEF NoScan, ScanRefused, scanVars, ScanOK
  <2>2. CASE ScanStarts
    <3>1. Cardinality({}) = 0
      BY FS_EmptySet
    <3> QED BY <2>2, <3>1, Caps DEF ScanStarts, ScanOK, GameOK, NoLists
  <2>3. CASE ReadsChunk
    <3>1. batch' \subseteq Addrs
      BY <2>3 DEF ReadsChunk, GameOK
    <3>2. start' \in Nat
      BY <2>3, Caps DEF ReadsChunk, ScanOK
    <3> QED BY <2>3, <3>1, <3>2 DEF ReadsChunk, ScanOK
  <2>4. CASE ChunkFails
    <3>1. start' \in Nat /\ fails' \in 0..MaxFails
      BY <2>4, Caps DEF ChunkFails, ScanOK
    <3> QED BY <2>4, <3>1 DEF ChunkFails, ScanOK
  <2>5. CASE \E a \in Addrs : Skips(a)
    BY <2>5 DEF Skips, ScanOK
  <2> QED BY <2>1, <2>2, <2>3, <2>4, <2>5
<1> QED BY <1>2, <1>3, <1>4

LEMMA ClassifiesKeeps == ASSUME LInv, NEW a \in Addrs, Classifies(a) PROVE LInv'
<1> USE DEF LInv
<1> DEFINE c == actor[a].cls
<1>1. c \in Classes
  BY DEF Classifies, GameOK, Actor
<1>2. PICK k \in Kinds, bad \in BOOLEAN :
        /\ found' = ListedAs(a, k)
        /\ \/ UNCHANGED <<class, unread>>
           \/ /\ Cardinality(CachedClasses) < MaxClasses
              /\ class' = [class EXCEPT ![c] = k]
              /\ unread' = IF bad THEN unread \cup {c} ELSE unread
        /\ class[c] = None /\ ~bad => k = KindIn[world][c]
        /\ class[c] # None => UNCHANGED <<class, unread>>
  <2>1. CASE class[c] # None
    BY <1>1, <2>1 DEF Classifies, CacheOK, ClassesOK
  <2>2. CASE class[c] = None
    <3>1. KindIn[world][c] \in Kinds
      BY <1>1, KindInAssumption DEF Classifies, WorldOK
    <3> QED BY <2>2, <3>1 DEF Classifies, Kinds
  <2> QED BY <2>1, <2>2
<1>3. UNCHANGED <<gameVars, dpc, world, start, count, list, origin, meta, misread, mixed, out>>
  BY DEF Classifies
<1>4. batch' = batch \ {a} /\ fails' \in 0..MaxFails
  BY Caps DEF Classifies, ScanOK
<1>5. found' \in [Listed -> SUBSET Addrs] /\ \A n \in Listed : Cardinality(found'[n]) <= MaxList[n]
  <2>1. found' \in [Listed -> SUBSET Addrs]
    BY <1>2 DEF ListedAs, ScanOK
  <2>2. ASSUME NEW n \in Listed PROVE Cardinality(found'[n]) <= MaxList[n]
    <3>1. CASE n = k /\ Cardinality(found[n]) < MaxList[n]
      <4>1. found[n] \in SUBSET Addrs /\ found'[n] = found[n] \cup {a}
        BY <1>2, <3>1 DEF ListedAs, ScanOK
      <4>2. Cardinality(found'[n]) <= Cardinality(found[n]) + 1
        BY <4>1, FiniteActors, OneMore
      <4> QED BY <3>1, <4>1, <4>2, FiniteActors, Caps
    <3>2. CASE ~(n = k /\ Cardinality(found[n]) < MaxList[n])
      BY <1>2, <3>2 DEF ListedAs, ScanOK
    <3> QED BY <3>1, <3>2
  <2> QED BY <2>1, <2>2
<1>6. GameOK' /\ ScanOK' /\ FrameOK' /\ WorldOK'
  BY <1>3, <1>4, <1>5 DEF gameVars, GameOK, ScanOK, FrameOK, WorldOK
<1>7. ClassesOK'
  <2>1. CASE UNCHANGED <<class, unread>>
    BY <2>1 DEF CacheOK, ClassesOK, CachedClasses
  <2>2. CASE Cardinality(CachedClasses) < MaxClasses /\ class' = [class EXCEPT ![c] = k]
    <3>1. class' \in [Classes -> Kinds \cup {None}] /\ unread' \subseteq Classes
      BY <1>1, <1>2, <2>2 DEF CacheOK, ClassesOK
    <3>2. CachedClasses' = CachedClasses \cup {c}
      BY <1>1, <2>2, NoneIsNone DEF CachedClasses, CacheOK, ClassesOK
    <3>3. IsFiniteSet(CachedClasses)
      BY LevelSetsAssumption, FS_Subset DEF CachedClasses
    <3>4. Cardinality(CachedClasses') <= Cardinality(CachedClasses) + 1
      BY <3>2, <3>3, OneMore
    <3>5. Cardinality(CachedClasses') \in Nat /\ Cardinality(CachedClasses) \in Nat
      BY <3>2, <3>3, FS_AddElement, FS_CardinalityType
    <3> QED BY <2>2, <3>1, <3>4, <3>5, Caps DEF ClassesOK
  <2> QED BY <1>2, <2>1, <2>2
<1>8. CacheOK'
  BY <1>3, <1>7 DEF CacheOK, ListsOK, MetaOK, CachedItems
<1>9. OfWorld'
  <2> SUFFICES ASSUME ~mixed, world # None
               PROVE  /\ list # NoLists => origin = world
                      /\ \A i \in CachedItems : meta[i].world = world
                      /\ \A d \in CachedClasses' \ unread' : class'[d] = KindIn[world][d]
    BY <1>3 DEF OfWorld, NoLists, CachedItems
  <2>1. ASSUME NEW d \in CachedClasses' \ unread' PROVE class'[d] = KindIn[world][d]
    BY <1>1, <1>2, <2>1 DEF OfWorld, CachedClasses, CacheOK, ClassesOK
  <2> QED BY <2>1 DEF OfWorld
<1> QED BY <1>6, <1>8, <1>9

LEMMA ScanEndsKeeps == LInv /\ ScanEnds => LInv'
<1> SUFFICES ASSUME LInv, ScanEnds PROVE LInv'
  OBVIOUS
<1> USE DEF LInv
<1>1. GameOK' /\ FrameOK' /\ WorldOK'
  BY DEF ScanEnds, gameVars, GameOK, FrameOK, WorldOK
<1>2. ScanOK'
  <2>1. Cardinality({}) = 0
    BY FS_EmptySet
  <2> QED BY <2>1, Caps DEF ScanEnds, ScanOK, NoLists
<1>3. CacheOK'
  BY DEF ScanEnds, NewLists, ScanOK, CacheOK, WorldOK, ListsOK, ClassesOK, MetaOK, CachedItems, CachedClasses
<1>4. OfWorld'
  BY DEF ScanEnds, OfWorld, NoLists, CachedItems, CachedClasses
<1> QED BY <1>1, <1>2, <1>3, <1>4

(***************************************************************************)
(* The frame.                                                              *)
(***************************************************************************)

\* A list that loses entries keeps to its cap, and an empty one stays empty.
LEMMA KeptSmaller ==
  ASSUME ListsOK, NEW k \in Listed, NEW S
  PROVE  /\ Kept(k, S) \subseteq list[k] /\ Kept(k, S) \in SUBSET Addrs
         /\ Cardinality(Kept(k, S)) <= MaxList[k]
<1>1. list[k] \in SUBSET Addrs /\ Cardinality(list[k]) <= MaxList[k]
  BY DEF ListsOK
<1>2. Kept(k, S) \subseteq list[k]
  BY DEF Kept
<1>3. Cardinality(Kept(k, S)) <= Cardinality(list[k])
  BY <1>1, <1>2, FiniteActors, FS_Subset
<1>4. /\ Cardinality(Kept(k, S)) \in Nat /\ Cardinality(list[k]) \in Nat /\ MaxList[k] \in Nat
  BY <1>1, <1>2, FiniteActors, Caps
<1> QED BY <1>1, <1>2, <1>3, <1>4

LEMMA ShowsKeeps == LInv /\ Shows => LInv'
<1> SUFFICES ASSUME LInv, Shows PROVE LInv'
  OBVIOUS
<1> USE DEF LInv
<1>1. PICK V \in SUBSET Addrs, I \in SUBSET Addrs :
        /\ Fills("vehicle", V) /\ Fills("item", I)
        /\ list' = [list EXCEPT !["vehicle"] = Kept("vehicle", V), !["item"] = Kept("item", I)]
        /\ \E of \in [I -> Names] :
             /\ misread' = (misread \cap CachedItems) \cup {a \in I \ CachedItems : of[a] # ItemName(a)}
             /\ IF {a \in I \ CachedItems : of[a] # ItemName(a)} = {}
                  THEN UNCHANGED fails ELSE fails < MaxFails /\ fails' = fails + 1
             /\ out' = [status |-> "ready", vehicles |-> V,
                        items |-> {[at |-> a, name |-> of[a]] : a \in I}]
             /\ Stores(of, I)
  BY DEF Shows
<1>2. PICK of \in [I -> Names] :
        /\ misread' = (misread \cap CachedItems) \cup {a \in I \ CachedItems : of[a] # ItemName(a)}
        /\ IF {a \in I \ CachedItems : of[a] # ItemName(a)} = {}
             THEN UNCHANGED fails ELSE fails < MaxFails /\ fails' = fails + 1
        /\ out' = [status |-> "ready", vehicles |-> V,
                   items |-> {[at |-> a, name |-> of[a]] : a \in I}]
        /\ Stores(of, I)
  BY <1>1
<1>3. PICK M \in SUBSET (I \ CachedItems) :
        /\ Cardinality(CachedItems \cup M) <= MaxMeta
        /\ meta' = [a \in Addrs |-> IF a \in M THEN [name |-> of[a], world |-> world] ELSE meta[a]]
  BY <1>2 DEF Stores
<1>4. UNCHANGED <<gameVars, world, scanVars, origin, class, unread, mixed>> /\ dpc' = "find"
  BY DEF Shows
<1>5. GameOK' /\ ScanOK' /\ WorldOK'
  <2>1. fails' \in 0..MaxFails
    BY <1>2, LevelCapsAssumption DEF ScanOK
  <2>2. misread' \subseteq Addrs
    BY <1>2 DEF ScanOK
  <2> QED BY <1>4, <2>1, <2>2 DEF gameVars, scanVars, GameOK, ScanOK, WorldOK
<1>6. FrameOK'
  <2>1. Cardinality(V) <= MaxShown["vehicle"] /\ Cardinality(I) <= MaxShown["item"]
    BY <1>1 DEF Fills
  <2> DEFINE T == {[at |-> a, name |-> of[a]] : a \in I}
             f == [a \in I |-> [at |-> a, name |-> of[a]]]
  <2>2. f \in Surjection(I, T)
    BY DEF Surjection
  <2>3. IsFiniteSet(T) /\ Cardinality(T) <= Cardinality(I)
    <3> HIDE DEF T, f
    <3> QED BY <2>2, FiniteActors, FS_Surjection
  <2>4. Cardinality(T) \in Nat
    BY <2>3, FS_CardinalityType
  <2>5. Cardinality(I) \in Nat /\ MaxShown["item"] \in Nat
    BY FiniteActors, Caps DEF Listed
  <2>6. Cardinality(T) <= MaxShown["item"]
    BY <2>1, <2>3, <2>4, <2>5
  <2>7. out'.vehicles = V /\ out'.items = T
    BY <1>2
  <2> QED BY <2>1, <2>6, <2>7 DEF FrameOK
<1>7. ListsOK' /\ (list' # NoLists => list # NoLists)
  <2>1. ListsOK
    BY DEF CacheOK
  <2>2. /\ list' \in [Listed -> SUBSET Addrs]
        /\ list'["vehicle"] = Kept("vehicle", V) /\ list'["item"] = Kept("item", I)
        /\ list'["player"] = list["player"]
    BY <1>1, <2>1, KeptSmaller DEF ListsOK, Listed
  <2>3. \A k \in Listed : Cardinality(list'[k]) <= MaxList[k] /\ list'[k] \subseteq list[k]
    BY <2>1, <2>2, KeptSmaller DEF ListsOK, Listed
  <2>4. list = NoLists => list' = NoLists
    BY <2>2, <2>3 DEF NoLists
  <2> QED BY <2>2, <2>3, <2>4 DEF ListsOK
<1>8. CachedItems' \subseteq CachedItems \cup M
  BY <1>3 DEF CachedItems
<1>9. MetaOK'
  <2>1. Cardinality(CachedItems') <= MaxMeta
    <3>1. CachedItems \cup M \in SUBSET Addrs
      BY <1>3 DEF CachedItems
    <3>2. Cardinality(CachedItems') <= Cardinality(CachedItems \cup M)
      BY <1>8, <3>1, FiniteActors, FS_Subset
    <3>3. CachedItems' \in SUBSET Addrs
      BY <1>8, <3>1
    <3>4. Cardinality(CachedItems') \in Nat /\ Cardinality(CachedItems \cup M) \in Nat
      BY <3>1, <3>3, FiniteActors
    <3> QED BY <1>3, <3>2, <3>4, Caps
  <2>2. ASSUME NEW a \in M PROVE [name |-> of[a], world |-> world]
                                       \in [name : Names, world : Worlds \cup {None}]
    BY <1>2 DEF WorldOK
  <2>3. meta' \in [Addrs -> [name : Names, world : Worlds \cup {None}] \cup {None}]
    BY <1>3, <2>2 DEF CacheOK, MetaOK
  <2> QED BY <2>1, <2>3 DEF MetaOK
<1>10. CacheOK'
  BY <1>4, <1>7, <1>9 DEF CacheOK, ClassesOK, CachedClasses
<1>11. OfWorld'
  <2>1. ASSUME ~mixed, world # None, NEW a \in CachedItems' PROVE meta'[a].world = world
    <3>1. CASE a \in M
      BY <1>3, <3>1
    <3>2. CASE a \notin M
      BY <1>3, <1>8, <2>1, <3>2 DEF OfWorld, CachedItems
    <3> QED BY <3>1, <3>2
  <2> QED BY <1>4, <1>7, <2>1 DEF OfWorld, CachedClasses
<1> QED BY <1>5, <1>6, <1>10, <1>11

LEMMA LevelStep == LInv /\ [Next]_vars => LInv'
<1> SUFFICES ASSUME LInv, [Next]_vars PROVE LInv'
  OBVIOUS
<1>1. CASE Game
  BY <1>1, GameKeeps
<1>2. CASE FindsWorld
  BY <1>2, FindsWorldKeeps
<1>3. CASE LosesWorld
  BY <1>3, LosesWorldKeeps
<1>4. CASE SearchFinds
  BY <1>4, SearchFindsKeeps
<1>5. CASE NoScan \/ ScanStarts \/ ScanRefused \/ ReadsChunk \/ ChunkFails
           \/ \E a \in Addrs : Skips(a)
  BY <1>5, ScanMovesKeeps
<1>6. ASSUME NEW a \in Addrs, Classifies(a) PROVE LInv'
  BY <1>6, ClassifiesKeeps
<1>7. CASE ScanEnds
  BY <1>7, ScanEndsKeeps
<1>8. CASE Shows
  BY <1>8, ShowsKeeps
<1>9. CASE UNCHANGED vars
  BY <1>9 DEF vars, gameVars, scanVars, cacheVars, LInv, GameOK, ScanOK, CacheOK, ListsOK,
     ClassesOK, MetaOK, FrameOK, WorldOK, OfWorld, NoLists, CachedItems, CachedClasses
<1> QED BY <1>1, <1>2, <1>3, <1>4, <1>5, <1>6, <1>7, <1>8, <1>9 DEF Next, RadarTick

(***************************************************************************)
(* The theorems.                                                           *)
(***************************************************************************)

\* No list, cache or frame overflows, whatever the game does during a scan.
THEOREM LevelTypes == Spec => []LevelTypeOK
BY LevelInit, LevelStep, LInvTypes, PTL DEF Spec

\* Lists and item names are of the world a tick works in, also when the game
\* travels between two reads (radar_reader.c:546-572).
THEOREM CachesAreOfWorld == Spec => []CachesOfWorld
<1>1. LInv => CachesOfWorld
  BY DEF LInv, OfWorld, WorldOK, CachesOfWorld
<1> QED BY LevelInit, LevelStep, <1>1, PTL DEF Spec

\* A cached class has the kind its names say in the world the tick works in,
\* unless its name did not read when it was met (radar_reader.c:441-494).
THEOREM ClassesAreRight == Spec => []ClassesRight
<1>1. LInv => ClassesRight
  BY DEF LInv, OfWorld, WorldOK, ClassesRight
<1> QED BY LevelInit, LevelStep, <1>1, PTL DEF Spec

(***************************************************************************)
(* The names of items.                                                     *)
(***************************************************************************)

\* At an address where no actor was created none reads, and nothing is named.
Unused ==
  \A a \in Addrs : uses[a] = 0 =>
    actor[a] = None /\ meta[a] = None /\ \A i \in out.items : i.at # a

\* A name the actor at a may have been given.
GivenTo(a, n) == n = Called(actor[a].cls) \/ (a \in misread /\ n \in Lesser(actor[a].cls))

\* What is named at the address of its first actor, in the cache or in the frame,
\* is named after that actor.
FirstNamed ==
  \A a \in Addrs : actor[a] # None /\ uses[a] = 1 =>
    /\ meta[a] # None => GivenTo(a, meta[a].name)
    /\ \A i \in out.items : i.at = a => GivenTo(a, i.name)

ItemsAt == \A i \in out.items : i.at \in Addrs

NameInv == Unused /\ FirstNamed /\ ItemsAt

LEMMA NameInit == Init => NameInv
BY DEF Init, NoActors, NoMeta, NoFrame, NameInv, Unused, FirstNamed, ItemsAt

\* ItemName is what an item should be called.
LEMMA ItemNameRight ==
  ASSUME NEW a \in Addrs, actor[a] \in Actor
  PROVE  ItemName(a) = Called(actor[a].cls)
<1>1. IdOf[actor[a].cls] \in {"none", "listed", "other"}
  BY ItemsAssumption DEF Actor
<1> QED BY <1>1 DEF ItemName, Named, resolve_item_info, Called

\* Reads that fail give one of the names it may get besides.
LEMMA NamesReadRight ==
  ASSUME NEW a \in Addrs, actor[a] \in Actor, NEW n \in NamesRead(a), n # ItemName(a)
  PROVE  n = Called(actor[a].cls) \/ n \in Lesser(actor[a].cls)
<1>1. IdOf[actor[a].cls] \in {"none", "listed", "other"}
  BY ItemsAssumption DEF Actor
<1> QED BY <1>1 DEF NamesRead, ItemName, Named, resolve_item_info, Called, Lesser

\* The game: an actor is new at its address, or the second one there, or keeps its
\* class.
LEMMA GameNames == ASSUME LInv, NameInv, Game PROVE NameInv'
<1>1. UNCHANGED <<meta, misread, out>>
  BY DEF Game, Arrive, Leave, Spawn, Moves, Destroy, readerVars, cacheVars
<1>2. ASSUME NEW a \in Addrs
      PROVE  \/ uses'[a] = uses[a] /\ actor'[a] = None
             \/ uses'[a] = uses[a] /\ actor[a] # None /\ actor'[a].cls = actor[a].cls
             \/ UNCHANGED <<uses[a], actor[a]>>
             \/ uses'[a] = uses[a] + 1
  <2> USE DEF LInv, GameOK
  <2>1. CASE \E w \in Worlds : Arrive(w)
    BY <2>1 DEF Arrive
  <2>2. CASE Leave
    BY <2>2 DEF Leave, NoActors
  <2>3. ASSUME NEW b \in Addrs, NEW i \in 1..Slots, Spawn(b, i)
        PROVE  UNCHANGED <<uses[a], actor[a]>> \/ uses'[a] = uses[a] + 1
    BY <2>3 DEF Spawn
  <2>4. ASSUME NEW b \in Addrs, Moves(b)
        PROVE  \/ uses'[a] = uses[a] /\ actor[a] # None /\ actor'[a].cls = actor[a].cls
               \/ UNCHANGED <<uses[a], actor[a]>>
    <3>1. actor[b] \in Actor /\ actor[b] # None
      BY <2>4, ActorIsSome DEF Moves, InLevel
    <3>2. PICK p \in {"near", "far", "nowhere"} : actor' = [actor EXCEPT ![b].at = p]
      BY <2>4 DEF Moves
    <3>3. actor'[b].cls = actor[b].cls
      BY <3>1, <3>2 DEF Actor
    <3>4. b # a => actor'[a] = actor[a]
      BY <3>2
    <3> QED BY <2>4, <3>1, <3>3, <3>4 DEF Moves
  <2>5. ASSUME NEW i \in 1..Slots, Destroy(i)
        PROVE  uses'[a] = uses[a] /\ (actor'[a] = None \/ actor'[a] = actor[a])
    BY <2>5 DEF Destroy
  <2> QED BY <2>1, <2>2, <2>3, <2>4, <2>5 DEF Game
<1>3. Unused'
  <2> SUFFICES ASSUME NEW a \in Addrs, uses'[a] = 0
               PROVE  actor'[a] = None /\ meta'[a] = None /\ \A i \in out'.items : i.at # a
    BY DEF Unused
  <2>1. uses[a] \in Nat
    BY DEF LInv, GameOK
  <2>2. uses[a] = 0 /\ actor'[a] = None
    <3>1. uses'[a] # uses[a] + 1
      BY <2>1
    <3> QED BY <1>2, <3>1 DEF NameInv, Unused
  <2> QED BY <1>1, <2>2 DEF NameInv, Unused
<1>4. FirstNamed'
  <2> SUFFICES ASSUME NEW a \in Addrs, actor'[a] # None, uses'[a] = 1
               PROVE  /\ meta'[a] # None => GivenTo(a, meta[a].name)'
                      /\ \A i \in out'.items : i.at = a => GivenTo(a, i.name)'
    BY DEF FirstNamed, GivenTo
  <2>1. uses[a] \in Nat
    BY DEF LInv, GameOK
  <2>2. CASE uses[a] = 1
    <3>1. actor[a] # None /\ actor'[a].cls = actor[a].cls
      <4>1. uses'[a] # uses[a] + 1
        BY <2>2
      <4> QED BY <1>2, <4>1
    <3> QED BY <1>1, <2>2, <3>1 DEF NameInv, FirstNamed, GivenTo
  <2>3. CASE uses[a] = 0
    BY <1>1, <2>3 DEF NameInv, Unused, GivenTo
  <2>4. uses[a] \in {0, 1}
    BY <1>2, <2>1
  <2> QED BY <2>2, <2>3, <2>4
<1> QED BY <1>1, <1>3, <1>4 DEF NameInv, ItemsAt

\* The frame: an item is named from the cache, or as the actor that reads there.
LEMMA ShowsNames == ASSUME LInv, NameInv, Shows PROVE NameInv'
<1>1. PICK V \in SUBSET Addrs, I \in SUBSET Addrs :
        /\ Fills("item", I)
        /\ \E of \in [I -> Names] :
             /\ \A a \in I : IF a \in CachedItems THEN of[a] = meta[a].name
                                                ELSE of[a] \in NamesRead(a)
             /\ misread' = (misread \cap CachedItems) \cup {a \in I \ CachedItems : of[a] # ItemName(a)}
             /\ out' = [status |-> "ready", vehicles |-> V,
                        items |-> {[at |-> a, name |-> of[a]] : a \in I}]
             /\ Stores(of, I)
  BY DEF Shows
<1>2. PICK of \in [I -> Names] :
        /\ \A a \in I : IF a \in CachedItems THEN of[a] = meta[a].name
                                           ELSE of[a] \in NamesRead(a)
        /\ misread' = (misread \cap CachedItems) \cup {a \in I \ CachedItems : of[a] # ItemName(a)}
        /\ out'.items = {[at |-> a, name |-> of[a]] : a \in I}
        /\ Stores(of, I)
  BY <1>1
<1>3. PICK M \in SUBSET (I \ CachedItems) :
        meta' = [a \in Addrs |-> IF a \in M THEN [name |-> of[a], world |-> world] ELSE meta[a]]
  BY <1>2 DEF Stores
<1>4. UNCHANGED <<actor, uses>>
  BY DEF Shows, gameVars
<1>5. ASSUME NEW a \in I PROVE a \in Addrs /\ actor[a] # None /\ actor[a] \in Actor
  BY <1>1 DEF Fills, Near, Placed, LInv, GameOK
\* What is shown without a cached name is given it by what is read now.
<1>6. ASSUME NEW a \in I \ CachedItems
      PROVE  of[a] = Called(actor[a].cls) \/ (a \in misread' /\ of[a] \in Lesser(actor[a].cls))
  <2>1. a \in Addrs /\ actor[a] \in Actor
    BY <1>5
  <2>2. CASE of[a] = ItemName(a)
    <3>1. ItemName(a) = Called(actor[a].cls)
      BY <2>1, ItemNameRight
    <3> QED BY <2>2, <3>1
  <2>3. CASE of[a] # ItemName(a)
    <3>1. a \in misread'
      BY <1>2, <2>3
    <3>2. of[a] \in NamesRead(a)
      BY <1>2
    <3>3. of[a] = Called(actor[a].cls) \/ of[a] \in Lesser(actor[a].cls)
      BY <2>1, <2>3, <3>2, NamesReadRight
    <3> QED BY <3>1, <3>3
  <2> QED BY <2>2, <2>3
<1>7. Unused'
  BY <1>2, <1>3, <1>4, <1>5 DEF NameInv, Unused
<1>8. FirstNamed'
  <2> SUFFICES ASSUME NEW a \in Addrs, actor[a] # None, uses[a] = 1
               PROVE  /\ meta'[a] # None => GivenTo(a, meta[a].name)'
                      /\ \A i \in out'.items : i.at = a => GivenTo(a, i.name)'
    BY <1>4 DEF FirstNamed, GivenTo
  <2>1. meta[a] # None => GivenTo(a, meta[a].name) /\ a \in CachedItems
    BY DEF NameInv, FirstNamed, CachedItems
  <2>2. ASSUME NEW n, GivenTo(a, n), a \in CachedItems
        PROVE  n = Called(actor'[a].cls) \/ (a \in misread' /\ n \in Lesser(actor'[a].cls))
    BY <1>2, <1>4, <2>2 DEF GivenTo
  <2>3. meta'[a] # None => GivenTo(a, meta[a].name)'
    <3>1. CASE a \in M
      <4>1. meta'[a].name = of[a]
        BY <1>3, <3>1
      <4> QED BY <1>3, <1>4, <1>6, <3>1, <4>1 DEF GivenTo
    <3>2. CASE a \notin M
      <4>1. meta'[a] = meta[a]
        BY <1>3, <3>2
      <4> QED BY <2>1, <2>2, <4>1 DEF GivenTo
    <3> QED BY <3>1, <3>2
  <2>4. ASSUME NEW i \in out'.items, i.at = a PROVE GivenTo(a, i.name)'
    <3>1. a \in I /\ i.name = of[a]
      BY <1>2, <2>4
    <3>2. CASE a \in CachedItems
      <4>1. of[a] = meta[a].name /\ meta[a] # None
        BY <1>2, <3>1, <3>2 DEF CachedItems
      <4> QED BY <2>1, <2>2, <3>1, <4>1 DEF GivenTo
    <3>3. CASE a \notin CachedItems
      BY <1>4, <1>6, <3>1, <3>3 DEF GivenTo
    <3> QED BY <3>2, <3>3
  <2> QED BY <2>3, <2>4
<1>9. ItemsAt'
  BY <1>2 DEF ItemsAt
<1> QED BY <1>7, <1>8, <1>9 DEF NameInv

\* Every other step forgets names, or leaves them alone.
LEMMA NameStep == LInv /\ NameInv /\ [Next]_vars => NameInv'
<1> SUFFICES ASSUME LInv, NameInv, [Next]_vars PROVE NameInv'
  OBVIOUS
<1>1. CASE Game
  BY <1>1, GameNames
<1>2. CASE Shows
  BY <1>2, ShowsNames
<1>3. ASSUME UNCHANGED <<actor, uses, misread>>, meta' = meta \/ meta' = NoMeta,
             out'.items = out.items \/ out'.items = {}
      PROVE  NameInv'
  <2>1. \A a \in Addrs : meta'[a] = meta[a] \/ meta'[a] = None
    BY <1>3 DEF NoMeta
  <2> QED BY <1>3, <2>1 DEF NameInv, Unused, FirstNamed, ItemsAt, GivenTo
<1>4. CASE FindsWorld \/ LosesWorld \/ SearchFinds
  BY <1>3, <1>4 DEF FindsWorld, LosesWorld, SearchFinds, ClearCaches, NoFrame, gameVars, cacheVars
<1>5. CASE NoScan \/ ScanStarts \/ ScanRefused \/ ReadsChunk \/ ChunkFails \/ ScanEnds
           \/ \E a \in Addrs : Classifies(a) \/ Skips(a)
  BY <1>3, <1>5 DEF NoScan, ScanStarts, ScanRefused, ReadsChunk, ChunkFails, ScanEnds, Classifies,
     Skips, gameVars, cacheVars
<1>6. CASE UNCHANGED vars
  BY <1>3, <1>6 DEF vars, gameVars, cacheVars
<1> QED BY <1>1, <1>2, <1>4, <1>5, <1>6 DEF Next, RadarTick

\* An item is published under the name of the actor at its address, from the cache
\* or not, as long as it is the first actor there: however the game spawns, moves
\* and destroys actors and travels, and whatever the caches dropped
\* (radar_reader.c:967-1018).
THEOREM ItemNamesAreRight == Spec => []ItemNamesRight
<1>1. NameInv => ItemNamesRight
  BY DEF NameInv, FirstNamed, ItemsAt, ItemNamesRight, GivenTo
<1> QED BY LevelInit, LevelStep, NameInit, NameStep, <1>1, PTL DEF Spec
=============================================================================
