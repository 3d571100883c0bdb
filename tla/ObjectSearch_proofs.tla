------------------------ MODULE ObjectSearch_proofs ------------------------
(***************************************************************************)
(* What the search takes for the local player is one: for any array, any   *)
(* number of classes, any way they share the buckets of the cache and any  *)
(* reads that fail.                                                        *)
(***************************************************************************)
EXTENDS ObjectSearch, TLAPS

\* The parts of the type invariant that the argument needs.
CacheType ==
  /\ len \in 1..N
  /\ mem \in [Indices -> Instances \cup {TheClass, None}]
  /\ cursor \in Int /\ upto \in Int /\ upto <= len
  /\ key \in [Buckets -> Classes \cup {None}] /\ match \in [Buckets -> BOOLEAN]

\* A 'yes' of the cache is right about its class; a 'no' need not be, for a read
\* that fails ends the walk along the super chain.
YesRight == \A c \in Classes : Hit(c) /\ match[BucketOf[c]] => c \in PlayerClasses

SearchInv == CacheType /\ YesRight

\* The cache starts empty.
LEMMA SearchInit == Init => SearchInv
<1> SUFFICES ASSUME Init PROVE SearchInv
  OBVIOUS
<1>1. CacheType
  BY ArrayAssumption DEF Init, CacheType, Indices
<1>2. YesRight
  BY NoClassAssumption, BucketAssumption DEF Init, YesRight, Hit
<1> QED BY <1>1, <1>2 DEF SearchInv

\* A verdict says yes of the player's classes only.
LEMMA VerdictsRight ==
  ASSUME SearchInv, NEW c \in Classes, NEW v \in Verdicts(c)
  PROVE  v.match \in BOOLEAN /\ (v.match => c \in PlayerClasses)
<1>1. BucketOf[c] \in Buckets
  BY BucketAssumption
<1>2. CASE Hit(c)
  <2>1. v.match = match[BucketOf[c]]
    BY <1>2 DEF Verdicts
  <2> QED BY <1>1, <1>2, <2>1 DEF SearchInv, CacheType, YesRight
<1>3. CASE ~Hit(c)
  <2>1. v \in Chain(c)
    BY <1>3 DEF Verdicts
  <2>2. v.match = (c \in PlayerClasses) \/ v.match = FALSE
    BY <2>1 DEF Chain
  <2>3. (c \in PlayerClasses) \in BOOLEAN
    OBVIOUS
  <2> QED BY <2>2, <2>3
<1> QED BY <1>2, <1>3

\* Where the search looks the array has an index.
LEMMA LookedAt ==
  ASSUME SearchInv, Looking
  PROVE  cursor \in Indices /\ cursor < upto /\ Object \in Instances \cup {TheClass, None}
<1>1. cursor \in Indices /\ cursor < upto
  BY ArrayAssumption DEF SearchInv, CacheType, Looking, Searches, Past, Indices
<1> QED BY <1>1 DEF SearchInv, CacheType, Object

\* The object judged has a class and is no default object.
LEMMA JudgedObject ==
  ASSUME SearchInv, Looking, Judged
  PROVE  Object # None /\ Object.cls \in Classes /\ ~Object.cdo /\ Object = mem[cursor]
<1>1. Object # None /\ Object.cls \in Classes /\ ~Object.cdo
  BY LookedAt, ClassAssumption DEF Judged, Instances, TheClass
<1> QED BY <1>1 DEF Object

\* Judging a class keeps every yes right, for it and for those it displaces.
LEMMA JudgeKeeps ==
  ASSUME SearchInv, NEW c \in Classes, NEW v \in Verdicts(c), Judge(c, v)
  PROVE  YesRight' /\ key' \in [Buckets -> Classes \cup {None}]
                   /\ match' \in [Buckets -> BOOLEAN]
<1>1. BucketOf[c] \in Buckets
  BY BucketAssumption
<1>2. v.match \in BOOLEAN /\ (v.match => c \in PlayerClasses)
  BY VerdictsRight
<1>3. key' \in [Buckets -> Classes \cup {None}]
  BY <1>1 DEF Judge, SearchInv, CacheType
<1>4. match' \in [Buckets -> BOOLEAN]
  BY <1>1, <1>2 DEF Judge, SearchInv, CacheType
<1>5. ASSUME NEW d \in Classes, Hit(d)', match'[BucketOf[d]]
      PROVE  d \in PlayerClasses
  <2>1. CASE BucketOf[d] = BucketOf[c]
    <3>1. d = c
      BY <1>1, <1>5, <2>1 DEF Judge, Hit, SearchInv, CacheType
    <3>2. v.match
      BY <1>1, <1>5, <2>1 DEF Judge, SearchInv, CacheType
    <3> QED BY <1>2, <3>1, <3>2
  <2>2. CASE BucketOf[d] # BucketOf[c]
    BY <1>5, <2>2, BucketAssumption DEF Judge, Hit, SearchInv, CacheType, YesRight
  <2> QED BY <2>1, <2>2
<1>6. YesRight'
  BY <1>5 DEF YesRight
<1> QED BY <1>3, <1>4, <1>6

\* A call moves its count only to let it go.
LEMMA AdvanceKeeps ==
  ASSUME SearchInv, NEW c \in Int, NEW h \in BOOLEAN, Advance(c, h), UNCHANGED len
  PROVE  cursor' \in Int /\ upto' \in Int /\ upto' <= len'
  BY ArrayAssumption DEF Advance, SearchInv, CacheType

\* Every step keeps every yes right.
LEMMA SearchNext == SearchInv /\ [Next]_vars => SearchInv'
<1> SUFFICES ASSUME SearchInv, [Next]_vars PROVE SearchInv'
  OBVIOUS
<1>0. UNCHANGED <<key, match>> => YesRight'
  BY DEF SearchInv, YesRight, Hit
<1> USE DEF gameVars, cacheVars, callVars
<1>1. ASSUME NEW i \in Indices, Allocate(i) PROVE SearchInv'
  <2>1. len' \in 1..N /\ len <= len'
    BY <1>1, ArrayAssumption DEF Allocate, SearchInv, CacheType, Indices
  <2>2. mem' \in [Indices -> Instances \cup {TheClass, None}]
    BY <1>1 DEF Allocate, SearchInv, CacheType
  <2>3. UNCHANGED <<cursor, upto, key, match>>
    BY <1>1 DEF Allocate, Changes
  <2>4. upto' <= len'
    BY <2>1, <2>3, ArrayAssumption DEF SearchInv, CacheType
  <2> QED BY <1>0, <2>1, <2>2, <2>3, <2>4 DEF SearchInv, CacheType
<1>2. ASSUME NEW i \in Indices, Free(i) PROVE SearchInv'
  BY <1>0, <1>2 DEF Free, Changes, SearchInv, CacheType
<1>3. ASSUME NEW i \in Indices, Relink(i) PROVE SearchInv'
  <2>1. PICK l \in {"none", "world", "full"} : mem' = [mem EXCEPT ![i].link = l]
    BY <1>3 DEF Relink
  <2>2. mem[i] \in Instances
    BY <1>3 DEF Relink, SearchInv, CacheType
  <2>3. [mem[i] EXCEPT !.link = l] \in Instances
    BY <2>2 DEF Instances
  <2>4. mem' \in [Indices -> Instances \cup {TheClass, None}]
    BY <2>1, <2>3 DEF SearchInv, CacheType
  <2> QED BY <1>0, <1>3, <2>4 DEF Relink, Changes, SearchInv, CacheType
<1>4. CASE Exhausted \/ NotRead \/ StartOver \/ Loses
  <2>1. cursor' \in {-1, 0} /\ UNCHANGED <<gameVars, callVars, cacheVars>>
    BY <1>4 DEF Exhausted, NotRead, StartOver, Wrap, Loses
  <2> QED BY <1>0, <2>1 DEF SearchInv, CacheType
<1>5. CASE Begins
  BY <1>0, <1>5 DEF Begins, SearchInv, CacheType
<1>6. CASE FindsClass
  <2>1. cursor' \in Int /\ upto' \in Int /\ upto' <= len'
    <3>1. Advance(0, FALSE) /\ UNCHANGED len
      BY <1>6 DEF FindsClass
    <3>2. 0 \in Int /\ FALSE \in BOOLEAN
      OBVIOUS
    <3> QED BY <3>1, <3>2, AdvanceKeeps
  <2> QED BY <1>0, <1>6, <2>1 DEF FindsClass, SearchInv, CacheType
<1>7. CASE FindsPlayer \/ Refuses \/ Rejects
  <2>1. PICK h \in BOOLEAN, v \in Verdicts(Object.cls) :
          /\ Looking /\ Judged /\ Judge(Object.cls, v)
          /\ Advance(cursor + 1, h) /\ UNCHANGED gameVars
    BY <1>7 DEF FindsPlayer, Refuses, Rejects
  <2>2. cursor + 1 \in Int
    BY DEF SearchInv, CacheType
  <2>3. cursor' \in Int /\ upto' \in Int /\ upto' <= len'
    BY <2>1, <2>2, AdvanceKeeps
  <2>4. YesRight' /\ key' \in [Buckets -> Classes \cup {None}] /\ match' \in [Buckets -> BOOLEAN]
    BY <2>1, JudgedObject, JudgeKeeps
  <2> QED BY <2>1, <2>3, <2>4 DEF SearchInv, CacheType
<1>8. CASE PassesOver
  <2>1. cursor + 1 \in Int
    BY DEF SearchInv, CacheType
  <2>2. cursor' \in Int /\ upto' \in Int /\ upto' <= len'
    BY <1>8, <2>1, AdvanceKeeps DEF PassesOver
  <2> QED BY <1>0, <1>8, <2>2 DEF PassesOver, SearchInv, CacheType
<1>9. CASE UNCHANGED vars
  BY <1>0, <1>9 DEF vars, SearchInv, CacheType
<1> QED BY <1>1, <1>2, <1>3, <1>4, <1>5, <1>6, <1>7, <1>8, <1>9 DEF Next, Searching

\* The step that finds a local player finds a linked instance of its class or
\* of one derived from it.
LEMMA FoundStep ==
  SearchInv /\ [Next]_vars => (lp = None /\ lp' # None => IsPlayer(mem'[lp']))
<1> SUFFICES ASSUME SearchInv, [Next]_vars, lp = None, lp' # None
             PROVE  IsPlayer(mem'[lp'])
  OBVIOUS
<1>1. FindsPlayer
  BY DEF Next, Searching, vars, gameVars, cacheVars, Changes, Allocate, Free, Relink, Exhausted,
         NotRead, Begins, StartOver, FindsClass, Refuses, Rejects, PassesOver, Loses
<1>2. Object # None /\ Object.cls \in Classes /\ ~Object.cdo /\ Object = mem[cursor]
  BY <1>1, JudgedObject DEF FindsPlayer
<1>3. Object.cls \in PlayerClasses
  BY <1>1, <1>2, VerdictsRight DEF FindsPlayer
<1>4. mem'[lp'] = Object
  BY <1>1, <1>2 DEF FindsPlayer, gameVars
<1> QED BY <1>1, <1>2, <1>3, <1>4 DEF FindsPlayer, IsPlayer

\* Whatever the classes, the sharing of the buckets, the failed reads and the
\* game's changes to the array, what find_world takes for the local player is one.
THEOREM SearchFindsPlayer == Spec => FoundIsPlayer
<1>1. Init => SearchInv
  BY SearchInit
<1>2. SearchInv /\ [Next]_vars => SearchInv'
  BY SearchNext
<1>3. SearchInv /\ [Next]_vars => [lp = None /\ lp' # None => IsPlayer(mem'[lp'])]_vars
  BY FoundStep
<1> QED BY <1>1, <1>2, <1>3, PTL DEF Spec, FoundIsPlayer

\* The rest of the type invariant.
CursorType ==
  /\ changes \in 0..MaxChanges /\ fails \in 0..MaxFails
  /\ live \subseteq Indices /\ spare \in BOOLEAN
  /\ cursor \in -1..N /\ cursor <= len
  /\ left \in 0..BatchSize /\ upto \in 0..N /\ batch \subseteq Indices
  /\ known \in BOOLEAN /\ lp \in Indices \cup {None}

\* A call ends at the count it began with or before.
LEMMA AdvanceType ==
  ASSUME SearchInv, CursorType, Looking, NEW c \in {0, cursor + 1}, NEW h \in BOOLEAN,
         Advance(c, h), UNCHANGED len
  PROVE  /\ cursor' \in -1..N /\ cursor' <= len'
         /\ left' \in 0..BatchSize /\ upto' \in 0..N /\ batch' \subseteq Indices
<1>1. cursor \in Indices /\ cursor < upto /\ upto <= len /\ len \in 1..N
  BY LookedAt DEF SearchInv, CacheType
<1>2. N \in Nat /\ BatchSize \in Nat /\ upto \in 0..N /\ cursor \in -1..N
  BY ArrayAssumption DEF CursorType
<1>3. c \in 0..N /\ c <= len
  <2>1. CASE c = 0
    BY <1>1, <1>2, <2>1
  <2>2. CASE c = cursor + 1
    <3>1. cursor \in 0..(N - 1) /\ len \in 1..N
      BY <1>1 DEF Indices
    <3> QED BY <1>1, <1>2, <2>2, <3>1
  <2> QED BY <2>1, <2>2
<1>4. left \in 0..BatchSize /\ left > 0
  BY DEF Looking, CursorType
<1>5. cursor' \in {-1, c}
  BY DEF Advance
<1>6. left' \in 0..BatchSize
  BY <1>2, <1>4 DEF Advance
<1>7. upto' \in 0..N /\ batch' \subseteq Indices
  BY <1>2 DEF Advance, CursorType
<1> QED BY <1>1, <1>2, <1>3, <1>5, <1>6, <1>7

\* A verdict costs at most one failed read.
LEMMA VerdictsCost ==
  ASSUME CursorType, NEW c, NEW v \in Verdicts(c)
  PROVE  v.fails \in 0..MaxFails
<1>1. CASE Hit(c)
  BY <1>1 DEF Verdicts, CursorType
<1>2. CASE ~Hit(c)
  <2>1. v \in Chain(c)
    BY <1>2 DEF Verdicts
  <2>2. v.fails = fails \/ v.fails \in {fails + 1} \cap 0..MaxFails
    BY <2>1 DEF Chain
  <2> QED BY <2>2 DEF CursorType
<1> QED BY <1>1, <1>2

\* No step moves the cursor past the end of the array, which only grows.
LEMMA CursorNext == SearchInv /\ CursorType /\ [Next]_vars => CursorType'
<1> SUFFICES ASSUME SearchInv, CursorType, [Next]_vars PROVE CursorType'
  OBVIOUS
<1> USE DEF gameVars, cacheVars, callVars
<1>1. len \in 1..N /\ N \in Nat /\ BatchSize \in Nat \ {0}
  BY ArrayAssumption DEF SearchInv, CacheType
<1>f. Reads \/ Fails => fails' \in 0..MaxFails
  BY BoundsAssumption DEF Reads, Fails, CursorType
<1>2. ASSUME NEW i \in Indices, Allocate(i) \/ Free(i) \/ Relink(i) PROVE CursorType'
  <2>1. changes' \in 0..MaxChanges
    BY <1>2, BoundsAssumption DEF Allocate, Free, Relink, Changes, CursorType
  <2>2. UNCHANGED <<fails, cursor, left, upto, batch, known, lp>>
    BY <1>2 DEF Allocate, Free, Relink, Changes
  <2>3. len' \in Int /\ len <= len'
    BY <1>1, <1>2 DEF Allocate, Free, Relink
  <2>4. live' \subseteq Indices /\ spare' \in BOOLEAN
    BY <1>2 DEF Allocate, Free, Relink, CursorType
  <2> QED BY <1>1, <2>1, <2>2, <2>3, <2>4 DEF CursorType
<1>3. CASE Exhausted \/ NotRead \/ StartOver \/ Loses
  <2>1. cursor' \in {-1, 0} /\ UNCHANGED <<len, live, spare, changes, left, upto, batch, known>>
    BY <1>3 DEF Exhausted, NotRead, StartOver, Wrap, Loses
  <2>2. lp' \in Indices \cup {None}
    BY <1>3 DEF Exhausted, NotRead, StartOver, Loses, CursorType
  <2>3. fails' \in 0..MaxFails
    BY <1>3, <1>f DEF Exhausted, NotRead, StartOver, Loses, CursorType
  <2> QED BY <1>1, <2>1, <2>2, <2>3 DEF CursorType
<1>4. CASE Begins
  <2>1. left' = BatchSize /\ upto' = len
    BY <1>4 DEF Begins
  <2>2. batch' \subseteq Indices /\ fails' \in 0..MaxFails
    BY <1>4, <1>f DEF Begins, Piece, CursorType
  <2>3. UNCHANGED <<len, live, spare, changes, cursor, known, lp>>
    BY <1>4 DEF Begins
  <2> QED BY <1>1, <2>1, <2>2, <2>3 DEF CursorType
<1>5. CASE FindsClass \/ PassesOver
  <2>1. PICK c \in {0, cursor + 1} : Looking /\ Advance(c, FALSE)
    BY <1>5 DEF FindsClass, PassesOver
  <2>2. UNCHANGED <<len, live, spare, changes, lp>> /\ known' \in BOOLEAN
    BY <1>5 DEF FindsClass, PassesOver, CursorType
  <2>3. fails' \in 0..MaxFails
    BY <1>5, <1>f DEF FindsClass, PassesOver
  <2> QED BY <2>1, <2>2, <2>3, AdvanceType DEF CursorType
<1>6. CASE FindsPlayer \/ Refuses \/ Rejects
  <2>1. PICK h \in BOOLEAN : Looking /\ Advance(cursor + 1, h)
    BY <1>6 DEF FindsPlayer, Refuses, Rejects
  <2>2. UNCHANGED <<len, live, spare, changes, known>>
    BY <1>6 DEF FindsPlayer, Refuses, Rejects, Judge
  <2>3. fails' \in 0..MaxFails
    BY <1>6, <1>f, VerdictsCost DEF FindsPlayer, Refuses, Rejects
  <2>4. lp' \in Indices \cup {None}
    BY <1>6, <2>1, LookedAt DEF FindsPlayer, Refuses, Rejects, CursorType
  <2> QED BY <2>1, <2>2, <2>3, <2>4, AdvanceType DEF CursorType
<1>7. CASE UNCHANGED vars
  BY <1>7 DEF vars, CursorType
<1> QED BY <1>2, <1>3, <1>4, <1>5, <1>6, <1>7 DEF Next, Searching

\* The cursor, the count of a call and the caches of the search keep their types
\* and bounds, whatever the game appends to the array between two calls
\* (ue4_reflection.c:749-792).
THEOREM SearchTypes == Spec => []SearchTypeOK
<1>1. Init => SearchInv
  BY SearchInit
<1>2. Init => CursorType
  <2> SUFFICES ASSUME Init PROVE CursorType
    OBVIOUS
  <2>1. /\ len \in 1..N /\ cursor = 0 /\ changes = 0 /\ fails = 0
        /\ left = 0 /\ upto = 0 /\ batch = {} /\ spare = FALSE /\ known = FALSE /\ lp = None
    BY DEF Init
  <2>2. live \subseteq Indices
    BY DEF Init
  <2>3. changes \in 0..MaxChanges /\ fails \in 0..MaxFails /\ left \in 0..BatchSize
    BY <2>1, ArrayAssumption, BoundsAssumption
  <2>4. cursor \in -1..N /\ cursor <= len /\ upto \in 0..N
    BY <2>1, ArrayAssumption
  <2> QED BY <2>1, <2>2, <2>3, <2>4 DEF CursorType
<1>3. SearchInv /\ [Next]_vars => SearchInv'
  BY SearchNext
<1>4. SearchInv /\ CursorType /\ [Next]_vars => CursorType'
  BY CursorNext
<1>5. SearchInv /\ CursorType => SearchTypeOK
  BY DEF SearchInv, CacheType, CursorType, SearchTypeOK
<1> QED BY <1>1, <1>2, <1>3, <1>4, <1>5, PTL DEF Spec
=============================================================================
