------------------------- MODULE ReaderCache_proofs -------------------------
(***************************************************************************)
(* Proofs about radar_tick's caches, for any number of actors, worlds and  *)
(* teams and any sizes of the arrays.                                      *)
(***************************************************************************)
EXTENDS ReaderCache, Functions, FiniteSetTheorems, TLAPS

(***************************************************************************)
(* The invariant.                                                          *)
(***************************************************************************)

\* TypeOK in three parts: the game, the tick, and the arrays with their sizes.
GameType ==
  /\ view \in Worlds \cup {None} /\ team \in Teams \cup {0}
  /\ actor \in [Actors -> Character \cup {None}] /\ spawns \in 0..MaxSpawns
TickType ==
  /\ world \in Worlds \cup {None} /\ dpc \in {"find", "scan", "players"}
  /\ {cachedTeam, frameTeam, out.team} \subseteq Teams \cup {0}
  /\ {lp, due, mixed, named} \subseteq BOOLEAN
  /\ fails \in 0..MaxFails
ArrayType ==
  /\ meta \in [Actors -> Entry \cup {None}] /\ Cardinality(Cached) <= MaxMeta
  /\ chars \subseteq Actors /\ Cardinality(chars) <= MaxChars
  /\ Cardinality(out.players) <= MaxPlayers
  /\ judged \in [Classes -> {"new", "player", "ignored"}]

LEMMA TypeParts == TypeOK <=> GameType /\ TickType /\ ArrayType
  BY DEF TypeOK, GameType, TickType, ArrayType

\* An actor is in the world the game shows; there is none between two worlds.
ActorsInView ==
  \A a \in Actors : actor[a] # None => view # None /\ actor[a].world = view

\* During a tick the world is known, and the game may leave it but is in no
\* other; a LocalPlayer that is known has led to a world.
TickWorld == /\ dpc # "find" => world # None /\ view \in {None, world}
             /\ lp => world # None

\* Between ticks too, unless the world was lost and found again by search.
MetaRight ==
  ~mixed /\ world # None => \A a \in Cached : meta[a].world = world

\* A team that was published is kept, and a tick falls back to it.
TeamKept == /\ named => cachedTeam # 0
            /\ dpc # "find" => frameTeam = cachedTeam
            /\ named /\ out.status = "ready" => out.team # 0

ReaderInv == /\ GameType /\ TickType /\ ArrayType
             /\ ActorsInView /\ TickWorld /\ MetaRight /\ TeamKept

(***************************************************************************)
(* The helpers.                                                            *)
(***************************************************************************)

\* Fewer entries never overflow an array.
LEMMA Fewer ==
  ASSUME NEW S \in SUBSET Actors, NEW T \in SUBSET S
  PROVE  Cardinality(T) \in Nat /\ Cardinality(T) <= Cardinality(S) /\ Cardinality(S) \in Nat
<1>1. IsFiniteSet(S)
  BY ActorsAssumption, FS_Subset
<1> QED BY <1>1, FS_Subset, FS_CardinalityType

\* What the tick reads about a character, all of it or not, is an entry of the
\* world it works in.
LEMMA ReadsOwnWorld ==
  ASSUME ReaderInv, dpc = "players", NEW a \in Actors, NEW e \in Misreads(a)
  PROVE  e \in Entry /\ e.world = world
<1> USE DEF ReaderInv
<1>1. PICK t \in Teams \cup {0}, b \in BOOLEAN : e = EntryOf(a, t, b)
  <2>1. CASE actor[a] # None /\ actor[a].state
    <3>1. actor[a] \in Character
      BY <2>1 DEF GameType
    <3>2. PICK t \in {0, actor[a].team}, b \in {FALSE, actor[a].bot} : e = EntryOf(a, t, b)
      <4> DEFINE all == actor[a] # None /\ actor[a].state
                 T == {0, actor[a].team}
                 B == {FALSE, actor[a].bot}
      <4>1. Misreads(a) = IF all THEN {EntryOf(a, t, b) : t \in T, b \in B}
                                 ELSE {EntryOf(a, 0, FALSE)}
        BY DEF Misreads
      <4> HIDE DEF T, B, all
      <4>2. all
        BY <2>1 DEF all
      <4>3. e \in {EntryOf(a, t, b) : t \in T, b \in B}
        BY <4>1, <4>2
      <4>4. \E t \in T, b \in B : e = EntryOf(a, t, b)
        BY <4>3
      <4> QED BY <4>4 DEF T, B
    <3>3. t \in Teams \cup {0} /\ b \in BOOLEAN
      BY <3>1, BotsAssumption DEF Character
    <3> QED BY <3>2, <3>3
  <2>2. CASE ~(actor[a] # None /\ actor[a].state)
    <3> DEFINE all == actor[a] # None /\ actor[a].state
               S == {EntryOf(a, t, b) : t \in {0, actor[a].team}, b \in {FALSE, actor[a].bot}}
    <3>1. Misreads(a) = IF all THEN S ELSE {EntryOf(a, 0, FALSE)}
      BY DEF Misreads
    <3> HIDE DEF S, all
    <3>2. ~all
      BY <2>2 DEF all
    <3>3. e = EntryOf(a, 0, FALSE)
      BY <3>1, <3>2, Zenon
    <3> QED BY <3>3, Zenon
  <2> QED BY <2>1, <2>2
<1> DEFINE w == IF actor[a] = None THEN world ELSE actor[a].world
           c == b /\ ~(frameTeam # 0 /\ t = frameTeam)
<1>2. e = [team |-> t, world |-> w, bot |-> c]
  BY <1>1 DEF EntryOf
<1>3. w = world /\ w \in Worlds
  BY DEF ActorsInView, TickWorld, TickType
<1>4. c \in BOOLEAN
  OBVIOUS
<1> HIDE DEF w, c
<1> QED BY <1>2, <1>3, <1>4 DEF Entry

\* The bounded count of the steps in which reads fail.
LEMMA FailsType == ASSUME fails \in 0..MaxFails, Reads \/ Fails PROVE fails' \in 0..MaxFails
  BY FailsAssumption DEF Reads, Fails

\* Cleared caches fit.
LEMMA Cleared ==
  ASSUME ClearCaches
  PROVE  /\ chars' \subseteq Actors /\ Cardinality(chars') <= MaxChars
         /\ meta' \in [Actors -> Entry \cup {None}] /\ Cached' = {}
         /\ judged' \in [Classes -> {"new", "player", "ignored"}]
         /\ Cardinality(Cached') <= MaxMeta /\ mixed' = FALSE
<1>1. Cached' = {} /\ meta' \in [Actors -> Entry \cup {None}]
  BY DEF ClearCaches, NoMeta, Cached
<1>2. Cardinality({}) = 0 /\ 0 <= MaxChars /\ 0 <= MaxMeta
  BY FS_EmptySet, CapsAssumption
<1> QED BY <1>1, <1>2 DEF ClearCaches, NoClass

\* The frame that says nothing.
LEMMA EmptyFrame == NoFrame.team = 0 /\ NoFrame.status = "starting"
                    /\ Cardinality(NoFrame.players) <= MaxPlayers
  BY FS_EmptySet, CapsAssumption DEF NoFrame

(***************************************************************************)
(* The invariant is inductive.                                             *)
(***************************************************************************)

\* No actor, no world, no entry.
LEMMA ReaderInit == Init => ReaderInv
<1> SUFFICES ASSUME Init PROVE ReaderInv
  OBVIOUS
<1>1. GameType
  BY CapsAssumption DEF Init, GameType
<1>2. TickType
  <2>1. fails \in 0..MaxFails
    BY FailsAssumption DEF Init
  <2> QED BY <2>1, EmptyFrame DEF Init, TickType
<1>3. ArrayType
  <2>1. Cached = {}
    BY DEF Init, Cached, NoMeta
  <2>2. Cardinality({}) = 0 /\ 0 <= MaxChars /\ 0 <= MaxMeta
    BY FS_EmptySet, CapsAssumption
  <2> QED BY <2>1, <2>2, EmptyFrame DEF Init, ArrayType, NoMeta, NoClass
<1>4. ActorsInView /\ TickWorld /\ MetaRight /\ TeamKept
  BY EmptyFrame DEF Init, ActorsInView, TickWorld, MetaRight, TeamKept
<1> QED BY <1>1, <1>2, <1>3, <1>4 DEF ReaderInv

\* A step of the game, between any two of the tick.
LEMMA GameKeeps == ReaderInv /\ Game => ReaderInv'
<1> SUFFICES ASSUME ReaderInv, Game PROVE ReaderInv'
  OBVIOUS
<1> USE DEF readerVars, cacheVars, teamVars, outVars, ReaderInv
<1>1. UNCHANGED <<fails, dpc, lp, world, due, cacheVars, teamVars, outVars>>
  BY DEF Game, Arrive, Leave, LearnTeam, Spawn, Change, Free
<1>2. TickType' /\ TeamKept'
  BY <1>1 DEF TickType, TeamKept
<1>3. ArrayType' /\ MetaRight'
  BY <1>1 DEF ArrayType, MetaRight, Cached
<1>4. TickWorld'
  BY <1>1 DEF TickWorld, Game, Arrive, Leave, LearnTeam, Spawn, Change, Free
<1>5. GameType' /\ ActorsInView'
  <2> USE DEF GameType, ActorsInView
  <2>1. ASSUME NEW w \in Worlds, Arrive(w) PROVE GameType' /\ ActorsInView'
    BY <2>1 DEF Arrive
  <2>2. CASE Leave
    BY <2>2 DEF Leave
  <2>3. CASE LearnTeam
    BY <2>3 DEF LearnTeam
  <2>4. ASSUME NEW a \in Actors, Spawn(a) PROVE GameType' /\ ActorsInView'
    <3>1. PICK c \in Character : c.world = view /\ actor' = [actor EXCEPT ![a] = c]
      BY <2>4 DEF Spawn
    <3>3. spawns' \in 0..MaxSpawns
      BY <2>4, CapsAssumption DEF Spawn
    <3> QED BY <2>4, <3>1, <3>3 DEF Spawn
  <2>5. ASSUME NEW a \in Actors, Change(a) PROVE GameType' /\ ActorsInView'
    <3>1. actor[a] \in Character /\ actor[a] # None
      BY <2>5 DEF Change
    <3>2. PICK r \in Character : actor' = [actor EXCEPT ![a] = r] /\ r.world = actor[a].world
      <4>1. [actor[a] EXCEPT !.state = TRUE] \in Character
        BY <3>1 DEF Character
      <4>2. [actor[a] EXCEPT !.placed = ~@] \in Character
        BY <3>1 DEF Character
      <4> QED BY <2>5, <3>1, <4>1, <4>2 DEF Change, Character
    <3> QED BY <2>5, <3>1, <3>2 DEF Change
  <2>6. ASSUME NEW a \in Actors, Free(a) PROVE GameType' /\ ActorsInView'
    BY <2>6 DEF Free
  <2> QED BY <2>1, <2>2, <2>3, <2>4, <2>5, <2>6 DEF Game
<1> QED BY <1>2, <1>3, <1>4, <1>5

\* The ways a tick gets its world, or does not.
LEMMA FindKeeps ==
  ReaderInv /\ (FindsWorld \/ LosesWorld \/ StillSearching \/ SearchFinds) => ReaderInv'
<1> USE DEF ReaderInv, gameVars, cacheVars, teamVars, outVars
<1>p. ASSUME ReaderInv, Proceed, world' = view, lp' = TRUE \/ lp' = lp, UNCHANGED <<due, view>>,
             mixed' \in BOOLEAN, view # None
      PROVE  TickType' /\ TickWorld' /\ TeamKept' /\ Cardinality(out'.players) <= MaxPlayers
  <2>1. fails' \in 0..MaxFails
    BY <1>p, FailsType DEF Proceed, TickType
  <2>2. PICK t \in Teams \cup {0} : \/ LocalTeam(t) /\ dpc' = "scan" /\ UNCHANGED outVars
                                   \/ NothingYet
    BY <1>p DEF Proceed, GameType
  <2>3. CASE LocalTeam(t) /\ dpc' = "scan" /\ UNCHANGED outVars
    BY <1>p, <2>1, <2>3 DEF LocalTeam, TickType, TickWorld, TeamKept, GameType, ArrayType
  <2>4. CASE NothingYet
    BY <1>p, <2>1, <2>4, EmptyFrame DEF NothingYet, TickType, TickWorld, TeamKept, GameType
  <2> QED BY <2>2, <2>3, <2>4
<1>1. ASSUME ReaderInv, FindsWorld PROVE ReaderInv'
  <2>1. GameType' /\ ActorsInView'
    BY <1>1 DEF FindsWorld, GameType, ActorsInView
  <2>2. TickType' /\ TickWorld' /\ TeamKept' /\ Cardinality(out'.players) <= MaxPlayers
    <3>1. mixed' \in BOOLEAN
      BY <1>1, Cleared DEF FindsWorld, TickType
    <3> QED BY <1>1, <3>1, <1>p DEF FindsWorld
  <2>3. CASE Changed
    BY <1>1, <2>1, <2>2, <2>3, Cleared DEF FindsWorld, ArrayType, MetaRight
  <2>4. CASE ~Changed
    <3>1. world' = world
      BY <1>1, <2>4 DEF FindsWorld, Changed, TickWorld
    <3> QED BY <1>1, <2>1, <2>2, <2>4, <3>1 DEF FindsWorld, ArrayType, MetaRight, Cached
  <2> QED BY <2>3, <2>4
<1>2. ASSUME ReaderInv, LosesWorld \/ StillSearching PROVE ReaderInv'
  <2>1. GameType' /\ ActorsInView' /\ MetaRight'
    BY <1>2 DEF LosesWorld, StillSearching, GameType, ActorsInView, MetaRight
  <2>2. TickType' /\ TickWorld' /\ TeamKept'
    <3>1. lp' = FALSE \/ (lp' = lp /\ ~lp)
      BY <1>2 DEF LosesWorld, StillSearching
    <3>2. TickType'
      <4>1. lp' \in BOOLEAN
        BY <1>2, <3>1 DEF TickType
      <4>2. fails' \in 0..MaxFails
        BY <1>2, FailsType DEF LosesWorld, StillSearching, TickType
      <4> QED BY <1>2, <4>1, <4>2, EmptyFrame DEF LosesWorld, StillSearching, NothingYet, TickType
    <3>3. TickWorld'
      BY <1>2, <3>1 DEF LosesWorld, StillSearching, NothingYet, TickWorld
    <3>4. TeamKept'
      BY <1>2, EmptyFrame DEF LosesWorld, StillSearching, NothingYet, TeamKept
    <3> QED BY <3>2, <3>3, <3>4
  <2>3. ArrayType'
    BY <1>2, EmptyFrame DEF LosesWorld, StillSearching, NothingYet, ArrayType, Cached
  <2> QED BY <2>1, <2>2, <2>3
<1>3. ASSUME ReaderInv, SearchFinds PROVE ReaderInv'
  <2>1. GameType' /\ ActorsInView'
    BY <1>3 DEF SearchFinds, GameType, ActorsInView
  <2>2. TickType' /\ TickWorld' /\ TeamKept' /\ Cardinality(out'.players) <= MaxPlayers
    <3>1. mixed' \in BOOLEAN
      BY <1>3 DEF SearchFinds, TickType
    <3> QED BY <1>3, <3>1, <1>p DEF SearchFinds
  <2>3. ArrayType'
    BY <1>3, <2>2 DEF SearchFinds, ArrayType, Cached
  <2>4. MetaRight'
    BY <1>3 DEF SearchFinds, MetaRight, Cached
  <2> QED BY <2>1, <2>2, <2>3, <2>4
<1> QED BY <1>1, <1>2, <1>3

\* The slow scan of the level.
LEMMA ScanKeeps == ReaderInv /\ (Scan \/ NoScan) => ReaderInv'
<1> SUFFICES ASSUME ReaderInv, Scan \/ NoScan PROVE ReaderInv'
  OBVIOUS
<1> USE DEF ReaderInv, gameVars, cacheVars, teamVars, outVars
<1>1. UNCHANGED <<gameVars, lp, world, meta, mixed, teamVars, outVars>>
      /\ dpc = "scan" /\ dpc' = "players"
  BY DEF Scan, NoScan
<1>2. GameType' /\ ActorsInView' /\ TickWorld' /\ TeamKept'
  BY <1>1 DEF GameType, ActorsInView, TickWorld, TeamKept
<1>3. TickType'
  <2>1. due' \in BOOLEAN
    BY DEF Scan, NoScan, TickType
  <2>2. fails' \in 0..MaxFails
    <3>1. Reads \/ Fails
      BY DEF Scan, NoScan, ListLevel, KeepList, Reads
    <3> QED BY <3>1, FailsType DEF TickType
  <2> QED BY <1>1, <2>1, <2>2 DEF TickType
<1>4. MetaRight' /\ Cached' = Cached
  BY <1>1 DEF MetaRight, Cached
<1>5. /\ chars' \subseteq Actors /\ Cardinality(chars') <= MaxChars
      /\ judged' \in [Classes -> {"new", "player", "ignored"}]
  <2>1. CASE UNCHANGED <<chars, judged>>
    BY <2>1 DEF ArrayType
  <2>2. CASE ListLevel
    <3>2. PICK A \in SUBSET LevelActors : \E M \in SUBSET NewClasses(A) :
            /\ Classify(A, M)
            /\ LET Seen == {a \in A : judged'[actor[a].cls] = "player"}
               IN \E C \in SUBSET Seen :
                    /\ Cardinality(C) <= MaxChars
                    /\ C # Seen => Cardinality(C) = MaxChars
                    /\ chars' = C
      BY <2>2, Zenon DEF ListLevel
    <3>1. chars' \subseteq A /\ Cardinality(chars') <= MaxChars
      BY <3>2
    <3>4. A \subseteq Actors
      BY DEF LevelActors
    <3>5. PICK M : Classify(A, M)
      BY <3>2
    <3>3. judged' \in [Classes -> {"new", "player", "ignored"}]
      BY <3>5 DEF Classify, ArrayType
    <3> QED BY <3>1, <3>3, <3>4
  <2> QED BY <2>1, <2>2 DEF Scan, NoScan, KeepList
<1>6. ArrayType'
  BY <1>1, <1>4, <1>5 DEF ArrayType
<1> QED BY <1>2, <1>3, <1>4, <1>6

\* The players of the frame: what is read and cached is of this world, and no
\* array takes more than it has room for.
LEMMA PlayersKeeps == ReaderInv /\ Players => ReaderInv'
<1> SUFFICES ASSUME ReaderInv, Players PROVE ReaderInv'
  OBVIOUS
<1> USE DEF ReaderInv, gameVars, teamVars
<1>0. PICK miss \in SUBSET chars : \E P \in SUBSET ListKept(miss) :
      \E got \in [P \ Cached -> UNION {Misreads(a) : a \in P \ Cached}] :
        LET of == [a \in P |-> IF a \in Cached THEN meta[a] ELSE got[a]]
        IN /\ \A a \in P \ Cached : got[a] \in Misreads(a)
           /\ IF miss = {} /\ \A a \in P \ Cached : got[a] = ReadMeta(a) THEN Reads ELSE Fails
           /\ Cardinality(P) <= MaxPlayers
           /\ P # ListKept(miss) => Cardinality(P) = MaxPlayers
           /\ Store(got)
           /\ out' = [status |-> "ready", team |-> frameTeam,
                      players |-> {[at |-> a, team |-> of[a].team, bot |-> of[a].bot] : a \in P}]
           /\ chars' = IF P = ListKept(miss) THEN P ELSE chars
  BY Zenon DEF Players
<1>p. PICK P \in SUBSET ListKept(miss) :
      \E got \in [P \ Cached -> UNION {Misreads(a) : a \in P \ Cached}] :
        /\ \A a \in P \ Cached : got[a] \in Misreads(a)
        /\ Cardinality(P) <= MaxPlayers
        /\ Store(got)
        /\ out'.team = frameTeam /\ out'.status = "ready"
        /\ \E of \in [P -> Entry \cup {None} \cup UNION {Misreads(a) : a \in P \ Cached}] :
             out'.players = {[at |-> a, team |-> of[a].team, bot |-> of[a].bot] : a \in P}
        /\ chars' = IF P = ListKept(miss) THEN P ELSE chars
        /\ Reads \/ Fails
  <2>1. PICK P \in SUBSET ListKept(miss) :
        \E got \in [P \ Cached -> UNION {Misreads(a) : a \in P \ Cached}] :
          LET of == [a \in P |-> IF a \in Cached THEN meta[a] ELSE got[a]]
          IN /\ \A a \in P \ Cached : got[a] \in Misreads(a)
             /\ Reads \/ Fails
             /\ Cardinality(P) <= MaxPlayers
             /\ Store(got)
             /\ out' = [status |-> "ready", team |-> frameTeam,
                        players |-> {[at |-> a, team |-> of[a].team, bot |-> of[a].bot] : a \in P}]
             /\ chars' = IF P = ListKept(miss) THEN P ELSE chars
    BY <1>0, Zenon
  <2>2. PICK got \in [P \ Cached -> UNION {Misreads(a) : a \in P \ Cached}] :
          LET of == [a \in P |-> IF a \in Cached THEN meta[a] ELSE got[a]]
          IN /\ \A a \in P \ Cached : got[a] \in Misreads(a)
             /\ Reads \/ Fails
             /\ Cardinality(P) <= MaxPlayers
             /\ Store(got)
             /\ out' = [status |-> "ready", team |-> frameTeam,
                        players |-> {[at |-> a, team |-> of[a].team, bot |-> of[a].bot] : a \in P}]
             /\ chars' = IF P = ListKept(miss) THEN P ELSE chars
    BY <2>1, Zenon
  <2> DEFINE of == [a \in P |-> IF a \in Cached THEN meta[a] ELSE got[a]]
  <2>3. P \subseteq Actors
    BY DEF ListKept, ArrayType
  <2>4. of \in [P -> Entry \cup {None} \cup UNION {Misreads(a) : a \in P \ Cached}]
    BY <2>2, <2>3 DEF ArrayType
  <2>5. out' = [status |-> "ready", team |-> frameTeam,
                players |-> {[at |-> a, team |-> of[a].team, bot |-> of[a].bot] : a \in P}]
    BY <2>2, Zenon
  <2> HIDE DEF of
  <2>6. out'.team = frameTeam /\ out'.status = "ready"
        /\ out'.players = {[at |-> a, team |-> of[a].team, bot |-> of[a].bot] : a \in P}
    BY <2>5
  <2> WITNESS P \in SUBSET ListKept(miss)
  <2> WITNESS got \in [P \ Cached -> UNION {Misreads(a) : a \in P \ Cached}]
  <2> QED BY <2>2, <2>4, <2>6
<1>1. PICK got \in [P \ Cached -> UNION {Misreads(a) : a \in P \ Cached}] :
        /\ \A a \in P \ Cached : got[a] \in Misreads(a)
        /\ Cardinality(P) <= MaxPlayers
        /\ Store(got)
        /\ out'.team = frameTeam /\ out'.status = "ready"
        /\ \E of \in [P -> Entry \cup {None} \cup UNION {Misreads(a) : a \in P \ Cached}] :
             out'.players = {[at |-> a, team |-> of[a].team, bot |-> of[a].bot] : a \in P}
        /\ chars' = IF P = ListKept(miss) THEN P ELSE chars
        /\ Reads \/ Fails
  BY <1>p, Zenon
<1>2. PICK M \in SUBSET (P \ Cached) :
        /\ Room(Cached \cup M)
        /\ meta' = [a \in Actors |-> IF a \in M THEN got[a] ELSE meta[a]]
  BY <1>1 DEF Store
<1>3. /\ dpc = "players" /\ dpc' = "find" /\ named' = (named \/ frameTeam # 0)
      /\ UNCHANGED <<view, team, actor, spawns, lp, world, due, judged, mixed, cachedTeam, frameTeam>>
  BY DEF Players
<1>4. P \subseteq chars /\ chars \subseteq Actors
  BY DEF ListKept, ArrayType
<1>5. \A a \in M : got[a] \in Entry /\ got[a].world = world
  BY <1>1, <1>2, <1>3, <1>4, ReadsOwnWorld
<1>6. meta' \in [Actors -> Entry \cup {None}]
  BY <1>2, <1>5 DEF ArrayType
<1>7. Cached' \subseteq Cached \cup M
  BY <1>2 DEF Cached
<1>8. MetaRight'
  BY <1>2, <1>3, <1>5, <1>7 DEF MetaRight, Cached
<1>9. Cardinality(Cached') <= MaxMeta
  <2>1. Cached \cup M \subseteq Actors
    BY <1>2, <1>4 DEF Cached
  <2>2. Cardinality(Cached \cup M) <= MaxMeta
    BY <1>2 DEF Room
  <2> QED BY <1>7, <2>1, <2>2, Fewer, CapsAssumption
<1>10. chars' \subseteq Actors /\ Cardinality(chars') <= MaxChars
  <2>1. Cardinality(P) <= Cardinality(chars) /\ Cardinality(P) \in Nat
        /\ Cardinality(chars) \in Nat
    BY <1>4, Fewer
  <2> QED BY <1>1, <1>4, <2>1, CapsAssumption DEF ArrayType
<1>11. Cardinality(out'.players) <= MaxPlayers
  <2>0. PICK of \in [P -> Entry \cup {None} \cup UNION {Misreads(a) : a \in P \ Cached}] :
          out'.players = {[at |-> a, team |-> of[a].team, bot |-> of[a].bot] : a \in P}
    BY <1>1
  <2> DEFINE f == [a \in P |-> [at |-> a, team |-> of[a].team, bot |-> of[a].bot]]
             Q == {[at |-> a, team |-> of[a].team, bot |-> of[a].bot] : a \in P}
  <2>1. f \in Surjection(P, Q)
    BY DEF Surjection
  <2>2. IsFiniteSet(P) /\ Cardinality(P) \in Nat
    BY <1>1, <1>4, ActorsAssumption, FS_Subset, FS_CardinalityType
  <2> HIDE DEF f
  <2>3. IsFiniteSet(Q) /\ Cardinality(Q) <= Cardinality(P)
    BY <2>1, <2>2, FS_Surjection
  <2>4. Cardinality(Q) \in Nat /\ out'.players = Q
    BY <2>0, <2>3, FS_CardinalityType
  <2>5. Cardinality(P) <= MaxPlayers
    BY <1>1
  <2> HIDE DEF Q
  <2> QED BY <2>2, <2>3, <2>4, <2>5, CapsAssumption
<1>12. ArrayType'
  BY <1>3, <1>6, <1>9, <1>10, <1>11 DEF ArrayType
<1>13. GameType' /\ ActorsInView' /\ TickWorld'
  BY <1>3 DEF GameType, ActorsInView, TickWorld
<1>14. TickType' /\ TeamKept'
  <2>1. fails' \in 0..MaxFails
    BY <1>1, FailsType DEF TickType
  <2>2. named' \in BOOLEAN
    BY <1>3 DEF TickType
  <2> QED BY <1>1, <1>3, <2>1, <2>2 DEF TickType, TeamKept
<1> QED BY <1>8, <1>12, <1>13, <1>14

\* The next game begins with nothing.
LEMMA ReinitKeeps == ReaderInv /\ Reinit => ReaderInv'
<1> SUFFICES ASSUME ReaderInv, Reinit PROVE ReaderInv'
  OBVIOUS
<1> USE DEF ReaderInv
<1>1. GameType' /\ ActorsInView'
  BY DEF Reinit, GameType, ActorsInView
<1>2. ArrayType' /\ MetaRight'
  BY Cleared, EmptyFrame DEF Reinit, ArrayType, MetaRight
<1>3. TickType' /\ TickWorld' /\ TeamKept'
  BY Cleared, EmptyFrame DEF Reinit, TickType, TickWorld, TeamKept
<1> QED BY <1>1, <1>2, <1>3

\* Every step keeps the invariant.
LEMMA ReaderNext == ReaderInv /\ [Next]_vars => ReaderInv'
<1> SUFFICES ASSUME ReaderInv, [Next]_vars PROVE ReaderInv'
  OBVIOUS
<1>1. CASE Game
  BY <1>1, GameKeeps
<1>2. CASE ScanDue
  BY <1>2 DEF ScanDue, readerVars, gameVars, cacheVars, teamVars, outVars, ReaderInv, GameType, TickType,
              ArrayType, Cached, ActorsInView, TickWorld, MetaRight, TeamKept
<1>3. CASE RadarTick
  BY <1>3, FindKeeps, ScanKeeps, PlayersKeeps DEF RadarTick
<1>4. CASE Reinit
  BY <1>4, ReinitKeeps
<1>5. CASE UNCHANGED vars
  BY <1>5 DEF vars, gameVars, cacheVars, teamVars, outVars, ReaderInv, GameType, TickType,
              ArrayType, Cached, ActorsInView, TickWorld, MetaRight, TeamKept
<1> QED BY <1>1, <1>2, <1>3, <1>4, <1>5 DEF Next

(***************************************************************************)
(* The theorems.                                                           *)
(***************************************************************************)

\* Every variable keeps its type, and characters[], g_player_meta and the
\* frame never hold more than they have room for.
THEOREM TypeCorrect == Spec => []TypeOK
<1>1. ReaderInv => TypeOK
  BY TypeParts DEF ReaderInv
<1> QED BY <1>1, ReaderInit, ReaderNext, PTL DEF Spec

\* A tick that has its world uses metadata of that world only, unless a world
\* was found by search while the caches held entries.
THEOREM MetaIsOfWorld == Spec => []MetaOfWorld
<1>1. ReaderInv => MetaOfWorld
  BY DEF ReaderInv, MetaRight, TickWorld, MetaOfWorld
<1> QED BY <1>1, ReaderInit, ReaderNext, PTL DEF Spec

\* From the frame that named the local team to the next radar_init every frame that
\* is ready names it.
THEOREM TeamNeverLost == Spec => []TeamSticks
<1>1. ReaderInv => TeamSticks
  BY DEF ReaderInv, TeamKept, TeamSticks
<1> QED BY <1>1, ReaderInit, ReaderNext, PTL DEF Spec
=============================================================================
