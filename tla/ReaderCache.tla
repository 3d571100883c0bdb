---------------------------- MODULE ReaderCache ----------------------------
(***************************************************************************)
(* radar_tick of the daemon: finding the world through the LocalPlayer,    *)
(* discovering its characters at a slow cadence, and publishing them every *)
(* tick from a cache of their team and bot flag that is keyed by address.  *)
(*                                                                         *)
(* The game runs beside it: it travels between worlds, spawns and frees    *)
(* actors at reused addresses, and fills in their player states and the    *)
(* local player's team some time later.  A pointer of a world that was     *)
(* left does not read, and any other read may fail.  Status "ready" stands *)
(* for 2 and 3.  Vehicles and items are left out, and so are dead          *)
(* characters and those at the origin, which a tick skips and keeps in the *)
(* list.  Of the class cache there is what it holds of characters' classes *)
(* while it has room; LevelScan has the rest.                              *)
(***************************************************************************)
EXTENDS Naturals, FiniteSets

CONSTANTS
  Actors,      \* addresses at which characters may be allocated
  Classes,     \* the characters' classes
  Worlds,      \* the worlds the game travels between
  Teams,       \* team ids; 0 stands for unknown
  Bots,        \* what the bot flag of a character may be
  None,        \* no world, no actor, no cache entry
  MaxChars,    \* slots of characters[] (512)
  MaxMeta,     \* slots of g_player_meta (512)
  MaxPlayers,  \* slots of the frame (RADAR_MAX_PLAYERS, 100)
  MaxSpawns,   \* bound on the actors a behaviour creates
  MaxFails     \* bound on the steps in which reads fail

ASSUME TeamsAssumption == Teams \subseteq Nat \ {0}
ASSUME BotsAssumption == Bots \subseteq BOOLEAN
ASSUME ActorsAssumption == IsFiniteSet(Actors)
ASSUME ReaderNoneAssumption == None \notin Worlds
ASSUME CapsAssumption == {MaxChars, MaxMeta, MaxPlayers, MaxSpawns} \subseteq Nat \ {0}
ASSUME FailsAssumption == MaxFails \in Nat

VARIABLES
  view,       \* the world of the LocalPlayer's viewport with a controller, or None
  team,       \* the local player's team as its player state shows it
  actor,      \* per address: the character there
  spawns,     \* characters created
  fails,      \* steps in which a read failed
  dpc,        \* radar_tick: "find", "scan" or "players"
  lp,         \* local_player is known
  world,      \* world
  due,        \* now >= next_scan_time
  chars,      \* the non-null entries of characters[]
  judged,     \* g_classes: per class "new", "player", or "ignored" after a failed read
  meta,       \* per address: its entry of g_player_meta
  mixed,      \* a world was found by search while the caches held entries
  cachedTeam, \* s_cached_local_team
  frameTeam,  \* frame.header.local_team
  out,        \* the published frame
  named       \* history: a frame since the last radar_init named the local team

gameVars == <<view, team, actor, spawns>>
cacheVars == <<chars, judged, meta, mixed>>
teamVars == <<cachedTeam, frameTeam>>
outVars == <<out, named>>
vars == <<gameVars, fails, dpc, lp, world, due, cacheVars, teamVars, outVars>>

\* What the game keeps of a character, and what the reader caches of it.
Character == [world : Worlds, cls : Classes, team : Teams, bot : Bots,
              state : BOOLEAN, placed : BOOLEAN]
Entry == [team : Teams \cup {0}, world : Worlds, bot : BOOLEAN]

NoMeta == [a \in Actors |-> None]
NoClass == [c \in Classes |-> "new"]
NoFrame == [status |-> "starting", team |-> 0, players |-> {}]
Cached == {a \in Actors : meta[a] # None}

Init ==
  /\ view = None /\ team = 0 /\ spawns = 0 /\ fails = 0
  /\ actor = [a \in Actors |-> None]
  /\ dpc = "find" /\ lp = FALSE /\ world = None /\ due = TRUE
  /\ chars = {} /\ judged = NoClass /\ meta = NoMeta /\ mixed = FALSE
  /\ cachedTeam = 0 /\ frameTeam = 0 /\ out = NoFrame /\ named = FALSE

-----------------------------------------------------------------------------
(* The game.                                                               *)

readerVars == <<fails, dpc, lp, world, cacheVars, teamVars, outVars>>

\* Loading a world takes longer than one radar_tick.
Arrive(w) ==
  /\ view = None /\ dpc = "find"
  /\ view' = w
  /\ UNCHANGED <<team, actor, spawns, due, readerVars>>

Leave ==
  /\ view # None
  /\ view' = None /\ team' = 0
  /\ actor' = [a \in Actors |-> None]
  /\ UNCHANGED <<spawns, due, readerVars>>

\* The local player's state comes with its team.
LearnTeam ==
  /\ view # None /\ team = 0
  /\ team' \in Teams
  /\ UNCHANGED <<view, actor, spawns, due, readerVars>>

\* A character appears, with or without its player state.
Spawn(a) ==
  /\ view # None
  /\ actor[a] = None
  /\ spawns < MaxSpawns
  /\ spawns' = spawns + 1
  /\ \E c \in Character :
       /\ c.world = view /\ c.placed
       /\ actor' = [actor EXCEPT ![a] = c]
  /\ UNCHANGED <<view, team, due, readerVars>>

\* The player state arrives, or the character's root component comes or goes.
Change(a) ==
  /\ actor[a] # None
  /\ \/ ~actor[a].state /\ actor' = [actor EXCEPT ![a].state = TRUE]
     \/ actor' = [actor EXCEPT ![a].placed = ~@]
  /\ UNCHANGED <<view, team, spawns, due, readerVars>>

Free(a) ==
  /\ actor[a] # None
  /\ actor' = [actor EXCEPT ![a] = None]
  /\ UNCHANGED <<view, team, spawns, due, readerVars>>

\* 1.25 s pass.
ScanDue ==
  /\ ~due
  /\ due' = TRUE
  /\ UNCHANGED <<gameVars, readerVars>>

-----------------------------------------------------------------------------
(* radar_tick.                                                             *)

\* A step whose reads of what is there all succeed, and one in which any fail.
Reads == UNCHANGED fails
Fails == fails < MaxFails /\ fails' = fails + 1

\* publish(1) with the frame cleared.
NothingYet ==
  /\ out' = NoFrame
  /\ dpc' = "find"
  /\ UNCHANGED <<teamVars, named>>

\* Fault for mutation: the value kept from before is not used.
LocalTeamUnkept(t) ==
  /\ frameTeam' = t
  /\ cachedTeam' = t

\* The team that reads, and otherwise the one that read last.
LocalTeam(t) ==
  /\ frameTeam' = IF t # 0 THEN t ELSE cachedTeam
  /\ cachedTeam' = IF t # 0 THEN t ELSE cachedTeam

\* Fault for mutation: the lists and the classes go, the metadata stays.
ClearCachesButMeta == chars' = {} /\ judged' = NoClass /\ UNCHANGED <<meta, mixed>>

ClearCaches == chars' = {} /\ judged' = NoClass /\ meta' = NoMeta /\ mixed' = FALSE

\* With a world, the controller and the team are read; no controller, no frame.
Proceed ==
  \/ /\ \/ Reads /\ LocalTeam(team)
        \/ Fails /\ LocalTeam(0)
     /\ dpc' = "scan"
     /\ UNCHANGED outVars
  \/ Fails /\ NothingYet


Changed == world # None /\ world # view

\* find_world with a LocalPlayer that still leads to a world.
FindsWorld ==
  /\ dpc = "find" /\ lp /\ view # None
  /\ IF Changed THEN ClearCaches ELSE UNCHANGED cacheVars
  /\ world' = view
  /\ Proceed
  /\ UNCHANGED <<gameVars, lp, due>>

\* The LocalPlayer leads nowhere, or its links do not read: it is forgotten, and
\* nothing is found yet.
LosesWorld ==
  /\ dpc = "find" /\ lp
  /\ IF view = None THEN Reads ELSE Fails
  /\ lp' = FALSE /\ world' = None
  /\ NothingYet
  /\ UNCHANGED <<gameVars, due, cacheVars>>

\* The throttled search among the engine's objects has not come to it.
StillSearching ==
  /\ dpc = "find" /\ ~lp
  /\ world' = None
  /\ NothingYet
  /\ UNCHANGED <<gameVars, fails, lp, due, cacheVars>>

\* It has: the world is taken, and the caches are left as they are.
SearchFinds ==
  /\ dpc = "find" /\ ~lp /\ view # None
  /\ lp' = TRUE /\ world' = view
  /\ mixed' = (mixed \/ Cached # {} \/ chars # {})
  /\ Proceed
  /\ UNCHANGED <<gameVars, due, chars, judged, meta>>

LevelActors == {a \in Actors : actor[a] # None}

\* The classes of the actors A that the class cache does not hold yet.
NewClasses(A) == {actor[a].cls : a \in A} \cap {c \in Classes : judged[c] = "new"}

\* classify_class for the actors A: a class is judged once, and the classes M are
\* taken for no characters' since no name of theirs read.
Classify(A, M) ==
  judged' = [c \in Classes |-> IF c \in M THEN "ignored"
                               ELSE IF c \in NewClasses(A) THEN "player" ELSE judged[c]]

\* The level's actors are read in chunks, and a chunk that does not read is passed
\* over; the characters among those seen are listed, as many as fit.
ListLevel ==
  \E A \in SUBSET LevelActors : \E M \in SUBSET NewClasses(A) :
    /\ IF A = LevelActors /\ M = {} THEN Reads ELSE Fails
    /\ Classify(A, M)
    /\ LET Seen == {a \in A : judged'[actor[a].cls] = "player"}
       IN \E C \in SUBSET Seen :
            /\ Cardinality(C) <= MaxChars
            /\ C # Seen => Cardinality(C) = MaxChars
            /\ chars' = C

\* A level that does not read, as that of a world that was left, or whose array of
\* actors is refused: the list stays as it is.
KeepList ==
  /\ IF world = view THEN Fails ELSE Reads
  /\ UNCHANGED <<chars, judged>>

\* scan_persistent_level, not tried again before the next is due.
Scan ==
  /\ dpc = "scan" /\ due
  /\ due' = FALSE
  /\ (world = view /\ ListLevel) \/ KeepList
  /\ dpc' = "players"
  /\ UNCHANGED <<gameVars, lp, world, meta, mixed, teamVars, outVars>>

NoScan ==
  /\ dpc = "scan" /\ ~due
  /\ dpc' = "players"
  /\ UNCHANGED <<gameVars, fails, lp, world, due, cacheVars, teamVars, outVars>>

\* Fault for mutation: a character that does not read is published anyway.
PresentAny(a) == a \in chars

\* position(): the root component reads.
Present(a) == a \in chars /\ actor[a] # None /\ actor[a].placed

\* Team t and bot flag b as they read; a teammate is never a bot.
EntryOf(a, t, b) ==
  [team |-> t, world |-> IF actor[a] = None THEN world ELSE actor[a].world,
   bot |-> b /\ ~(frameTeam # 0 /\ t = frameTeam)]

\* What is read from the player state when all of it reads, and otherwise.
ReadMeta(a) ==
  IF actor[a] # None /\ actor[a].state THEN EntryOf(a, actor[a].team, actor[a].bot)
                                       ELSE EntryOf(a, 0, FALSE)
Misreads(a) ==
  IF actor[a] # None /\ actor[a].state
    THEN {EntryOf(a, t, b) : t \in {0, actor[a].team}, b \in {FALSE, actor[a].bot}}
    ELSE {EntryOf(a, 0, FALSE)}

\* Characters that do not read leave the list until the next scan.
ListKept(miss) == {a \in chars : Present(a) /\ a \notin miss}

\* Fault for mutation: the bound of store_player_meta is off by one.
RoomForOneMore(S) == Cardinality(S) <= MaxMeta + 1

Room(S) == Cardinality(S) <= MaxMeta

\* Entries are stored in the cache while there is room.
Store(got) ==
  \E M \in SUBSET DOMAIN got :
    /\ Room(Cached \cup M)
    /\ \A a \in DOMAIN got \ M : ~Room(Cached \cup M \cup {a})
    /\ meta' = [a \in Actors |-> IF a \in M THEN got[a] ELSE meta[a]]

\* The players of the frame, as many as fit, each from the cache or read and
\* then cached; the positions of miss do not read.
Players ==
  /\ dpc = "players"
  /\ \E miss \in SUBSET chars : \E P \in SUBSET ListKept(miss) :
     \E got \in [P \ Cached -> UNION {Misreads(a) : a \in P \ Cached}] :
       LET of == [a \in P |-> IF a \in Cached THEN meta[a] ELSE got[a]]
       IN /\ \A a \in P \ Cached : got[a] \in Misreads(a)
          /\ IF miss = {} /\ \A a \in P \ Cached : got[a] = ReadMeta(a) THEN Reads ELSE Fails
          /\ Cardinality(P) <= MaxPlayers
          /\ P # ListKept(miss) => Cardinality(P) = MaxPlayers
          /\ Store(got)
          /\ out' = [status |-> "ready", team |-> frameTeam,
                     players |-> {[at |-> a, team |-> of[a].team, bot |-> of[a].bot] : a \in P}]
          /\ chars' = IF P = ListKept(miss) THEN P ELSE chars
  /\ named' = (named \/ frameTeam # 0)
  /\ dpc' = "find"
  /\ UNCHANGED <<gameVars, lp, world, due, judged, mixed, teamVars>>

\* The game exits; the radar loop ends and radar_init starts over on the next
\* process.
Reinit ==
  /\ view' = None /\ team' = 0 /\ actor' = [a \in Actors |-> None]
  /\ dpc' = "find" /\ lp' = FALSE /\ world' = None /\ due' = TRUE
  /\ ClearCaches
  /\ cachedTeam' = 0 /\ frameTeam' = 0 /\ out' = NoFrame /\ named' = FALSE
  /\ UNCHANGED <<spawns, fails>>

Game == \/ \E w \in Worlds : Arrive(w)
        \/ Leave \/ LearnTeam
        \/ \E a \in Actors : Spawn(a) \/ Change(a) \/ Free(a)

RadarTick == \/ FindsWorld \/ LosesWorld \/ StillSearching \/ SearchFinds
             \/ Scan \/ NoScan \/ Players

Next == Game \/ ScanDue \/ RadarTick \/ Reinit

Spec == Init /\ [][Next]_vars

\* The radar loop keeps calling radar_tick, and time passes.  The game owes
\* nothing, and the search for the LocalPlayer need not end.
FairSpec == /\ Spec
            /\ WF_vars(RadarTick) /\ WF_vars(ScanDue)

-----------------------------------------------------------------------------
(* Properties.                                                             *)

\* Every variable keeps its type; no array of the reader overflows.
TypeOK ==
  /\ view \in Worlds \cup {None} /\ world \in Worlds \cup {None}
  /\ {team, cachedTeam, frameTeam, out.team} \subseteq Teams \cup {0}
  /\ actor \in [Actors -> Character \cup {None}] /\ meta \in [Actors -> Entry \cup {None}]
  /\ dpc \in {"find", "scan", "players"}
  /\ judged \in [Classes -> {"new", "player", "ignored"}]
  /\ {lp, due, mixed, named} \subseteq BOOLEAN
  /\ spawns \in 0..MaxSpawns /\ fails \in 0..MaxFails
  /\ chars \subseteq Actors /\ Cardinality(chars) <= MaxChars
  /\ Cardinality(Cached) <= MaxMeta
  /\ Cardinality(out.players) <= MaxPlayers

\* A radar_tick that has its world works with metadata read in that world,
\* whatever the game did between the ticks.  It is not so after a world that
\* was found by search with entries in the caches: only the other way into a
\* world clears them.
MetaOfWorld ==
  dpc # "find" /\ ~mixed => \A a \in Cached : meta[a].world = world

\* Once a frame has named the local team, no frame published as ready shows it as
\* unknown until the next radar_init, whatever frames without a world and failed
\* reads of the local player's state come between.
TeamSticks == named /\ out.status = "ready" => out.team # 0

\* The class cache takes the character's class for another kind: no name of it read
\* when it was judged.  Nothing but another world or game corrects it.
Overlooked(a) == actor[a] # None /\ judged[actor[a].cls] = "ignored"


\* A character that is gone for good is gone from the frames, cached or not.
Forgets ==
  \A a \in Actors :
    <>[](actor[a] = None) => <>[](\A p \in out.players : p.at # a)

\* "Teammates on our team can NEVER be classified as bots."
TeammatesNeverBots ==
  \A p \in out.players : out.team # 0 /\ p.team = out.team => ~p.bot
=============================================================================
