---------------------------- MODULE OverlayLink ----------------------------
(***************************************************************************)
(* The overlay's side of ue4_radar.bin: how timer_tick finds the file,     *)
(* follows it from inode to inode, takes a snapshot and judges its age,    *)
(* composed with the daemons and controllers of DaemonLifecycle.           *)
(*                                                                         *)
(* timer_tick, the drawing and the stop button all run on the main thread  *)
(* of SpringBoard; daemons and controllers run between any two steps here. *)
(* Time is counted in timer frames.  Touch steering, which timer_tick does *)
(* last, is left out: it changes nothing that is modelled here.            *)
(***************************************************************************)
EXTENDS DaemonLifecycle

CONSTANTS
  StatEvery,     \* frames between two looks at the path (20 in the code)
  Stale          \* frames a snapshot may be drawn for (2.0 s: 40 at 20 Hz)

ASSUME CadenceAssumption == StatEvery \in Nat \ {0} /\ Stale \in Nat

VARIABLES
  opc,        \* "unloaded", or where timer_tick is
  omap,       \* the inode mapped at g_shared, with its descriptor
  frame,      \* g_frame_counter % StatEvery
  shown,      \* status and tick of g_snapshot
  lastTick,   \* g_last_tick
  age,        \* frames since g_changed_at, counted up to Stale + 1
  drawn       \* the last frame drew players

snapVars == <<shown, lastTick, age>>
overlayVars == <<opc, omap, frame, snapVars, drawn>>
linkVars == <<vars, overlayVars>>

NoSnapshot == [status |-> "blank", tick |-> 0]

LinkInit ==
  /\ Init
  /\ opc = "unloaded" /\ omap = None /\ frame = 0
  /\ shown = NoSnapshot /\ lastTick = 0 /\ age = Stale + 1
  /\ drawn = FALSE

Usable == path # None /\ file[path].full

-----------------------------------------------------------------------------

\* Fault for mutation: only a missing mapping makes the overlay look again.
WantsLookUnmapped == frame = 0 /\ path # None /\ omap = None

\* Every StatEvery frames the path is compared with the mapping.
WantsLook == frame = 0 /\ path # None /\ path # omap

\* Fault for mutation: the mapping and its descriptor are forgotten, not closed.
CloseForgets == UNCHANGED omap

\* close_shared_memory: munmap and close.
Close == omap' = None

\* The timer fires.  open_shared_memory looks at the size of the file first:
\* a file not extended yet leaves an old mapping in place.
TimerFires ==
  /\ opc = "wait"
  /\ ~\E c \in Controllers : c = "overlay" /\ ctl[c] # "idle"
  /\ frame' = (frame + 1) % StatEvery
  /\ age' = IF age > Stale THEN age ELSE age + 1
  /\ IF WantsLook /\ Usable
       THEN Close /\ opc' = "map"
       ELSE UNCHANGED omap /\ opc' = "read"
  /\ UNCHANGED <<vars, shown, lastTick, drawn>>

\* Fault for mutation: the size is not looked at once the file is open.
MapUnsized == omap' = path

\* open, fstat of the descriptor for its size, mmap.
Map == omap' = IF Usable THEN path ELSE None

\* The connection timer_tick asks for; read_snapshot comes next either way.
Reconnect ==
  /\ opc = "map"
  /\ Map
  /\ opc' = "read"
  /\ UNCHANGED <<vars, frame, snapVars, drawn>>

\* read_snapshot without a mapping tries to get one.
ReadConnects ==
  /\ opc = "read" /\ omap = None
  /\ Map
  /\ opc' = IF Usable THEN "read" ELSE "render"
  /\ UNCHANGED <<vars, frame, snapVars, drawn>>

\* Fault for mutation: every read counts as a change.
StampAlways(t) == lastTick' = t /\ age' = 0

\* A tick that differs from the last one is a change, seen now.
Stamp(t) == IF t # lastTick THEN lastTick' = t /\ age' = 0
                            ELSE UNCHANGED <<lastTick, age>>

\* A candidate that carries the magic is taken.
ReadAccepts ==
  /\ opc = "read" /\ omap # None
  /\ file[omap].status # "blank"
  /\ shown' = [status |-> file[omap].status, tick |-> file[omap].tick]
  /\ Stamp(file[omap].tick)
  /\ opc' = "render"
  /\ UNCHANGED <<vars, omap, frame, drawn>>

\* Three attempts met a publication under way.
ReadGivesUp ==
  /\ opc = "read" /\ omap # None
  /\ opc' = "render"
  /\ UNCHANGED <<vars, omap, frame, snapVars, drawn>>

\* A file nobody has published to has no magic: the mapping is dropped...
ReadRejects ==
  /\ opc = "read" /\ omap # None
  /\ file[omap].status = "blank"
  /\ Close
  /\ opc' = "reopen"
  /\ UNCHANGED <<vars, frame, snapVars, drawn>>

\* ...and made again, for a later frame to read.
Reopen ==
  /\ opc = "reopen"
  /\ Map
  /\ opc' = "render"
  /\ UNCHANGED <<vars, frame, snapVars, drawn>>

\* Fault for mutation: the age is left out of the drawing's condition.
DrawsAnyAge == shown.status = "ready"

\* esp_drawRect draws a ready frame that is not older than Stale.
Draws == shown.status = "ready" /\ age <= Stale

Render ==
  /\ opc = "render"
  /\ drawn' = Draws
  /\ opc' = "wait"
  /\ UNCHANGED <<vars, omap, frame, snapVars>>

\* action_stop_radar between two frames: the flag, the commands, and at last
\* the mapping, but not the snapshot.
StopButton ==
  /\ opc = "wait"
  /\ WriteFlag("overlay") \/ KillEvery("overlay") \/ Unlink("overlay")
  /\ omap' = IF At("overlay", "unlink") THEN None ELSE omap
  /\ UNCHANGED <<opc, frame, snapVars, drawn>>

\* SpringBoard starts, or restarts, and loads the library: the globals are
\* fresh, whatever the file has become by then.
Load ==
  /\ opc = "unloaded"
  /\ opc' = "wait"
  /\ UNCHANGED <<vars, omap, frame, snapVars, drawn>>

\* A step of any other process.  The kernel gives out no inode number that
\* a mapping still holds.
Elsewhere ==
  /\ Next
  /\ \A c \in Controllers : c = "overlay" => ctl'[c] = ctl[c]
  /\ path' # path => path' # omap
  /\ UNCHANGED overlayVars

Overlay == \/ TimerFires \/ Reconnect \/ ReadConnects \/ ReadAccepts
           \/ ReadGivesUp \/ ReadRejects \/ Reopen \/ Render

LinkNext == Load \/ Overlay \/ StopButton \/ Elsewhere

LinkSpec == LinkInit /\ [][LinkNext]_linkVars

\* As in DaemonLifecycle, and: the timer keeps firing, and three attempts do
\* not meet a publication each time (RadarShm's CatchesUp).
LinkFairness ==
  /\ \A d \in Daemons :
       /\ WF_linkVars(Elsewhere /\ (DaemonOther(d) \/ \E i \in Inodes : Open(d, i)))
       /\ SF_linkVars(Elsewhere /\ AttachOk(d))
  /\ WF_linkVars(Elsewhere /\ \E d \in Daemons : LaunchdSpawn(d))
  /\ WF_linkVars((Elsewhere \/ StopButton) /\ Controlling)
  /\ WF_linkVars(Load \/ Overlay)
  /\ SF_linkVars(ReadAccepts)

FairLinkSpec == LinkSpec /\ LinkFairness

-----------------------------------------------------------------------------
(* Properties.                                                             *)

\* Every variable of the overlay keeps its type, and a mapping is made only
\* where none is held: g_shared and its descriptor are never overwritten.
LinkTypeOK ==
  /\ opc \in {"unloaded", "wait", "map", "read", "reopen", "render"}
  /\ omap \in Inodes \cup {None}
  /\ frame \in 0..(StatEvery - 1) /\ age \in 0..(Stale + 1)
  /\ shown \in [status : {"blank", "offline", "starting", "ready"},
                tick : 0..(TickMod - 1)]
  /\ lastTick \in 0..(TickMod - 1)
  /\ drawn \in BOOLEAN
  /\ opc \in {"map", "reopen"} => omap = None

\* The overlay never maps a file that was not extended to the size of
\* radar_shared_t, which it would fault on: neither when it reconnects while
\* a daemon creates the file, nor when a daemon opens the file it has mapped.
MappedFileIsFull == omap # None => file[omap].full

\* While one daemon stays in its radar loop and its file stays linked, the
\* overlay comes to be mapped to that file for good, whichever inode it held.
Reconnects ==
  \A d \in Daemons :
    <>[](pc[d] = "live" /\ mapped[d] = path) => <>[](omap = mapped[d])

\* With no daemon left the players vanish from the screen and stay away, even
\* if the daemon was killed and its last frame is still there to be read.
DrawingStops == <>[](Alive = {}) => <>[]~drawn
=============================================================================
