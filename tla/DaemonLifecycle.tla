-------------------------- MODULE DaemonLifecycle --------------------------
(***************************************************************************)
(* The life of ue4loadmonitor: main() and run_radar_loop() of the daemon,  *)
(* the files it shares with its controllers (the stop flag and             *)
(* ue4_radar.bin), and the controllers that start and stop it: the manager *)
(* app, the stop button of the overlay and the scripts run from a PC.      *)
(*                                                                         *)
(* A publication is one step here: RadarShm shows that it may be taken so. *)
(* launchd and the game are external and modelled by what the code asks of *)
(* them.  The pid and marker files are left out: no program reads them.    *)
(* Left out as well: a radar_init that fails (disk or memory), main's      *)
(* direct mode on a given pid, and --dump-once.                            *)
(*                                                                         *)
(* Nothing keeps requests from overlapping, a kickstart may fail, and      *)
(* launchd may take any time to carry one out; amiss records when that     *)
(* led to where the code gives no guarantee.                               *)
(***************************************************************************)
EXTENDS Naturals, FiniteSets

CONSTANTS
  Daemons,       \* process slots for ue4loadmonitor
  Games,         \* pids the game gets, one per launch
  Inodes,        \* inodes ue4_radar.bin may get
  None,          \* no game, no inode, no process
  Controllers,   \* who acts: a subset of {"app", "overlay", "pc"}
  MaxRequests,   \* bound on start and stop requests
  MaxKills,      \* bound on spontaneous SIGKILLs (jetsam, crash)
  MaxLaunches,   \* bound on game launches
  TickMod        \* range of the tick in the header (2^32 in the code)

ASSUME ControllersAssumption == Controllers \subseteq {"app", "overlay", "pc"}
ASSUME NoneAssumption == None \notin Games \cup Inodes \cup Daemons
ASSUME TickAssumption == TickMod \in Nat \ {0}
ASSUME BoundsAssumption == {MaxRequests, MaxKills, MaxLaunches} \subseteq Nat

VARIABLES
  pc,        \* per daemon: where it is in main / run_radar_loop
  running,   \* per daemon: gRunning
  last,      \* per daemon: last_reported_pid
  target,    \* per daemon: target_pid of the radar loop
  mapped,    \* per daemon: the inode behind its descriptor
  tick,      \* per daemon: the publication counter
  flag,      \* radar_stop.flag exists
  path,      \* the inode named by RADAR_FILE_PATH
  file,      \* per inode: extended yet?, status and tick of its header
  game,      \* pid of the running game
  queued,    \* launchd has a kickstart to carry out
  job,       \* the daemon launchd started last, unless its slot is used anew
  ctl,       \* per controller: where it is in a start or stop sequence
  victim,    \* the pid the app found to terminate
  want,      \* what is asked for: "stop", "start" (the app, after a stop) or
             \* "pc" (start_radar.py, since the last stop)
  amiss,     \* history: "twice" since a daemon was started beside one that runs or
             \* is to come; "late" since a sequence was entered during another, or
             \* a stop begun before launchd had carried out a kickstart; else "no"
  requests, kills, launches    \* the bounded counters

procVars == <<pc, running, last, target, mapped, tick>>
ctlVars == <<ctl, victim, want, requests, amiss>>
launchdVars == <<queued, job>>
envVars == <<game, launches, kills>>
vars == <<procVars, flag, path, file, launchdVars, ctlVars, envVars>>

Alive == {d \in Daemons : pc[d] # "off"}
Blank == [full |-> FALSE, status |-> "blank", tick |-> 0]

Init ==
  /\ pc = [d \in Daemons |-> "off"] /\ running = [d \in Daemons |-> TRUE]
  /\ last = [d \in Daemons |-> None] /\ target = [d \in Daemons |-> None]
  /\ mapped = [d \in Daemons |-> None] /\ tick = [d \in Daemons |-> 0]
  /\ flag = FALSE /\ path = None /\ file = [i \in Inodes |-> Blank]
  /\ game = None /\ queued = FALSE /\ job = None
  /\ ctl = [c \in Controllers |-> "idle"] /\ victim = None /\ want = "stop" /\ amiss = "no"
  /\ requests = 0 /\ kills = 0 /\ launches = 0

-----------------------------------------------------------------------------
(* Processes come and go.                                                  *)

\* A fresh process at the top of main.
Boot(d) ==
  /\ d \notin Alive
  /\ pc' = [pc EXCEPT ![d] = "main"]
  /\ UNCHANGED <<running, last, target, mapped, tick>>

\* What a process keeps in memory goes with it.
Forget(D) ==
  /\ pc' = [d \in Daemons |-> IF d \in D THEN "off" ELSE pc[d]]
  /\ running' = [d \in Daemons |-> d \in D \/ running[d]]
  /\ last' = [d \in Daemons |-> IF d \in D THEN None ELSE last[d]]

\* SIGKILL: the descriptor goes too, the files stay.
KillAll(D) ==
  /\ Forget(D)
  /\ mapped' = [d \in Daemons |-> IF d \in D THEN None ELSE mapped[d]]
  /\ target' = [d \in Daemons |-> IF d \in D THEN None ELSE target[d]]
  /\ UNCHANGED tick

\* SIGTERM: stop_handler clears gRunning.
Term(D) == running' = [d \in Daemons |-> running[d] /\ d \notin D]

\* The kickstart launchd has queued; a job has one instance.
LaunchdSpawn(d) ==
  /\ queued
  /\ job \notin Alive
  /\ Boot(d)
  /\ queued' = FALSE /\ job' = d
  /\ UNCHANGED <<flag, path, file, ctlVars, envVars>>

\* A crash, or memory pressure.
Killed(d) ==
  /\ d \in Alive
  /\ kills < MaxKills
  /\ kills' = kills + 1
  /\ KillAll({d})
  /\ UNCHANGED <<flag, path, file, launchdVars, ctlVars, game, launches>>

GameLaunch(g) ==
  /\ game = None
  /\ launches < MaxLaunches
  /\ game' = g
  /\ launches' = launches + 1
  /\ UNCHANGED <<procVars, flag, path, file, launchdVars, ctlVars, kills>>

GameExit ==
  /\ game # None
  /\ game' = None
  /\ UNCHANGED <<procVars, flag, path, file, launchdVars, ctlVars, launches, kills>>

-----------------------------------------------------------------------------
(* The daemon.                                                             *)

daemonEnv == <<launchdVars, ctlVars, envVars>>
Goto(d, l) == pc' = [pc EXCEPT ![d] = l]

\* access(stop flag) == 0: the flag is consumed and gRunning cleared.
ConsumeFlag(d) ==
  /\ flag
  /\ flag' = FALSE
  /\ running' = [running EXCEPT ![d] = FALSE]

\* The main loop ends: the file is unlinked and the process exits.
MainExit(d) ==
  /\ pc[d] = "main" /\ ~running[d]
  /\ path' = None
  /\ Forget({d})
  /\ UNCHANGED <<target, mapped, tick, flag, file, daemonEnv>>

MainStopped(d) ==
  /\ pc[d] = "main" /\ running[d]
  /\ ConsumeFlag(d)
  /\ UNCHANGED <<pc, last, target, mapped, tick, path, file, daemonEnv>>

\* A pid that was not reported yet is handed to the radar loop.
MainFound(d) ==
  /\ pc[d] = "main" /\ running[d] /\ ~flag
  /\ game # None /\ game # last[d]
  /\ last' = [last EXCEPT ![d] = game]
  /\ target' = [target EXCEPT ![d] = game]
  /\ Goto(d, "attach")
  /\ UNCHANGED <<running, mapped, tick, flag, path, file, daemonEnv>>

\* Fault for mutation: the pid that was reported stays reported.
LoopReturnsKeepsPid(d) ==
  /\ Goto(d, "main")
  /\ target' = [target EXCEPT ![d] = None]
  /\ UNCHANGED last

\* run_radar_loop is over: last_reported_pid = 0.
LoopReturns(d) ==
  /\ Goto(d, "main")
  /\ target' = [target EXCEPT ![d] = None]
  /\ last' = [last EXCEPT ![d] = None]

\* The task port or the image base cannot be had: the loop returns at once.
AttachFails(d) ==
  /\ pc[d] = "attach"
  /\ LoopReturns(d)
  /\ UNCHANGED <<running, mapped, tick, flag, path, file, daemonEnv>>

AttachOk(d) ==
  /\ pc[d] = "attach"
  /\ game = target[d]
  /\ Goto(d, "open")
  /\ UNCHANGED <<running, last, target, mapped, tick, flag, path, file, daemonEnv>>

\* radar_init: open(O_RDWR | O_CREAT) takes the file as it is or creates it.
Open(d, i) ==
  /\ pc[d] = "open"
  /\ \/ i = path /\ UNCHANGED file
     \/ /\ path = None
        /\ \A e \in Daemons : mapped[e] # i
        /\ file' = [file EXCEPT ![i] = Blank]
  /\ path' = i
  /\ mapped' = [mapped EXCEPT ![d] = i]
  /\ Goto(d, "extend")
  /\ UNCHANGED <<running, last, target, tick, flag, daemonEnv>>

\* ftruncate to sizeof(radar_shared_t), then mmap; content is kept.
Extend(d) ==
  /\ pc[d] = "extend"
  /\ file' = [file EXCEPT ![mapped[d]].full = TRUE]
  /\ tick' = [tick EXCEPT ![d] = 0]
  /\ Goto(d, "first")
  /\ UNCHANGED <<running, last, target, mapped, flag, path, daemonEnv>>

\* Fault for mutation: the counter is kept wider than the header's field.
PublishWide(d, s) ==
  /\ tick' = [tick EXCEPT ![d] = @ + 1]
  /\ file' = [file EXCEPT ![mapped[d]] = [full |-> TRUE, status |-> s, tick |-> tick[d] + 1]]

\* Every publish() of the daemon advances the tick by one.
Publish(d, s) ==
  LET t == (tick[d] + 1) % TickMod
  IN /\ tick' = [tick EXCEPT ![d] = t]
     /\ file' = [file EXCEPT ![mapped[d]] = [full |-> TRUE, status |-> s, tick |-> t]]

\* The publication radar_init ends with.
FirstPublish(d) ==
  /\ pc[d] = "first"
  /\ Publish(d, "starting")
  /\ Goto(d, "live")
  /\ UNCHANGED <<running, last, target, mapped, flag, path, daemonEnv>>

\* One turn of the radar loop that finds nothing to stop it.
LiveTick(d) ==
  /\ pc[d] = "live" /\ running[d] /\ ~flag
  /\ game = target[d]
  /\ \E s \in {"starting", "ready"} : Publish(d, s)
  /\ UNCHANGED <<pc, running, last, target, mapped, flag, path, daemonEnv>>

\* The turn that ends the loop: gRunning, the stop flag, or another game.
LiveEnds(d) ==
  /\ pc[d] = "live"
  /\ \/ ~running[d] /\ UNCHANGED <<flag, running>>
     \/ running[d] /\ ConsumeFlag(d)
     \/ running[d] /\ ~flag /\ game # target[d] /\ UNCHANGED <<flag, running>>
  /\ Goto(d, "destroy")
  /\ UNCHANGED <<last, target, mapped, tick, path, file, daemonEnv>>

\* radar_destroy publishes an empty frame with status 0 and unmaps.
Destroy(d) ==
  /\ pc[d] = "destroy"
  /\ Publish(d, "offline")
  /\ mapped' = [mapped EXCEPT ![d] = None]
  /\ LoopReturns(d)
  /\ UNCHANGED <<running, flag, path, daemonEnv>>

DaemonOther(d) ==
  \/ MainExit(d) \/ MainStopped(d) \/ MainFound(d)
  \/ AttachFails(d)
  \/ Extend(d) \/ FirstPublish(d)
  \/ LiveTick(d) \/ LiveEnds(d) \/ Destroy(d)

-----------------------------------------------------------------------------
(* The controllers.  Each runs one sequence at a time.                     *)

At(c, l) == c \in Controllers /\ ctl[c] = l
Move(c, l) == ctl' = [ctl EXCEPT ![c] = l]

Resting == \A c \in Controllers : ctl[c] = "idle"

Request(c, w) ==
  /\ At(c, "idle")
  /\ requests < MaxRequests
  /\ requests' = requests + 1
  /\ want' = w

\* What a request makes of amiss: two sequences overlap, or it comes too early.
Overlaps(early) ==
  amiss' = IF amiss = "no" /\ (~Resting \/ early) THEN "late" ELSE amiss

\* launchctl kickstart, which may fail.
Kickstart == queued' \in {TRUE, queued}

\* launchctl stop: whether it takes back a kickstart that launchd has not carried
\* out yet is launchd's affair.
TakeBack == queued' \in {FALSE, queued}

\* Fault for mutation: a flag left behind by the last stop is not removed.
AppStartKeepsFlag ==
  /\ Request("app", IF want = "pc" THEN want ELSE "start")
  /\ Overlaps(FALSE)
  /\ IF Alive = {} THEN Kickstart /\ Move("app", "kicked")
                   ELSE UNCHANGED <<queued, ctl>>
  /\ UNCHANGED <<procVars, flag, path, file, job, victim, envVars>>

\* action_start_radar: the stop flag goes; without a daemon, kickstart.
AppStart ==
  /\ Request("app", IF want = "pc" THEN want ELSE "start")
  /\ Overlaps(FALSE)
  /\ flag' = FALSE
  /\ IF Alive = {} THEN Kickstart /\ Move("app", "kicked")
                   ELSE UNCHANGED <<queued, ctl>>
  /\ UNCHANGED <<procVars, path, file, job, victim, envVars>>

\* posix_spawn: a daemon that launchd does not know, beside the one it may yet start.
SpawnDirectly(d) ==
  /\ Boot(d)
  /\ job' = IF job = d THEN None ELSE job
  /\ amiss' = IF queued THEN "twice" ELSE amiss
  /\ Move("app", "idle")
  /\ UNCHANGED <<flag, path, file, queued, victim, want, requests, envVars>>

\* Fault for mutation: the second look for a running daemon is left out.
AppSpawnBlind(d) == At("app", "kicked") /\ SpawnDirectly(d)

\* 100 ms later, still no daemon: it is spawned directly.
AppSpawn(d) == At("app", "kicked") /\ Alive = {} /\ SpawnDirectly(d)

AppStarted ==
  /\ At("app", "kicked")
  /\ Alive # {}
  /\ Move("app", "idle")
  /\ UNCHANGED <<procVars, flag, path, file, launchdVars, victim, want, requests, amiss,
                 envVars>>

\* action_stop_radar, step 1, and the same step of the overlay's button.
WriteFlag(c) ==
  /\ c # "pc"
  /\ Request(c, "stop")
  /\ Overlaps(queued)
  /\ flag' = TRUE
  /\ Move(c, "flagged")
  /\ UNCHANGED <<procVars, path, file, launchdVars, victim, envVars>>

\* Step 2: SIGTERM to the daemon that was found, if there is one.
AppTerm ==
  /\ At("app", "flagged")
  /\ \/ /\ Alive = {}
        /\ Move("app", "launchctl")
        /\ UNCHANGED <<running, victim>>
     \/ \E d \in Alive : /\ Term({d})
                         /\ victim' = d
                         /\ Move("app", "termed")
  /\ UNCHANGED <<pc, last, target, mapped, tick, flag, path, file, launchdVars,
                 want, requests, amiss, envVars>>

\* 50 ms later any daemon is still there: SIGKILL to the one found before.
AppKill ==
  /\ At("app", "termed")
  /\ KillAll(IF Alive = {} THEN {} ELSE {victim})
  /\ victim' = None
  /\ Move("app", "launchctl")
  /\ UNCHANGED <<flag, path, file, launchdVars, want, requests, amiss, envVars>>

\* Step 3: launchctl stop terminates the job.
AppLaunchctl ==
  /\ At("app", "launchctl")
  /\ Term({job} \cap Alive)
  /\ TakeBack
  /\ Move("app", "unlink")
  /\ UNCHANGED <<pc, last, target, mapped, tick, flag, path, file, job, victim,
                 want, requests, amiss, envVars>>

\* The second step of the overlay's button, the first of stop_radar.py.
StopsEvery(c) ==
  \/ At("overlay", "flagged") /\ c = "overlay" /\ UNCHANGED <<want, requests>>
  \/ c = "pc" /\ Request("pc", "stop")

\* No daemon is left, nor one to come: whatever went amiss is over.
Clears(c) ==
  amiss' = IF ~queued' /\ want' = "stop" /\ \A b \in Controllers \ {c} : ctl[b] = "idle"
             THEN "no" ELSE "late"

\* Fault for mutation: the killall finds no process of that name.
KillEveryMisses(c) ==
  /\ StopsEvery(c)
  /\ TakeBack
  /\ Clears(c)
  /\ Move(c, "unlink")
  /\ UNCHANGED <<procVars, flag, path, file, job, victim, envVars>>

\* killall -9 ue4loadmonitor; launchctl stop.
KillEvery(c) ==
  /\ StopsEvery(c)
  /\ KillAll(Alive)
  /\ TakeBack
  /\ Clears(c)
  /\ Move(c, "unlink")
  /\ UNCHANGED <<flag, path, file, job, victim, envVars>>

\* Fault for mutation: the file is left to the daemon's own exit.
UnlinkLeft(c) ==
  /\ At(c, "unlink")
  /\ Move(c, "idle")
  /\ UNCHANGED <<procVars, path, flag, file, launchdVars, victim, want, requests, amiss,
                 envVars>>

\* The last step of every stop: ue4_radar.bin is removed.
Unlink(c) ==
  /\ At(c, "unlink")
  /\ path' = None
  /\ Move(c, "idle")
  /\ UNCHANGED <<procVars, flag, file, launchdVars, victim, want, requests, amiss, envVars>>

\* start_radar.py: launchctl kickstart -k replaces the running instance of the job,
\* but not a daemon the app has spawned; or it fails.
PcStart ==
  /\ Request("pc", "pc")
  /\ \/ /\ KillAll(Alive \cap {job})
        /\ queued' = TRUE
        /\ IF Alive \subseteq {job} THEN Overlaps(FALSE) ELSE amiss' = "twice"
     \/ Overlaps(FALSE) /\ UNCHANGED <<procVars, queued>>
  /\ UNCHANGED <<flag, path, file, job, ctl, victim, envVars>>

\* "Kill Game & Daemon" of start_radar.py: launchctl stop, in one of the two domains
\* the job may be in, and nothing else.  The game is free to exit anyway.
PcKill ==
  /\ Request("pc", "pc")
  /\ Overlaps(FALSE)
  /\ \/ Term({job} \cap Alive) /\ TakeBack
     \/ UNCHANGED <<running, queued>>
  /\ UNCHANGED <<pc, last, target, mapped, tick, flag, path, file, job, ctl, victim, envVars>>

Controlling ==
  \/ AppStarted \/ AppTerm \/ AppKill \/ AppLaunchctl
  \/ \E d \in Daemons : AppSpawn(d)
  \/ KillEvery("overlay")
  \/ \E c \in Controllers : Unlink(c)

Requesting ==
  \/ AppStart \/ PcStart \/ PcKill \/ KillEvery("pc")
  \/ \E c \in Controllers : WriteFlag(c)

Environment ==
  \/ \E d \in Daemons : Killed(d)
  \/ \E g \in Games : GameLaunch(g)
  \/ GameExit

Next ==
  \/ \E d \in Daemons : \/ DaemonOther(d) \/ AttachOk(d) \/ LaunchdSpawn(d)
                        \/ \E i \in Inodes : Open(d, i)
  \/ Controlling
  \/ Requesting
  \/ Environment

Spec == Init /\ [][Next]_vars

\* Every process keeps running; task_for_pid on a game that stays up succeeds
\* in the end; requests, kills and game launches are never obliged to happen.
Fairness ==
  /\ \A d \in Daemons : /\ WF_vars(DaemonOther(d) \/ \E i \in Inodes : Open(d, i))
                        /\ SF_vars(AttachOk(d))
  /\ WF_vars(\E d \in Daemons : LaunchdSpawn(d))
  /\ WF_vars(Controlling)

FairSpec == Spec /\ Fairness

-----------------------------------------------------------------------------
(* Properties.                                                             *)

\* Every variable keeps its type.
TypeOK ==
  /\ pc \in [Daemons -> {"off", "main", "attach", "open", "extend", "first",
                         "live", "destroy"}]
  /\ running \in [Daemons -> BOOLEAN]
  /\ last \in [Daemons -> Games \cup {None}]
  /\ target \in [Daemons -> Games \cup {None}]
  /\ mapped \in [Daemons -> Inodes \cup {None}]
  /\ tick \in [Daemons -> 0..(TickMod - 1)]
  /\ flag \in BOOLEAN /\ path \in Inodes \cup {None}
  /\ file \in [Inodes -> [full : BOOLEAN, tick : 0..(TickMod - 1),
                          status : {"blank", "offline", "starting", "ready"}]]
  /\ game \in Games \cup {None} /\ queued \in BOOLEAN
  /\ job \in Daemons \cup {None} /\ victim \in Daemons \cup {None}
  /\ ctl \in [Controllers -> {"idle", "kicked", "flagged", "termed", "launchctl", "unlink"}]
  /\ want \in {"start", "pc", "stop"} /\ amiss \in {"no", "late", "twice"}
  /\ requests \in 0..MaxRequests /\ kills \in 0..MaxKills /\ launches \in 0..MaxLaunches

\* At most one daemon writes a given file, the condition under which the sequence
\* protocol of RadarShm keeps torn frames out; unless the app's own spawn crossed a
\* kickstart launchd had yet to carry out, or a PC's kickstart passed by a daemon
\* of the app's.  A stop by the overlay or a PC ends both and the exception.
SingleWriter ==
  amiss # "twice" =>
    \A d, e \in Daemons : mapped[d] # None /\ mapped[d] = mapped[e] => d = e

\* A daemon that publishes and has not been told to stop writes the file other
\* programs find under RADAR_FILE_PATH, never an unlinked one.
LiveFileLinked ==
  amiss = "no" => \A d \in Daemons : pc[d] = "live" /\ running[d] => mapped[d] = path

\* A stop that nothing follows leaves no daemon and no shared file behind, also
\* one by the overlay or a PC that found two daemons.
StopHolds == <>[](want = "stop" /\ Resting /\ amiss = "no") =>
             <>[](Alive = {} /\ path = None)

\* A daemon that stays up while one game stays up ends in the radar loop of
\* that game, whatever games and failures to attach came before.
FollowsGame ==
  \A d \in Daemons, g \in Games :
    <>[](game = g /\ d \in Alive /\ running[d] /\ ~flag) =>
    <>[](pc[d] = "live" /\ target[d] = g)

\* A start by the app after a stop, that nothing follows, neither a request nor a
\* crash, leaves a daemon running: whoever made the stop has left nothing that
\* would end it, for the app takes the stop flag away (app/main.c:222).
StartHolds == <>[](want = "start" /\ Resting /\ amiss = "no" /\ kills = 0) =>
              <>[](Alive # {})
=============================================================================
