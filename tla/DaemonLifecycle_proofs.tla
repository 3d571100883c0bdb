----------------------- MODULE DaemonLifecycle_proofs -----------------------
(***************************************************************************)
(* Types; one daemon at a time, unless a start went past another; the file *)
(* of a running daemon stays linked, and a stop or start that is over has  *)
(* done what was asked, unless it overlapped another or came too early;    *)
(* and the overlay composed with all of it.  For any number of requests in *)
(* any order, crashes, game launches, process slots and inodes, and        *)
(* however late launchd is.                                                *)
(***************************************************************************)
EXTENDS OverlayLink, TLAPS

(***************************************************************************)
(* Type correctness.                                                       *)
(***************************************************************************)

Pcs == {"off", "main", "attach", "open", "extend", "first", "live", "destroy"}
Steps == {"idle", "kicked", "flagged", "termed", "launchctl", "unlink"}
Statuses == {"blank", "offline", "starting", "ready"}
Headers == [full : BOOLEAN, tick : 0..(TickMod - 1), status : Statuses]

\* The type invariant in three parts: processes, files and controllers.
ProcType ==
  /\ pc \in [Daemons -> Pcs] /\ running \in [Daemons -> BOOLEAN]
  /\ last \in [Daemons -> Games \cup {None}]
  /\ target \in [Daemons -> Games \cup {None}]
  /\ mapped \in [Daemons -> Inodes \cup {None}]
  /\ tick \in [Daemons -> 0..(TickMod - 1)]
FileType ==
  /\ flag \in BOOLEAN /\ path \in Inodes \cup {None} /\ file \in [Inodes -> Headers]
OtherType ==
  /\ game \in Games \cup {None} /\ queued \in BOOLEAN
  /\ job \in Daemons \cup {None} /\ victim \in Daemons \cup {None}
  /\ ctl \in [Controllers -> Steps] /\ want \in {"start", "pc", "stop"}
  /\ amiss \in {"no", "late", "twice"}
  /\ requests \in 0..MaxRequests /\ kills \in 0..MaxKills /\ launches \in 0..MaxLaunches

LEMMA TypeParts == TypeOK <=> ProcType /\ FileType /\ OtherType
  BY DEF TypeOK, ProcType, FileType, OtherType, Pcs, Steps, Headers, Statuses

\* Nothing runs in the beginning.
LEMMA TypeInit == Init => TypeOK
<1> SUFFICES ASSUME Init PROVE ProcType /\ FileType /\ OtherType
  BY TypeParts
<1>1. ProcType
  BY TickAssumption DEF Init, ProcType, Pcs
<1>2. FileType
  <2>1. Blank \in Headers
    BY TickAssumption DEF Headers, Statuses, Blank
  <2>2. flag \in BOOLEAN
    BY DEF Init
  <2> QED BY <2>1, <2>2 DEF Init, FileType
<1>3. OtherType
  <2>1. queued \in BOOLEAN
    BY DEF Init
  <2>2. requests \in 0..MaxRequests /\ kills \in 0..MaxKills /\ launches \in 0..MaxLaunches
    BY BoundsAssumption DEF Init
  <2> QED BY <2>1, <2>2 DEF Init, OtherType, Steps
<1> QED BY <1>1, <1>2, <1>3

\* What the helpers do to the processes keeps their types.
LEMMA BootType ==
  ASSUME ProcType, NEW d \in Daemons, Boot(d)
  PROVE  ProcType'
  BY DEF Boot, ProcType, Pcs

LEMMA ForgetType ==
  ASSUME ProcType, NEW D, Forget(D), UNCHANGED <<target, mapped, tick>>
  PROVE  ProcType'
  BY DEF Forget, ProcType, Pcs

LEMMA KillType ==
  ASSUME ProcType, NEW D, KillAll(D)
  PROVE  ProcType'
  BY DEF KillAll, Forget, ProcType, Pcs

LEMMA TermType ==
  ASSUME ProcType, NEW D, Term(D), UNCHANGED <<pc, last, target, mapped, tick>>
  PROVE  ProcType'
  BY DEF Term, ProcType

LEMMA LoopReturnsType ==
  ASSUME ProcType, NEW d \in Daemons, LoopReturns(d), UNCHANGED <<running, mapped>>,
         tick' \in [Daemons -> 0..(TickMod - 1)]
  PROVE  ProcType'
  BY DEF LoopReturns, Goto, ProcType, Pcs

\* A publication stores a header.
LEMMA PublishType ==
  ASSUME ProcType, FileType, NEW d \in Daemons, NEW s \in Statuses, Publish(d, s)
  PROVE  /\ tick' \in [Daemons -> 0..(TickMod - 1)] /\ file' \in [Inodes -> Headers]
<1>1. (tick[d] + 1) % TickMod \in 0..(TickMod - 1)
  BY TickAssumption DEF ProcType
<1>2. [full |-> TRUE, status |-> s, tick |-> (tick[d] + 1) % TickMod] \in Headers
  BY <1>1 DEF Headers
<1> QED BY <1>1, <1>2 DEF Publish, ProcType, FileType

\* Every step keeps every variable in its type.
LEMMA TypeNext == TypeOK /\ [Next]_vars => TypeOK'
<1> SUFFICES ASSUME ProcType, FileType, OtherType, [Next]_vars
             PROVE  ProcType' /\ FileType' /\ OtherType'
  BY TypeParts DEF TypeOK, ProcType, FileType, OtherType, Pcs, Steps, Headers, Statuses
<1> USE DEF procVars, ctlVars, launchdVars, envVars, daemonEnv
<1>1. ASSUME NEW d \in Daemons, DaemonOther(d) PROVE ProcType' /\ FileType' /\ OtherType'
  <2>1. CASE MainExit(d)
    BY <2>1, ForgetType DEF MainExit, FileType, OtherType
  <2>2. CASE MainStopped(d)
    BY <2>2 DEF MainStopped, ConsumeFlag, ProcType, FileType, OtherType
  <2>3. CASE MainFound(d)
    BY <2>3 DEF MainFound, Goto, ProcType, FileType, OtherType, Pcs
  <2>4. CASE AttachFails(d)
    <3>1. tick' \in [Daemons -> 0..(TickMod - 1)]
      BY <2>4 DEF AttachFails, ProcType
    <3> QED BY <2>4, <3>1, LoopReturnsType DEF AttachFails, FileType, OtherType
  <2>5. CASE Extend(d)
    <3>1. file' \in [Inodes -> Headers]
      BY <2>5 DEF Extend, FileType, Headers
    <3> QED BY <2>5, <3>1, TickAssumption DEF Extend, Goto, ProcType, FileType, OtherType, Pcs
  <2>6. CASE FirstPublish(d)
    <3>1. tick' \in [Daemons -> 0..(TickMod - 1)] /\ file' \in [Inodes -> Headers]
      BY <2>6, PublishType DEF FirstPublish, Statuses
    <3> QED BY <2>6, <3>1 DEF FirstPublish, Goto, ProcType, FileType, OtherType, Pcs
  <2>7. CASE LiveTick(d)
    <3>1. tick' \in [Daemons -> 0..(TickMod - 1)] /\ file' \in [Inodes -> Headers]
      BY <2>7, PublishType DEF LiveTick, Statuses
    <3> QED BY <2>7, <3>1 DEF LiveTick, ProcType, FileType, OtherType
  <2>8. CASE LiveEnds(d)
    BY <2>8 DEF LiveEnds, ConsumeFlag, Goto, ProcType, FileType, OtherType, Pcs
  <2>9. CASE Destroy(d)
    <3>1. tick' \in [Daemons -> 0..(TickMod - 1)] /\ file' \in [Inodes -> Headers]
      BY <2>9, PublishType DEF Destroy, Statuses
    <3>2. ProcType'
      BY <2>9, <3>1 DEF Destroy, LoopReturns, Goto, ProcType, Pcs
    <3> QED BY <2>9, <3>1, <3>2 DEF Destroy, FileType, OtherType
  <2> QED BY <1>1, <2>1, <2>2, <2>3, <2>4, <2>5, <2>6, <2>7, <2>8, <2>9 DEF DaemonOther
<1>2. ASSUME NEW d \in Daemons, AttachOk(d) PROVE ProcType' /\ FileType' /\ OtherType'
  BY <1>2 DEF AttachOk, Goto, ProcType, FileType, OtherType, Pcs
<1>3. ASSUME NEW d \in Daemons, LaunchdSpawn(d) PROVE ProcType' /\ FileType' /\ OtherType'
  BY <1>3, BootType DEF LaunchdSpawn, FileType, OtherType
<1>4. ASSUME NEW d \in Daemons, NEW i \in Inodes, Open(d, i)
      PROVE  ProcType' /\ FileType' /\ OtherType'
  <2>1. file' \in [Inodes -> Headers]
    <3>1. Blank \in Headers
      BY TickAssumption DEF Blank, Headers, Statuses
    <3> QED BY <1>4, <3>1 DEF Open, FileType
  <2> QED BY <1>4, <2>1 DEF Open, Goto, ProcType, FileType, OtherType, Pcs
<1>5. CASE Controlling
  <2>1. CASE AppStarted
    BY <2>1 DEF AppStarted, Move, ProcType, FileType, OtherType, Steps
  <2>2. CASE AppTerm
    <3>1. ProcType'
      <4>1. CASE UNCHANGED running
        BY <2>2, <4>1 DEF AppTerm, ProcType
      <4>2. ASSUME NEW d \in Alive, Term({d}) PROVE ProcType'
        BY <2>2, <4>2, TermType DEF AppTerm
      <4> QED BY <2>2, <4>1, <4>2 DEF AppTerm
    <3>2. OtherType'
      BY <2>2 DEF AppTerm, Move, OtherType, Steps, Alive
    <3> QED BY <2>2, <3>1, <3>2 DEF AppTerm, FileType
  <2>3. CASE AppKill
    BY <2>3, KillType DEF AppKill, Move, FileType, OtherType, Steps
  <2>4. CASE AppLaunchctl
    BY <2>4, TermType DEF AppLaunchctl, TakeBack, Move, FileType, OtherType, Steps
  <2>5. ASSUME NEW d \in Daemons, AppSpawn(d) PROVE ProcType' /\ FileType' /\ OtherType'
    BY <2>5, BootType DEF AppSpawn, SpawnDirectly, Move, FileType, OtherType, Steps
  <2>6. CASE KillEvery("overlay")
    BY <2>6, KillType DEF KillEvery, StopsEvery, TakeBack, Clears, Move, Request, FileType,
         OtherType, Steps
  <2>7. ASSUME NEW c \in Controllers, Unlink(c) PROVE ProcType' /\ FileType' /\ OtherType'
    BY <2>7 DEF Unlink, Move, ProcType, FileType, OtherType, Steps
  <2> QED BY <1>5, <2>1, <2>2, <2>3, <2>4, <2>5, <2>6, <2>7 DEF Controlling
<1>6. CASE Requesting
  <2>0. ASSUME NEW c, NEW w \in {"start", "pc", "stop"}, Request(c, w)
        PROVE  requests' \in 0..MaxRequests /\ want' \in {"start", "pc", "stop"}
    BY <2>0, BoundsAssumption DEF Request, OtherType
  <2>a. ASSUME NEW early, Overlaps(early) PROVE amiss' \in {"no", "late", "twice"}
    BY <2>a DEF Overlaps, OtherType
  <2>1. CASE AppStart
    <3>1. (IF want = "pc" THEN want ELSE "start") \in {"start", "pc", "stop"}
      OBVIOUS
    <3> QED BY <2>0, <2>a, <2>1, <3>1 DEF AppStart, Kickstart, Move, ProcType, FileType,
             OtherType, Steps
  <2>2. CASE PcStart
    <3>1. ProcType'
      BY <2>2, KillType DEF PcStart, ProcType
    <3>2. amiss' \in {"no", "late", "twice"}
      BY <2>2, <2>a DEF PcStart
    <3> QED BY <2>0, <2>2, <3>1, <3>2 DEF PcStart, FileType, OtherType
  <2>3. CASE KillEvery("pc")
    BY <2>0, <2>3, KillType DEF KillEvery, StopsEvery, At, TakeBack, Clears, Move, FileType,
         OtherType, Steps
  <2>4. ASSUME NEW c \in Controllers, WriteFlag(c) PROVE ProcType' /\ FileType' /\ OtherType'
    BY <2>0, <2>a, <2>4 DEF WriteFlag, Move, ProcType, FileType, OtherType, Steps
  <2>5. CASE PcKill
    <3>1. ProcType'
      BY <2>5, TermType DEF PcKill, ProcType
    <3> QED BY <2>0, <2>a, <2>5, <3>1 DEF PcKill, TakeBack, FileType, OtherType
  <2> QED BY <1>6, <2>1, <2>2, <2>3, <2>4, <2>5 DEF Requesting
<1>7. CASE Environment
  <2>1. ASSUME NEW d \in Daemons, Killed(d) PROVE ProcType' /\ FileType' /\ OtherType'
    <3>1. kills' \in 0..MaxKills
      BY <2>1, BoundsAssumption DEF Killed, OtherType
    <3> QED BY <2>1, <3>1, KillType DEF Killed, FileType, OtherType
  <2>2. ASSUME NEW g \in Games, GameLaunch(g) PROVE ProcType' /\ FileType' /\ OtherType'
    <3>1. launches' \in 0..MaxLaunches
      BY <2>2, BoundsAssumption DEF GameLaunch, OtherType
    <3> QED BY <2>2, <3>1 DEF GameLaunch, ProcType, FileType, OtherType
  <2>3. CASE GameExit
    BY <2>3 DEF GameExit, ProcType, FileType, OtherType
  <2> QED BY <1>7, <2>1, <2>2, <2>3 DEF Environment
<1>8. CASE UNCHANGED vars
  BY <1>8 DEF vars, ProcType, FileType, OtherType
<1> QED BY <1>1, <1>2, <1>3, <1>4, <1>5, <1>6, <1>7, <1>8 DEF Next

\* Every variable of the lifecycle keeps its type.
THEOREM TypeCorrect == Spec => []TypeOK
<1> QED BY TypeInit, TypeNext, PTL DEF Spec

(***************************************************************************)
(* One daemon at a time.                                                   *)
(***************************************************************************)

\* A kickstart waits only while no daemon runs, and a second daemon never joins
\* one that is alive.
OneAlive == /\ \A d, e \in Alive : d = e
            /\ queued => Alive = {}

\* Only a process between radar_init and the end of radar_destroy holds a file.
Holds == \A d \in Daemons : mapped[d] # None => pc[d] \in {"extend", "first", "live", "destroy"}

OneInv == (amiss # "twice" => OneAlive) /\ Holds

\* No process in the beginning.
LEMMA OneInit == Init => OneInv
  BY DEF Init, OneInv, OneAlive, Holds, Alive

\* launchctl stop never adds a kickstart.
LEMMA TakeBackOnly == TakeBack => (queued' => queued)
<1> SUFFICES ASSUME queued' \in {FALSE, queued} PROVE queued' => queued
  BY DEF TakeBack
<1>1. CASE queued' = FALSE
  BY <1>1, Zenon
<1>2. CASE queued' = queued
  BY <1>2, Zenon
<1> QED BY <1>1, <1>2

\* What went amiss stays so until a killall has left no daemon.
LEMMA AmissStays ==
  ASSUME [Next]_vars, OtherType
  PROVE  \/ (amiss = "twice" => amiss' = "twice") /\ (amiss' = "no" => amiss = "no")
         \/ KillEvery("overlay") \/ KillEvery("pc")
<1> USE DEF procVars, ctlVars, launchdVars, envVars, daemonEnv
<1>1. ASSUME NEW d \in Daemons,
             DaemonOther(d) \/ AttachOk(d) \/ LaunchdSpawn(d) \/ \E i \in Inodes : Open(d, i)
      PROVE  UNCHANGED amiss
  BY <1>1 DEF DaemonOther, MainExit, MainStopped, MainFound, AttachFails, AttachOk, Open, Extend,
       FirstPublish, LiveTick, LiveEnds, Destroy, LaunchdSpawn
<1>2. CASE Controlling
  BY <1>2 DEF Controlling, AppStarted, AppTerm, AppKill, AppLaunchctl, AppSpawn, SpawnDirectly,
       Unlink
<1>3. CASE Requesting
  BY <1>3 DEF Requesting, AppStart, PcStart, PcKill, WriteFlag, Overlaps
<1>4. CASE Environment \/ UNCHANGED vars
  BY <1>4 DEF Environment, Killed, GameLaunch, GameExit, vars
<1> QED BY <1>1, <1>2, <1>3, <1>4 DEF Next

\* SIGKILL takes the file with the process.
LEMMA KillKeeps ==
  ASSUME Holds, NEW D, KillAll(D)
  PROVE  Alive' \subseteq Alive /\ Holds'
  BY DEF KillAll, Forget, Holds, Alive

\* SIGKILL to every daemon that is left leaves none.
LEMMA KillLast ==
  ASSUME NEW D, KillAll(D), Alive \subseteq D
  PROVE  Alive' = {}
  BY DEF KillAll, Forget, Alive

\* A process that starts holds no file, and is the only one if there was none.
LEMMA BootKeeps ==
  ASSUME Holds, ProcType, NEW d \in Daemons, Boot(d)
  PROVE  Holds' /\ Alive' \subseteq Alive \cup {d}
  BY DEF Boot, Holds, Alive, ProcType

\* A step that starts no process and queues nothing.
LEMMA OneQuiet ==
  ASSUME OneAlive, Alive' \subseteq Alive, queued' => queued
  PROVE  OneAlive'
  BY DEF OneAlive

LEMMA OneBoot ==
  ASSUME NEW d \in Daemons, Alive' \subseteq {d}, ~queued'
  PROVE  OneAlive'
  BY DEF OneAlive

\* The steps of a daemon start no process, and a file is held where it is opened.
LEMMA DaemonQuiet ==
  ASSUME ProcType, Holds, NEW d \in Daemons,
         DaemonOther(d) \/ AttachOk(d) \/ \E i \in Inodes : Open(d, i)
  PROVE  Holds' /\ Alive' \subseteq Alive /\ UNCHANGED <<queued, ctl, victim, amiss>>
<1> USE DEF procVars, ctlVars, launchdVars, envVars, daemonEnv
<1>1. CASE MainExit(d)
  BY <1>1 DEF MainExit, Forget, ProcType, Holds, Alive
<1>2. CASE MainStopped(d) \/ MainFound(d) \/ AttachFails(d) \/ AttachOk(d) \/ LiveEnds(d)
  BY <1>2 DEF MainStopped, MainFound, AttachFails, AttachOk, LiveEnds, LoopReturns, Goto, ProcType,
       Holds, Alive
<1>3. CASE Extend(d) \/ FirstPublish(d) \/ LiveTick(d) \/ Destroy(d)
  BY <1>3 DEF Extend, FirstPublish, LiveTick, Destroy, LoopReturns, Goto, ProcType, Holds, Alive
<1>4. ASSUME NEW i \in Inodes, Open(d, i)
      PROVE  Holds' /\ Alive' \subseteq Alive /\ UNCHANGED <<queued, ctl, victim, amiss>>
  BY <1>4 DEF Open, Goto, ProcType, Holds, Alive
<1> QED BY <1>1, <1>2, <1>3, <1>4 DEF DaemonOther

\* After every step at most one daemon is alive, unless a start went past another,
\* and a file is held only where it was opened.
LEMMA OneNext == OneInv /\ TypeOK /\ [Next]_vars => OneInv'
<1> SUFFICES ASSUME OneInv, ProcType, OtherType, [Next]_vars
             PROVE  Holds' /\ (amiss' # "twice" => OneAlive')
  BY TypeParts DEF OneInv
<1> USE DEF procVars, ctlVars, launchdVars, envVars
<1>0. Holds
  BY DEF OneInv
<1>a. ASSUME NEW c, KillEvery(c) PROVE Holds' /\ OneAlive'
  <2>1. Alive' = {} /\ Holds'
    BY <1>0, <1>a, KillLast, KillKeeps DEF KillEvery
  <2> QED BY <2>1 DEF OneAlive
<1>b. (amiss' # "twice" => amiss # "twice") \/ KillEvery("overlay") \/ KillEvery("pc")
  BY AmissStays
<1> SUFFICES ASSUME amiss' # "twice" => OneAlive
             PROVE  Holds' /\ (amiss' # "twice" => OneAlive')
  BY <1>a, <1>b DEF OneInv
<1>1. ASSUME NEW d \in Daemons,
             DaemonOther(d) \/ AttachOk(d) \/ \E i \in Inodes : Open(d, i)
      PROVE  Holds' /\ (amiss' # "twice" => OneAlive')
  BY <1>0, <1>1, DaemonQuiet, OneQuiet
<1>2. ASSUME NEW d \in Daemons, LaunchdSpawn(d)
      PROVE  Holds' /\ (amiss' # "twice" => OneAlive')
  <2>1. queued /\ ~queued' /\ Boot(d)
    BY <1>2 DEF LaunchdSpawn
  <2>2. amiss' # "twice" => Alive' \subseteq {d}
    BY <1>0, <2>1, BootKeeps DEF OneAlive
  <2> QED BY <1>0, <2>1, <2>2, BootKeeps, OneBoot
<1>3. CASE Controlling
  <2>1. CASE AppStarted \/ AppTerm \/ AppLaunchctl
    <3>1. Alive' = Alive /\ UNCHANGED <<pc, mapped>>
      BY <2>1 DEF AppStarted, AppTerm, AppLaunchctl, Term, Alive
    <3>2. queued' => queued
      <4>1. CASE AppLaunchctl
        BY <4>1, TakeBackOnly, Zenon DEF AppLaunchctl
      <4>2. CASE UNCHANGED queued
        BY <4>2, Zenon
      <4> QED BY <2>1, <4>1, <4>2 DEF AppStarted, AppTerm
    <3> QED BY <1>0, <3>1, <3>2, OneQuiet DEF Holds
  <2>2. CASE AppKill
    BY <1>0, <2>2, KillKeeps, OneQuiet DEF AppKill
  <2>3. ASSUME NEW d \in Daemons, AppSpawn(d) PROVE Holds' /\ (amiss' # "twice" => OneAlive')
    <3>1. /\ Boot(d) /\ Alive = {} /\ UNCHANGED queued
          /\ amiss' = IF queued THEN "twice" ELSE amiss
      BY <2>3 DEF AppSpawn, SpawnDirectly
    <3>2. Alive' \subseteq {d}
      BY <1>0, <3>1, BootKeeps
    <3> QED BY <1>0, <3>1, <3>2, BootKeeps, OneBoot
  <2>4. CASE KillEvery("overlay")
    BY <1>a, <2>4
  <2>5. ASSUME NEW c \in Controllers, Unlink(c) PROVE Holds' /\ (amiss' # "twice" => OneAlive')
    BY <1>0, <2>5, OneQuiet DEF Unlink, Alive, Holds
  <2> QED BY <1>3, <2>1, <2>2, <2>3, <2>4, <2>5 DEF Controlling
<1>4. CASE Requesting
  <2>1. CASE AppStart
    <3>1. Alive' = Alive /\ UNCHANGED <<pc, mapped>> /\ (queued' => queued \/ Alive = {})
      BY <2>1 DEF AppStart, Kickstart, Alive
    <3> QED BY <1>0, <3>1 DEF OneAlive, Holds
  <2>2. ASSUME NEW c \in Controllers, WriteFlag(c)
        PROVE  Holds' /\ (amiss' # "twice" => OneAlive')
    BY <1>0, <2>2, OneQuiet DEF WriteFlag, Alive, Holds
  <2>3. CASE KillEvery("pc")
    BY <1>a, <2>3
  <2>4. CASE PcStart
    <3>1. CASE UNCHANGED <<procVars, queued>>
      BY <1>0, <3>1, OneQuiet DEF Alive, Holds
    <3>2. CASE KillAll(Alive \cap {job}) /\ (Alive \subseteq {job} \/ amiss' = "twice")
      <4>1. Alive \subseteq {job} => Alive' = {}
        BY <3>2, KillLast
      <4> QED BY <1>0, <3>2, <4>1, KillKeeps DEF OneAlive
    <3> QED BY <2>4, <3>1, <3>2 DEF PcStart
  <2>5. CASE PcKill
    <3>1. Alive' = Alive /\ UNCHANGED <<pc, mapped>> /\ (TakeBack \/ UNCHANGED queued)
      BY <2>5 DEF PcKill, Alive
    <3>2. queued' => queued
      <4>1. CASE TakeBack
        BY <4>1, TakeBackOnly
      <4>2. CASE UNCHANGED queued
        BY <4>2, Zenon
      <4> QED BY <3>1, <4>1, <4>2
    <3> QED BY <1>0, <3>1, <3>2, OneQuiet DEF Holds
  <2> QED BY <1>4, <2>1, <2>2, <2>3, <2>4, <2>5 DEF Requesting
<1>5. CASE Environment
  <2>1. ASSUME NEW d \in Daemons, Killed(d) PROVE Holds' /\ (amiss' # "twice" => OneAlive')
    BY <1>0, <2>1, KillKeeps, OneQuiet DEF Killed
  <2>2. CASE GameExit \/ \E g \in Games : GameLaunch(g)
    BY <1>0, <2>2, OneQuiet DEF GameExit, GameLaunch, Alive, Holds
  <2> QED BY <1>5, <2>1, <2>2 DEF Environment
<1>6. CASE UNCHANGED vars
  BY <1>0, <1>6, OneQuiet DEF vars, Alive, Holds
<1> QED BY <1>1, <1>2, <1>3, <1>4, <1>5, <1>6 DEF Next

\* No file ever has two writers, the condition of RadarShm, whatever requests
\* overlap and however late launchd is, but for the two starts that amiss names: the
\* app's spawn while a kickstart is owed, and a PC's kickstart beside a daemon that
\* launchd does not know; and only until a stop by the overlay or a PC.
THEOREM OneWriterPerFile == Spec => []SingleWriter
<1>1. OneInv => SingleWriter
  BY DEF OneInv, OneAlive, Holds, SingleWriter, Alive
<1> QED BY <1>1, OneInit, OneNext, TypeCorrect, PTL DEF Spec

(***************************************************************************)
(* The file of a running daemon stays linked.                              *)
(***************************************************************************)

\* One sequence at a time, and what is known at each of its places: launchd owes
\* nothing once a stop has begun; the pid the app has terminated is the only one;
\* and no daemon is left before the file is unlinked.
Sequences ==
  /\ \A b, c \in Controllers : ctl[b] # "idle" /\ ctl[c] # "idle" => b = c
  /\ \A c \in Controllers :
       /\ ctl[c] \notin {"idle", "kicked"} => ~queued
       /\ ctl[c] = "termed" => Alive \subseteq {victim}
       /\ ctl[c] \in {"launchctl", "unlink"} => Alive = {}

\* A daemon that has opened the file holds the one that is linked.
Linked == \A d \in Daemons : pc[d] \in {"extend", "first", "live"} => mapped[d] = path

FileInv == amiss = "no" => Sequences /\ Linked

\* A step of no controller that starts no process.
LEMMA SequencesKeep ==
  ASSUME Sequences, Alive' \subseteq Alive, queued' => queued, UNCHANGED <<ctl, victim>>
  PROVE  Sequences'
  BY DEF Sequences

\* A process that starts is in a sequence of a start, or in none.
LEMMA SequencesBoot ==
  ASSUME Sequences, \A c \in Controllers : ctl[c] \in {"idle", "kicked"},
         \A b \in Controllers : ctl'[b] \in {ctl[b], "idle"}
  PROVE  Sequences'
  BY DEF Sequences

\* A request after which nothing is amiss was made with every controller at rest.
LEMMA RequestFirst ==
  ASSUME NEW c, NEW w, NEW early, Request(c, w), Overlaps(early), amiss' = "no"
  PROVE  /\ c \in Controllers /\ amiss = "no" /\ ~early
         /\ \A b \in Controllers : ctl[b] = "idle"
  BY DEF Request, Overlaps, At, Resting

\* One controller moves on, the others rest, and what its new place says holds.
LEMMA SequencesMove ==
  ASSUME OtherType, NEW c \in Controllers, NEW l \in Steps, Move(c, l),
         \A b \in Controllers : b # c => ctl[b] = "idle",
         l \notin {"idle", "kicked"} => ~queued',
         l = "termed" => Alive' \subseteq {victim'},
         l \in {"launchctl", "unlink"} => Alive' = {}
  PROVE  Sequences'
<1>1. \A b \in Controllers : ctl'[b] = IF b = c THEN l ELSE "idle"
  BY DEF Move, OtherType
<1> QED BY <1>1 DEF Sequences

\* A step that moves no daemon into the file and leaves the path alone.
LEMMA LinkedKeeps ==
  ASSUME Linked, UNCHANGED path,
         \A d \in Daemons : pc'[d] \in {"extend", "first", "live"} =>
            pc[d] \in {"extend", "first", "live"} /\ mapped'[d] = mapped[d]
  PROVE  Linked'
  BY DEF Linked

LEMMA LinkedKilled ==
  ASSUME Linked, UNCHANGED path, NEW D, KillAll(D)
  PROVE  Linked'
<1>1. \A d \in Daemons : pc'[d] \in {"extend", "first", "live"} =>
         pc[d] \in {"extend", "first", "live"} /\ mapped'[d] = mapped[d]
  BY DEF KillAll, Forget
<1> QED BY <1>1, LinkedKeeps

LEMMA LinkedBooted ==
  ASSUME Linked, ProcType, UNCHANGED path, NEW d \in Daemons, Boot(d)
  PROVE  Linked'
<1>1. \A e \in Daemons : pc'[e] \in {"extend", "first", "live"} =>
         pc[e] \in {"extend", "first", "live"} /\ mapped'[e] = mapped[e]
  BY DEF Boot, ProcType
<1> QED BY <1>1, LinkedKeeps

\* Without a daemon there is none to hold a file.
LEMMA LinkedNone ==
  ASSUME Alive' = {}
  PROVE  Linked'
  BY DEF Linked, Alive

LEMMA FileInit == Init => FileInv
  BY DEF Init, FileInv, Sequences, Linked, Alive

\* Every step of a daemon keeps both: it opens or unlinks the file as the only one.
LEMMA FileDaemon ==
  ASSUME OneAlive, Holds, ProcType, Sequences, Linked, NEW d \in Daemons,
         DaemonOther(d) \/ AttachOk(d) \/ \E i \in Inodes : Open(d, i)
  PROVE  Sequences' /\ Linked'
<1> USE DEF procVars, ctlVars, launchdVars, envVars, daemonEnv
<1>1. Sequences'
  BY DaemonQuiet, SequencesKeep
<1>2. Linked'
  <2>1. CASE MainExit(d)
    <3>1. Alive' = {}
      BY <2>1 DEF MainExit, Forget, Alive, OneAlive
    <3> QED BY <3>1, LinkedNone
  <2>2. CASE Extend(d) \/ FirstPublish(d)
    BY <2>2 DEF Extend, FirstPublish, Goto, ProcType, Linked
  <2>3. CASE MainStopped(d) \/ LiveTick(d)
    BY <2>3 DEF MainStopped, LiveTick, Linked
  <2>4. CASE MainFound(d) \/ AttachFails(d) \/ AttachOk(d) \/ LiveEnds(d) \/ Destroy(d)
    BY <2>4 DEF MainFound, AttachFails, AttachOk, LiveEnds, Destroy, LoopReturns, Goto,
         ProcType, Linked
  <2>5. ASSUME NEW i \in Inodes, Open(d, i) PROVE Linked'
    <3>1. \A e \in Daemons : e # d => pc'[e] = "off"
      BY <2>5 DEF Open, Goto, ProcType, OneAlive, Alive
    <3> QED BY <2>5, <3>1 DEF Open, Goto, ProcType, Linked
  <2> QED BY <2>1, <2>2, <2>3, <2>4, <2>5 DEF DaemonOther
<1> QED BY <1>1, <1>2

\* A killall that leaves nothing amiss leaves no daemon and none to come.
LEMMA FileKilled ==
  ASSUME OtherType, NEW c \in Controllers, KillEvery(c), amiss' = "no"
  PROVE  Sequences' /\ Linked'
<1>1. Alive' = {}
  BY KillLast DEF KillEvery
<1>2. ~queued' /\ Move(c, "unlink") /\ \A b \in Controllers : b # c => ctl[b] = "idle"
  BY DEF KillEvery, Clears
<1> QED BY <1>1, <1>2, SequencesMove, LinkedNone DEF Steps

\* Every other step of a controller, from the place where it is in its sequence.
LEMMA FileControlling ==
  ASSUME OneAlive, ProcType, OtherType, Sequences, Linked, Controlling, amiss' = "no",
         ~KillEvery("overlay")
  PROVE  Sequences' /\ Linked'
<1> USE DEF procVars, ctlVars, launchdVars, envVars
<1>0. ASSUME NEW c \in Controllers, ctl[c] # "idle"
      PROVE  \A b \in Controllers : b # c => ctl[b] = "idle"
  BY <1>0 DEF Sequences
<1>1. CASE AppStarted
  <2>1. Sequences'
    BY <1>1, <1>0, SequencesMove DEF AppStarted, At, Steps
  <2> QED BY <1>1, <2>1 DEF AppStarted, Linked
<1>2. CASE AppTerm
  <2>0. "app" \in Controllers /\ ctl["app"] = "flagged" /\ UNCHANGED queued /\ Alive' = Alive
    BY <1>2 DEF AppTerm, At, Alive
  <2>1. ~queued'
    BY <2>0 DEF Sequences
  <2>2. ASSUME Alive = {}, Move("app", "launchctl") PROVE Sequences'
    <3>1. Alive' = {} /\ \A b \in Controllers : b # "app" => ctl[b] = "idle"
      BY <2>0, <2>2, <1>0
    <3> QED BY <2>0, <2>1, <2>2, <3>1, SequencesMove DEF Steps
  <2>3. ASSUME NEW d \in Alive, victim' = d, Move("app", "termed") PROVE Sequences'
    <3>1. Alive' \subseteq {victim'}
      BY <2>0, <2>3 DEF OneAlive
    <3> QED BY <2>0, <2>1, <2>3, <3>1, <1>0, SequencesMove DEF Steps
  <2>4. Sequences'
    <3>1. \/ Alive = {} /\ Move("app", "launchctl")
          \/ \E d \in Alive : victim' = d /\ Move("app", "termed")
      BY <1>2 DEF AppTerm
    <3> QED BY <2>2, <2>3, <3>1
  <2>5. Linked'
    BY <1>2 DEF AppTerm, Linked
  <2> QED BY <2>4, <2>5
<1>3. CASE AppKill
  <2>1. "app" \in Controllers /\ ctl["app"] = "termed" /\ ~queued /\ UNCHANGED queued
    BY <1>3 DEF AppKill, At, Sequences
  <2>2. Alive' = {}
    <3>1. Alive \subseteq IF Alive = {} THEN {} ELSE {victim}
      BY <2>1 DEF Sequences
    <3> QED BY <1>3, <3>1, KillLast DEF AppKill
  <2>3. Sequences'
    BY <1>3, <1>0, <2>1, <2>2, SequencesMove DEF AppKill, Steps
  <2> QED BY <2>2, <2>3, LinkedNone
<1>4. CASE AppLaunchctl
  <2>1. "app" \in Controllers /\ ctl["app"] = "launchctl" /\ Alive' = Alive
    BY <1>4 DEF AppLaunchctl, At, Alive
  <2>2. Alive' = {} /\ ~queued'
    <3>1. Alive = {} /\ ~queued /\ TakeBack
      BY <1>4, <2>1 DEF Sequences, AppLaunchctl
    <3>2. ~queued'
      BY <3>1, TakeBackOnly, Zenon
    <3> QED BY <2>1, <3>1, <3>2
  <2>3. Sequences'
    BY <1>4, <1>0, <2>1, <2>2, SequencesMove DEF AppLaunchctl, Steps
  <2> QED BY <2>2, <2>3, LinkedNone
<1>5. ASSUME NEW d \in Daemons, AppSpawn(d) PROVE Sequences' /\ Linked'
  <2>1. "app" \in Controllers /\ ctl["app"] = "kicked" /\ Boot(d) /\ UNCHANGED path
    BY <1>5 DEF AppSpawn, SpawnDirectly, At
  <2>2. Sequences'
    BY <1>5, <2>1, <1>0, SequencesMove DEF AppSpawn, SpawnDirectly, Steps
  <2>3. Linked'
    BY <2>1, LinkedBooted
  <2> QED BY <2>2, <2>3
<1>6. ASSUME NEW c \in Controllers, Unlink(c) PROVE Sequences' /\ Linked'
  <2>1. ctl[c] = "unlink" /\ Alive' = Alive
    BY <1>6 DEF Unlink, At, Alive
  <2>2. Alive' = {}
    BY <2>1 DEF Sequences
  <2>3. Sequences'
    BY <1>6, <1>0, <2>1, SequencesMove DEF Unlink, Steps
  <2> QED BY <2>2, <2>3, LinkedNone
<1> QED BY <1>1, <1>2, <1>3, <1>4, <1>5, <1>6 DEF Controlling

\* Every request but a killall: it finds every controller at rest.
LEMMA FileRequesting ==
  ASSUME ProcType, OtherType, Sequences, Linked, Requesting, amiss' = "no", ~KillEvery("pc")
  PROVE  Sequences' /\ Linked'
<1> USE DEF procVars, ctlVars, launchdVars, envVars
<1>1. CASE AppStart
  <2>0. "app" \in Controllers /\ \A b \in Controllers : ctl[b] = "idle"
    BY <1>1, RequestFirst DEF AppStart
  <2>1. Linked'
    BY <1>1 DEF AppStart, Linked
  <2>2. CASE Move("app", "kicked")
    <3>1. Sequences'
      BY <2>0, <2>2, SequencesMove DEF Steps
    <3> QED BY <2>1, <3>1
  <2>3. CASE UNCHANGED <<queued, ctl>>
    <3>1. Sequences'
      BY <2>0, <2>3 DEF Sequences
    <3> QED BY <2>1, <3>1
  <2> QED BY <1>1, <2>2, <2>3 DEF AppStart
<1>2. CASE PcStart
  <2>0. \A b \in Controllers : ctl'[b] = "idle"
    BY <1>2, RequestFirst DEF PcStart
  <2>1. Sequences'
    BY <2>0 DEF Sequences
  <2>2. Linked'
    BY <1>2, LinkedKilled DEF PcStart, Linked
  <2> QED BY <2>1, <2>2
<1>3. CASE PcKill
  <2>0. \A b \in Controllers : ctl'[b] = "idle"
    BY <1>3, RequestFirst DEF PcKill
  <2> QED BY <1>3, <2>0 DEF PcKill, Sequences, Linked
<1>4. ASSUME NEW c \in Controllers, WriteFlag(c) PROVE Sequences' /\ Linked'
  <2>0. ~queued /\ \A b \in Controllers : ctl[b] = "idle"
    BY <1>4, RequestFirst DEF WriteFlag
  <2>1. Sequences'
    BY <1>4, <2>0, SequencesMove DEF WriteFlag, Steps
  <2> QED BY <1>4, <2>1 DEF WriteFlag, Linked
<1> QED BY <1>1, <1>2, <1>3, <1>4 DEF Requesting

\* Every step keeps the sequences and the linked file.
LEMMA FileNext == FileInv /\ OneInv /\ TypeOK /\ [Next]_vars => FileInv'
<1> SUFFICES ASSUME FileInv, OneInv, ProcType, OtherType, [Next]_vars, amiss' = "no"
             PROVE  Sequences' /\ Linked'
  BY TypeParts DEF FileInv
<1> USE DEF procVars, ctlVars, launchdVars, envVars
<1>k. ASSUME NEW c, KillEvery(c) PROVE Sequences' /\ Linked'
  BY <1>k, FileKilled DEF KillEvery, StopsEvery, Request, At
<1> SUFFICES ASSUME amiss = "no", ~KillEvery("overlay"), ~KillEvery("pc")
             PROVE  Sequences' /\ Linked'
  BY <1>k, AmissStays
<1>0. OneAlive /\ Holds /\ Sequences /\ Linked
  BY DEF OneInv, FileInv
<1>1. ASSUME NEW d \in Daemons,
             DaemonOther(d) \/ AttachOk(d) \/ \E i \in Inodes : Open(d, i)
      PROVE  Sequences' /\ Linked'
  BY <1>0, <1>1, FileDaemon
<1>2. ASSUME NEW d \in Daemons, LaunchdSpawn(d) PROVE Sequences' /\ Linked'
  <2>1. \A c \in Controllers : ctl[c] \in {"idle", "kicked"}
    BY <1>0, <1>2 DEF LaunchdSpawn, Sequences
  <2> QED BY <1>0, <1>2, <2>1, SequencesBoot, LinkedBooted DEF LaunchdSpawn
<1>3. CASE Controlling
  BY <1>0, <1>3, FileControlling
<1>4. CASE Requesting
  BY <1>0, <1>4, FileRequesting
<1>5. ASSUME NEW d \in Daemons, Killed(d) PROVE Sequences' /\ Linked'
  BY <1>0, <1>5, KillKeeps, SequencesKeep, LinkedKilled DEF Killed
<1>6. CASE GameExit \/ (\E g \in Games : GameLaunch(g)) \/ UNCHANGED vars
  <2>1. UNCHANGED <<pc, mapped, path, queued, ctl, victim>>
    BY <1>6 DEF GameExit, GameLaunch, vars
  <2> QED BY <1>0, <2>1 DEF Sequences, Linked, Alive
<1> QED BY <1>1, <1>2, <1>3, <1>4, <1>5, <1>6 DEF Next, Environment

\* A daemon that publishes writes the file other programs find, for any numbers of
\* processes, inodes, requests and crashes, unless two sequences overlapped or one
\* came before launchd had done what it owed; and again after a stop by the overlay
\* or a PC.
THEOREM FileStaysLinked == Spec => []LiveFileLinked
<1>1. FileInv => LiveFileLinked
  BY DEF FileInv, Linked, LiveFileLinked
<1> QED BY <1>1, OneInit, OneNext, FileInit, FileNext, TypeCorrect, PTL DEF Spec

(***************************************************************************)
(* A stop or a start that is over has done what was asked.                 *)
(***************************************************************************)

\* A stop that is over has left no daemon, no file and no kickstart behind.
Stopped == want = "stop" /\ Resting => Alive = {} /\ path = None /\ ~queued

\* What a sequence under way is for.
Asked ==
  \A c \in Controllers :
    /\ ctl[c] = "kicked" => want # "stop"
    /\ ctl[c] \notin {"idle", "kicked"} => want = "stop"

\* After a start by the app nothing is left that would end a daemon; and if none
\* ever crashed there is one once the start is over.
Started ==
  want = "start" =>
    /\ ~flag /\ \A d \in Alive : running[d]
    /\ kills = 0 /\ Resting => Alive # {}

\* What the steps since the last request have come to.
Wanted == Stopped /\ Asked /\ Started
WantInv == amiss = "no" => Wanted

LEMMA WantInit == Init => WantInv
  BY DEF Init, WantInv, Wanted, Stopped, Asked, Started, Resting, Alive

\* A process that is not there has not been told to stop.
Fresh == \A d \in Daemons : d \notin Alive => running[d]

LEMMA FreshInit == Init => Fresh
  BY DEF Init, Fresh

LEMMA FreshNext == Fresh /\ TypeOK /\ [Next]_vars => Fresh'
<1> SUFFICES ASSUME Fresh, ProcType, [Next]_vars PROVE Fresh'
  BY TypeParts
<1> USE DEF procVars, ctlVars, launchdVars, envVars, daemonEnv
<1>b. ASSUME NEW d \in Daemons, Boot(d) PROVE Fresh'
  BY <1>b DEF Boot, Fresh, Alive, ProcType
<1>k. ASSUME NEW D, KillAll(D) PROVE Fresh'
  BY <1>k DEF KillAll, Forget, Fresh, Alive
<1>t. ASSUME NEW D, Term(D \cap Alive), UNCHANGED pc PROVE Fresh'
  BY <1>t DEF Term, Fresh, Alive
<1>u. ASSUME UNCHANGED <<pc, running>> PROVE Fresh'
  BY <1>u DEF Fresh, Alive
<1>1. ASSUME NEW d \in Daemons, DaemonOther(d) \/ AttachOk(d) \/ \E i \in Inodes : Open(d, i)
      PROVE  Fresh'
  <2>1. CASE MainExit(d)
    BY <2>1 DEF MainExit, Forget, Fresh, Alive
  <2>2. CASE ~MainExit(d)
    <3>1. /\ pc[d] # "off" /\ pc'[d] # "off"
          /\ \A e \in Daemons : e # d => pc'[e] = pc[e] /\ running'[e] = running[e]
      BY <1>1, <2>2 DEF DaemonOther, MainStopped, MainFound, AttachFails, AttachOk, Open, Extend,
           FirstPublish, LiveTick, LiveEnds, Destroy, LoopReturns, ConsumeFlag, Goto, ProcType
    <3> QED BY <3>1 DEF Fresh, Alive
  <2> QED BY <2>1, <2>2
<1>2. ASSUME NEW d \in Daemons, LaunchdSpawn(d) PROVE Fresh'
  BY <1>2, <1>b DEF LaunchdSpawn
<1>3. CASE Controlling
  <2>1. CASE AppStarted \/ \E c \in Controllers : Unlink(c)
    BY <2>1, <1>u DEF AppStarted, Unlink
  <2>2. CASE AppTerm
    <3>1. ASSUME NEW d \in Alive, Term({d}) PROVE Term({d} \cap Alive)
      <4>1. {d} \cap Alive = {d}
        OBVIOUS
      <4> QED BY <3>1, <4>1
    <3> QED BY <2>2, <3>1, <1>t, <1>u DEF AppTerm
  <2>3. CASE AppLaunchctl
    BY <2>3, <1>t DEF AppLaunchctl
  <2>4. CASE AppKill \/ KillEvery("overlay")
    BY <2>4, <1>k DEF AppKill, KillEvery
  <2>5. ASSUME NEW d \in Daemons, AppSpawn(d) PROVE Fresh'
    BY <2>5, <1>b DEF AppSpawn, SpawnDirectly
  <2> QED BY <1>3, <2>1, <2>2, <2>3, <2>4, <2>5 DEF Controlling
<1>4. CASE Requesting
  <2>1. CASE AppStart \/ \E c \in Controllers : WriteFlag(c)
    BY <2>1, <1>u DEF AppStart, WriteFlag
  <2>2. CASE PcStart \/ KillEvery("pc")
    BY <2>2, <1>k, <1>u DEF PcStart, KillEvery
  <2>3. CASE PcKill
    BY <2>3, <1>t, <1>u DEF PcKill
  <2> QED BY <1>4, <2>1, <2>2, <2>3 DEF Requesting
<1>5. CASE Environment \/ UNCHANGED vars
  BY <1>5, <1>k, <1>u DEF Environment, Killed, GameLaunch, GameExit, vars
<1> QED BY <1>1, <1>2, <1>3, <1>4, <1>5 DEF Next

\* A process that starts is ready to run; it starts for a kickstart that launchd
\* owes, or in the sequence of a start.
LEMMA WantBoot ==
  ASSUME Wanted, Fresh, ProcType, OtherType, NEW d \in Daemons, Boot(d),
         UNCHANGED <<want, flag, kills>>, want # "stop" \/ (queued /\ UNCHANGED ctl),
         \A c \in Controllers : ctl'[c] \in {ctl[c], "idle"}
  PROVE  Wanted'
<1>1. d \in Alive' /\ \A e \in Alive' : e = d \/ (e \in Alive /\ running'[e] = running[e])
  BY DEF Boot, Alive, ProcType
<1>2. running'[d]
  BY DEF Boot, ProcType, Fresh
<1>3. Stopped'
  BY DEF Wanted, Stopped, Resting
<1>4. Asked'
  BY DEF Wanted, Asked
<1>5. Started'
  BY <1>1, <1>2 DEF Wanted, Started
<1> QED BY <1>3, <1>4, <1>5 DEF Wanted

\* A daemon that takes a step was not stopped, and after a start it does not end.
LEMMA WantDaemon ==
  ASSUME Wanted, ProcType, NEW d \in Daemons,
         DaemonOther(d) \/ AttachOk(d) \/ \E i \in Inodes : Open(d, i)
  PROVE  Wanted'
<1> USE DEF procVars, ctlVars, launchdVars, envVars, daemonEnv
<1>1. UNCHANGED <<want, ctl, kills, queued>> /\ pc[d] # "off" /\ (flag' => flag)
  BY DEF DaemonOther, MainExit, MainStopped, MainFound, AttachFails, AttachOk, Open, Extend,
       FirstPublish, LiveTick, LiveEnds, Destroy, LoopReturns, ConsumeFlag
<1>2. Resting' = Resting /\ d \in Alive
  BY <1>1 DEF Resting, Alive
<1>3. Stopped'
  BY <1>1, <1>2 DEF Wanted, Stopped
<1>4. Asked'
  BY <1>1 DEF Wanted, Asked
<1>5. ASSUME want = "start" PROVE Alive' = Alive /\ UNCHANGED running
  <2>1. ~flag /\ running[d]
    BY <1>2, <1>5 DEF Wanted, Started
  <2> QED BY <2>1 DEF DaemonOther, MainExit, MainStopped, MainFound, AttachFails, AttachOk, Open,
           Extend, FirstPublish, LiveTick, LiveEnds, Destroy, LoopReturns, ConsumeFlag, Goto,
           Alive, ProcType
<1>6. Started'
  BY <1>1, <1>2, <1>5 DEF Wanted, Started
<1> QED BY <1>3, <1>4, <1>6 DEF Wanted

\* A step of a stop that is not the last: what it ends was to be ended.
LEMMA WantStops ==
  ASSUME want' = "stop", NEW c \in Controllers, NEW l \in Steps \ {"idle", "kicked"},
         OtherType, Move(c, l), \A b \in Controllers : b # c => ctl[b] = "idle"
  PROVE  Wanted'
<1>1. ctl'[c] = l /\ \A b \in Controllers : b # c => ctl'[b] = "idle"
  BY DEF Move, OtherType
<1>2. Stopped'
  BY <1>1 DEF Stopped, Resting
<1>3. Asked'
  BY <1>1 DEF Asked
<1>4. Started'
  BY DEF Started
<1> QED BY <1>2, <1>3, <1>4 DEF Wanted

\* A killall that leaves nothing amiss is part of a stop.
LEMMA WantKilled ==
  ASSUME OtherType, NEW c \in Controllers, KillEvery(c), amiss' = "no"
  PROVE  Wanted'
<1>1. /\ want' = "stop" /\ Move(c, "unlink")
      /\ \A b \in Controllers : b # c => ctl[b] = "idle"
  BY DEF KillEvery, Clears
<1> QED BY <1>1, WantStops DEF Steps

LEMMA WantControlling ==
  ASSUME Wanted, Fresh, ProcType, OtherType, Sequences, Controlling, ~KillEvery("overlay")
  PROVE  Wanted'
<1> USE DEF procVars, ctlVars, launchdVars, envVars
<1>0. ASSUME NEW c \in Controllers, ctl[c] # "idle"
      PROVE  \A b \in Controllers : b # c => ctl[b] = "idle"
  BY <1>0 DEF Sequences
<1>1. CASE AppStarted
  <2>1. "app" \in Controllers /\ ctl["app"] = "kicked" /\ want # "stop" /\ Alive # {}
    BY <1>1 DEF AppStarted, At, Wanted, Asked
  <2>2. \A b \in Controllers : ctl'[b] \in {ctl[b], "idle"}
    BY <1>1 DEF AppStarted, Move, OtherType
  <2>3. UNCHANGED <<want, flag, kills, running>> /\ Alive' = Alive
    BY <1>1 DEF AppStarted, Alive
  <2> QED BY <2>1, <2>2, <2>3 DEF Wanted, Stopped, Asked, Started
<1>2. CASE AppTerm \/ AppKill \/ AppLaunchctl
  <2>1. /\ "app" \in Controllers /\ ctl["app"] \in {"flagged", "termed", "launchctl"}
        /\ UNCHANGED want /\ \E l \in {"launchctl", "termed", "unlink"} : Move("app", l)
    BY <1>2 DEF AppTerm, AppKill, AppLaunchctl, At
  <2>2. want' = "stop"
    BY <2>1 DEF Wanted, Asked
  <2> QED BY <2>1, <2>2, <1>0, WantStops DEF Steps
<1>3. ASSUME NEW d \in Daemons, AppSpawn(d) PROVE Wanted'
  <2>1. /\ "app" \in Controllers /\ ctl["app"] = "kicked" /\ Boot(d)
        /\ UNCHANGED <<want, flag, kills>>
    BY <1>3 DEF AppSpawn, SpawnDirectly, At
  <2>2. want # "stop"
    BY <2>1 DEF Wanted, Asked
  <2>3. \A b \in Controllers : ctl'[b] \in {ctl[b], "idle"}
    BY <1>3 DEF AppSpawn, SpawnDirectly, Move, OtherType
  <2> QED BY <2>1, <2>2, <2>3, WantBoot
<1>4. ASSUME NEW c \in Controllers, Unlink(c) PROVE Wanted'
  <2>1. ctl[c] = "unlink" /\ UNCHANGED <<want, queued>> /\ Alive' = Alive /\ path' = None
    BY <1>4 DEF Unlink, At, Alive
  <2>2. Alive' = {} /\ ~queued' /\ want' = "stop"
    BY <2>1 DEF Sequences, Wanted, Asked
  <2>3. \A b \in Controllers : ctl'[b] = "idle"
    BY <1>4, <2>1, <1>0 DEF Unlink, Move, OtherType
  <2> QED BY <2>1, <2>2, <2>3 DEF Wanted, Stopped, Asked, Started
<1> QED BY <1>1, <1>2, <1>3, <1>4 DEF Controlling

\* A request finds every controller at rest: after a stop there is no daemon, so
\* that a start by the app brings one.
LEMMA WantRequesting ==
  ASSUME Wanted, ProcType, OtherType, Requesting, amiss' = "no", ~KillEvery("pc")
  PROVE  Wanted'
<1> USE DEF procVars, ctlVars, launchdVars, envVars
<1>1. CASE AppStart
  <2>0. "app" \in Controllers /\ Resting
    BY <1>1, RequestFirst DEF AppStart, Resting
  <2>1. /\ ~flag' /\ Alive' = Alive /\ UNCHANGED <<running, kills>>
        /\ want' = IF want = "pc" THEN want ELSE "start"
    BY <1>1 DEF AppStart, Request, Alive
  <2>2. want' # "stop"
    BY <2>1
  <2>3. \A b \in Controllers : ctl'[b] \in {"idle", "kicked"}
    BY <1>1, <2>0 DEF AppStart, Move, Resting, OtherType
  <2>4. Alive = {} => ~Resting'
    BY <1>1, <2>0 DEF AppStart, Move, Resting, OtherType
  <2>5. ASSUME want' = "start" PROVE \A d \in Alive : running[d]
    <3>1. want \in {"start", "stop"}
      BY <2>1, <2>5 DEF OtherType
    <3> QED BY <2>0, <3>1 DEF Wanted, Stopped, Started
  <2>6. Stopped' /\ Asked'
    BY <2>2, <2>3 DEF Stopped, Asked
  <2>7. Started'
    BY <2>1, <2>4, <2>5 DEF Started
  <2> QED BY <2>6, <2>7 DEF Wanted
<1>2. CASE PcStart \/ PcKill
  <2>1. want' = "pc" /\ \A b \in Controllers : ctl'[b] = "idle"
    BY <1>2, RequestFirst DEF PcStart, PcKill, Request
  <2> QED BY <2>1 DEF Wanted, Stopped, Asked, Started
<1>3. ASSUME NEW c \in Controllers, WriteFlag(c) PROVE Wanted'
  <2>1. want' = "stop" /\ Move(c, "flagged") /\ \A b \in Controllers : ctl[b] = "idle"
    BY <1>3, RequestFirst DEF WriteFlag, Request
  <2> QED BY <2>1, WantStops DEF Steps
<1> QED BY <1>1, <1>2, <1>3 DEF Requesting

LEMMA WantNext == WantInv /\ FileInv /\ Fresh /\ TypeOK /\ [Next]_vars => WantInv'
<1> SUFFICES ASSUME WantInv, FileInv, Fresh, ProcType, OtherType, [Next]_vars, amiss' = "no"
             PROVE  Wanted'
  BY TypeParts DEF WantInv
<1> USE DEF procVars, ctlVars, launchdVars, envVars
<1>k. ASSUME NEW c, KillEvery(c) PROVE Wanted'
  BY <1>k, WantKilled DEF KillEvery, StopsEvery, Request, At
<1> SUFFICES ASSUME amiss = "no", ~KillEvery("overlay"), ~KillEvery("pc") PROVE Wanted'
  BY <1>k, AmissStays
<1>0. Wanted /\ Sequences
  BY DEF WantInv, FileInv
<1>1. ASSUME NEW d \in Daemons,
             DaemonOther(d) \/ AttachOk(d) \/ \E i \in Inodes : Open(d, i)
      PROVE  Wanted'
  BY <1>0, <1>1, WantDaemon
<1>2. ASSUME NEW d \in Daemons, LaunchdSpawn(d) PROVE Wanted'
  BY <1>0, <1>2, WantBoot DEF LaunchdSpawn
<1>3. CASE Controlling
  BY <1>0, <1>3, WantControlling
<1>4. CASE Requesting
  BY <1>0, <1>4, WantRequesting
<1>5. ASSUME NEW d \in Daemons, Killed(d) PROVE Wanted'
  <2>1. Alive' \subseteq Alive /\ kills' # 0 /\ \A e \in Alive' : running'[e] = running[e]
    <3>1. kills' # 0
      <4>1. kills' = kills + 1 /\ kills \in Nat
        BY <1>5, BoundsAssumption DEF Killed, OtherType
      <4> QED BY <4>1
    <3>2. Alive' \subseteq Alive
      BY <1>5 DEF Killed, KillAll, Forget, Alive
    <3>3. ASSUME NEW e \in Alive' PROVE running'[e] = running[e]
      <4>1. e # d
        BY <1>5, <3>3 DEF Killed, KillAll, Forget, Alive
      <4>2. e \in Daemons /\ running'[e] = (e \in {d} \/ running[e])
        BY <1>5, <3>3 DEF Killed, KillAll, Forget, Alive
      <4>3. running[e] \in BOOLEAN
        BY <4>2 DEF ProcType
      <4> QED BY <4>1, <4>2, <4>3
    <3> QED BY <3>1, <3>2, <3>3
  <2>2. UNCHANGED <<want, ctl, path, queued, flag>>
    BY <1>5 DEF Killed, KillAll
  <2> QED BY <1>0, <2>1, <2>2 DEF Wanted, Stopped, Asked, Started, Resting
<1>6. CASE GameExit \/ (\E g \in Games : GameLaunch(g)) \/ UNCHANGED vars
  <2>1. UNCHANGED <<pc, running, path, queued, ctl, want, flag, kills>>
    BY <1>6 DEF GameExit, GameLaunch, vars
  <2> QED BY <1>0, <2>1 DEF Wanted, Stopped, Asked, Started, Resting, Alive
<1> QED BY <1>1, <1>2, <1>3, <1>4, <1>5, <1>6 DEF Next, Environment

\* Once a stop that nothing follows is over, no daemon is left, none comes back and
\* the file is gone: without any fairness, since the last step of every stop finds
\* no daemon and no kickstart that launchd still owes.
THEOREM StopsHold == Spec => StopHolds
<1>1. WantInv => (want = "stop" /\ Resting /\ amiss = "no" => Alive = {} /\ path = None)
  BY DEF WantInv, Wanted, Stopped
<1> QED BY <1>1, OneInit, OneNext, FileInit, FileNext, FreshInit, FreshNext, WantInit, WantNext,
        TypeCorrect, PTL DEF Spec, StopHolds

\* A daemon that the app has started after a stop keeps running, whichever way the
\* stop was made, as long as nothing crashes: no flag and no signal is left for it.
THEOREM StartsHold == Spec => StartHolds
<1>1. WantInv => (want = "start" /\ Resting /\ amiss = "no" /\ kills = 0 => Alive # {})
  BY DEF WantInv, Wanted, Started
<1> QED BY <1>1, OneInit, OneNext, FileInit, FileNext, FreshInit, FreshNext, WantInit, WantNext,
        TypeCorrect, PTL DEF Spec, StartHolds

(***************************************************************************)
(* The overlay, composed with the daemons and controllers.                 *)
(***************************************************************************)

\* A step of the composed system is one of the daemons and controllers, or leaves
\* all they know alone: the overlay only looks, but for its stop button.
LEMMA LinkStep == [LinkNext]_linkVars => [Next]_vars
<1> SUFFICES ASSUME [LinkNext]_linkVars PROVE [Next]_vars
  OBVIOUS
<1>1. CASE Load \/ Overlay
  BY <1>1 DEF Load, Overlay, TimerFires, Reconnect, ReadConnects, ReadAccepts, ReadGivesUp,
       ReadRejects, Reopen, Render
<1>2. CASE StopButton
  <2>1. CASE WriteFlag("overlay")
    <3>1. "overlay" \in Controllers
      BY <2>1 DEF WriteFlag, Request, At
    <3> QED BY <2>1, <3>1 DEF Next, Requesting
  <2>2. CASE KillEvery("overlay")
    BY <2>2 DEF Next, Controlling
  <2>3. CASE Unlink("overlay")
    <3>1. "overlay" \in Controllers
      BY <2>3 DEF Unlink, At
    <3> QED BY <2>3, <3>1 DEF Next, Controlling
  <2> QED BY <1>2, <2>1, <2>2, <2>3 DEF StopButton
<1>3. CASE Elsewhere
  BY <1>3 DEF Elsewhere
<1>4. CASE UNCHANGED linkVars
  BY <1>4 DEF linkVars
<1> QED BY <1>1, <1>2, <1>3, <1>4 DEF LinkNext

\* The overlay adds no behaviour to the daemons and controllers: composed with it
\* they are a DaemonLifecycle, with everything that holds of one.
THEOREM LinkRefines == LinkSpec => Spec
<1>1. LinkInit => Init
  BY DEF LinkInit
<1> QED BY <1>1, LinkStep, PTL DEF LinkSpec, Spec

\* A mapping of the overlay, and the file behind it.
OverlayType ==
  /\ opc \in {"unloaded", "wait", "map", "read", "reopen", "render"}
  /\ omap \in Inodes \cup {None}
  /\ frame \in 0..(StatEvery - 1) /\ age \in 0..(Stale + 1)
  /\ shown \in [status : Statuses, tick : 0..(TickMod - 1)]
  /\ lastTick \in 0..(TickMod - 1)
  /\ drawn \in BOOLEAN
Unmapped == opc \in {"map", "reopen"} => omap = None

LEMMA LinkTypeParts == LinkTypeOK <=> OverlayType /\ Unmapped
  BY DEF LinkTypeOK, OverlayType, Unmapped, Statuses

LEMMA LinkInitType == LinkInit => OverlayType /\ Unmapped /\ MappedFileIsFull
<1> SUFFICES ASSUME LinkInit PROVE OverlayType /\ Unmapped /\ MappedFileIsFull
  OBVIOUS
<1>1. NoSnapshot \in [status : Statuses, tick : 0..(TickMod - 1)]
  BY TickAssumption DEF NoSnapshot, Statuses
<1>2. /\ frame \in 0..(StatEvery - 1) /\ age \in 0..(Stale + 1)
      /\ lastTick \in 0..(TickMod - 1)
  BY CadenceAssumption, TickAssumption DEF LinkInit
<1>3. drawn \in BOOLEAN
  BY DEF LinkInit
<1>4. OverlayType
  BY <1>1, <1>2, <1>3 DEF LinkInit, OverlayType
<1> QED BY <1>4 DEF LinkInit, Unmapped, MappedFileIsFull

\* What the overlay's own steps do to its state: a mapping is made or kept only of
\* a file that has its size, and made only where there is none.
LEMMA OverlayKeeps ==
  ASSUME FileType, OverlayType, Unmapped, MappedFileIsFull, Load \/ Overlay
  PROVE  OverlayType' /\ Unmapped' /\ MappedFileIsFull'
<1> USE DEF vars, overlayVars, snapVars
<1>0. UNCHANGED file
  BY DEF Load, Overlay, TimerFires, Reconnect, ReadConnects, ReadAccepts, ReadGivesUp,
    ReadRejects, Reopen, Render
<1>m. ASSUME Map
      PROVE  omap' \in Inodes \cup {None} /\ MappedFileIsFull'
  BY <1>0, <1>m DEF Map, Usable, MappedFileIsFull, FileType
<1>1. CASE Load
  BY <1>0, <1>1 DEF Load, OverlayType, Unmapped, MappedFileIsFull
<1>2. CASE TimerFires
  <2>1. frame' \in 0..(StatEvery - 1) /\ age' \in 0..(Stale + 1)
    <3>1. frame' \in 0..(StatEvery - 1)
      BY <1>2, CadenceAssumption DEF TimerFires, OverlayType
    <3>2. age' \in 0..(Stale + 1)
      BY <1>2, CadenceAssumption DEF TimerFires, OverlayType
    <3> QED BY <3>1, <3>2
  <2>2. CASE WantsLook /\ Usable
    BY <1>0, <1>2, <2>1, <2>2 DEF TimerFires, Close, OverlayType, Unmapped, MappedFileIsFull
  <2>3. CASE ~(WantsLook /\ Usable)
    BY <1>0, <1>2, <2>1, <2>3 DEF TimerFires, OverlayType, Unmapped, MappedFileIsFull
  <2> QED BY <2>2, <2>3
<1>3. CASE Reconnect
  BY <1>3, <1>m DEF Reconnect, OverlayType, Unmapped
<1>4. CASE ReadConnects
  BY <1>4, <1>m DEF ReadConnects, OverlayType, Unmapped
<1>5. CASE ReadAccepts
  <2>1. omap \in Inodes /\ file[omap] \in Headers
    BY <1>5 DEF ReadAccepts, OverlayType, FileType
  <2>2. shown' \in [status : Statuses, tick : 0..(TickMod - 1)]
    BY <1>5, <2>1 DEF ReadAccepts, Headers
  <2>3. lastTick' \in 0..(TickMod - 1) /\ age' \in 0..(Stale + 1)
    <3>1. file[omap].tick \in 0..(TickMod - 1)
      BY <2>1 DEF Headers
    <3>2. lastTick' \in 0..(TickMod - 1)
      BY <1>5, <3>1 DEF ReadAccepts, Stamp, OverlayType
    <3>3. age' \in {0, age}
      BY <1>5 DEF ReadAccepts, Stamp
    <3>4. 0 \in 0..(Stale + 1)
      BY CadenceAssumption
    <3> QED BY <3>2, <3>3, <3>4 DEF OverlayType
  <2> QED BY <1>0, <1>5, <2>2, <2>3 DEF ReadAccepts, OverlayType, Unmapped, MappedFileIsFull
<1>6. CASE ReadGivesUp
  BY <1>0, <1>6 DEF ReadGivesUp, OverlayType, Unmapped, MappedFileIsFull
<1>7. CASE ReadRejects
  BY <1>7 DEF ReadRejects, Close, OverlayType, Unmapped, MappedFileIsFull
<1>8. CASE Reopen
  BY <1>8, <1>m DEF Reopen, OverlayType, Unmapped
<1>9. CASE Render
  <2>1. drawn' \in BOOLEAN
    BY <1>9 DEF Render, Draws
  <2> QED BY <1>0, <1>9, <2>1 DEF Render, OverlayType, Unmapped, MappedFileIsFull
<1> QED BY <1>1, <1>2, <1>3, <1>4, <1>5, <1>6, <1>7, <1>8, <1>9 DEF Overlay

\* No step of a daemon or a controller shortens a file, but for the one that
\* creates it.
LEMMA FilesGrow ==
  ASSUME FileType, Next, NEW i \in Inodes, file[i].full, ~file'[i].full
  PROVE  path' = i /\ path # i
<1> USE DEF procVars, ctlVars, launchdVars, envVars, daemonEnv
<1>1. ASSUME NEW d \in Daemons, NEW s, Publish(d, s) PROVE FALSE
  BY <1>1 DEF Publish, FileType
<1>2. ASSUME NEW d \in Daemons, DaemonOther(d) PROVE FALSE
  <2>1. CASE MainExit(d) \/ MainStopped(d) \/ MainFound(d) \/ AttachFails(d) \/ LiveEnds(d)
    BY <2>1 DEF MainExit, MainStopped, MainFound, AttachFails, LiveEnds
  <2>2. CASE Extend(d)
    BY <2>2 DEF Extend, FileType, Headers
  <2>3. CASE FirstPublish(d) \/ LiveTick(d) \/ Destroy(d)
    BY <2>3, <1>1 DEF FirstPublish, LiveTick, Destroy
  <2> QED BY <1>2, <2>1, <2>2, <2>3 DEF DaemonOther
<1>3. ASSUME NEW d \in Daemons, NEW j \in Inodes, Open(d, j) PROVE path' = i /\ path # i
  BY <1>3, NoneAssumption DEF Open, FileType
<1>4. ASSUME NEW d \in Daemons, AttachOk(d) \/ LaunchdSpawn(d) PROVE FALSE
  BY <1>4 DEF AttachOk, LaunchdSpawn
<1>5. ~Controlling
  BY DEF Controlling, AppStarted, AppTerm, AppKill, AppLaunchctl, AppSpawn, SpawnDirectly,
    KillEvery, Unlink
<1>6. ~Requesting
  BY DEF Requesting, AppStart, PcStart, PcKill, KillEvery, WriteFlag
<1>7. ~Environment
  BY DEF Environment, Killed, GameLaunch, GameExit
<1> QED BY <1>2, <1>3, <1>4, <1>5, <1>6, <1>7 DEF Next

\* The overlay's state under any step of the composed system.
LEMMA LinkNextType ==
  OverlayType /\ Unmapped /\ MappedFileIsFull /\ TypeOK /\ [LinkNext]_linkVars =>
    OverlayType' /\ Unmapped' /\ MappedFileIsFull'
<1> SUFFICES ASSUME OverlayType, Unmapped, MappedFileIsFull, FileType, [LinkNext]_linkVars
             PROVE  OverlayType' /\ Unmapped' /\ MappedFileIsFull'
  BY TypeParts
<1>1. CASE Load \/ Overlay
  BY <1>1, OverlayKeeps
<1>2. CASE StopButton
  <2>1. UNCHANGED <<file, opc, frame, shown, lastTick, age, drawn>>
    BY <1>2 DEF StopButton, WriteFlag, KillEvery, Unlink, snapVars
  <2>2. omap' \in {omap, None}
    BY <1>2 DEF StopButton
  <2> QED BY <2>1, <2>2 DEF OverlayType, Unmapped, MappedFileIsFull
<1>3. CASE Elsewhere
  <2>1. UNCHANGED <<opc, omap, frame, shown, lastTick, age, drawn>>
    BY <1>3 DEF Elsewhere, overlayVars, snapVars
  <2>2. MappedFileIsFull'
    <3> SUFFICES ASSUME omap # None, ~file'[omap].full PROVE FALSE
      BY <2>1 DEF MappedFileIsFull
    <3>1. omap \in Inodes /\ file[omap].full
      BY DEF OverlayType, MappedFileIsFull
    <3>2. path' = omap /\ path # omap
      BY <1>3, <3>1, FilesGrow DEF Elsewhere
    <3> QED BY <1>3, <3>2 DEF Elsewhere
  <2> QED BY <2>1, <2>2 DEF OverlayType, Unmapped
<1>4. CASE UNCHANGED linkVars
  BY <1>4 DEF linkVars, vars, overlayVars, snapVars, OverlayType, Unmapped, MappedFileIsFull
<1> QED BY <1>1, <1>2, <1>3, <1>4 DEF LinkNext

\* The overlay's variables keep their types, and it never makes a mapping while it
\* holds one.
THEOREM LinkTypeCorrect == LinkSpec => []LinkTypeOK
<1>1. LinkSpec => []TypeOK
  BY LinkRefines, TypeCorrect, PTL
<1> QED BY <1>1, LinkInitType, LinkNextType, LinkTypeParts, PTL DEF LinkSpec

\* Whoever creates, opens or unlinks the file between two steps of the overlay, what
\* it has mapped has the size of radar_shared_t, so that no read of it faults.
THEOREM MappingsAreFull == LinkSpec => []MappedFileIsFull
<1>1. LinkSpec => []TypeOK
  BY LinkRefines, TypeCorrect, PTL
<1> QED BY <1>1, LinkInitType, LinkNextType, PTL DEF LinkSpec

\* Beside the overlay, whose button is one of the controllers, a file has one writer
\* and the daemon's file is the linked one, and stops and starts do what they say.
THEOREM LinkWriters ==
  LinkSpec => [](SingleWriter /\ LiveFileLinked) /\ StopHolds /\ StartHolds
<1> QED BY OneWriterPerFile, FileStaysLinked, StopsHold, StartsHold, LinkRefines, PTL
=============================================================================
