----------------------------- MODULE TrayProofs -----------------------------
(***************************************************************************)
(* Theorems about Tray.  It has no constants: what TLC checks it checks    *)
(* for the whole model; the proofs say why it holds, and rest on IndInv,   *)
(* which says what the state of the UI thread tells of the worker and of   *)
(* the core, and that only the holder of the lock touches the application. *)
(***************************************************************************)
EXTENDS Tray, TLAPS

(* TypeOK without what it says of the lock and of starting.                *)
PlacesOK ==
  /\ tray \in {"off", "up", "quitting"}
  /\ ui \in {"idle", "stop", "join", "start", "exit"}
  /\ after \in {"stop", "restart", "quit", "route", "upgrade", "exit"}
  /\ worker \in {"none", "called", "download", "launch", "done"}
  /\ posted \subseteq {"current", "stale"}
  /\ core \in {"down", "up", "stuck"}
  /\ request \in {"none", "sent", "stopped", "failed"}

(* The lock has the holder it should have; without a tray no UI thread.    *)
LockInv ==
  /\ lock = "tray" <=> tray # "off"
  /\ lock = "installer" <=> installer \in Owning
  /\ ui # "idle" => tray # "off"

(* Inside stopStartupWorker, up to the join.                               *)
Stopping == ui = "join" \/ (ui = "stop" /\ after # "route")

Routing == ui = "stop" /\ after = "route"

(* Outside stopStartupWorker a start is marked while its worker runs or    *)
(* its completion is queued; inside it every start is of the past.         *)
StartInv ==
  /\ ui = "idle" \/ Routing =>
       /\ starting <=> ~Joinable \/ "current" \in posted
       /\ ~Joinable => current
  /\ "current" \in posted => Joinable
  /\ Stopping => ~current /\ "current" \notin posted
  /\ ui \in {"start", "exit"} =>
       worker = "none" /\ ~starting /\ "current" \notin posted

(* After pStop no start that is under way can launch, so that a core that  *)
(* is down stays down.                                                     *)
JoinInv ==
  /\ ui = "join" => ~epochHeld /\ worker # "launch"
  /\ ui \in {"join", "exit"} /\ ~stopError => core = "down"

(* A core outlives its tray only when that was killed, or its Stop failed. *)
LingerInv == lingering => unclean

(* The application is where the installer can find it again.               *)
FilesInv ==
  /\ installed \/ backup \/ stranded
  /\ installer \notin {"moved", "restore"} => ~backup

IndInv == PlacesOK /\ LockInv /\ StartInv /\ JoinInv /\ LingerInv /\ FilesInv
-----------------------------------------------------------------------------
(* TypeOK is part of the inductive invariant.                              *)
LEMMA IndTypes == IndInv => TypeOK
  BY DEF IndInv, PlacesOK, LockInv, StartInv, TypeOK

(* No tray, no installer, and the application is installed.                *)
LEMMA InitInd == Init => IndInv
  BY DEF Init, IndInv, PlacesOK, LockInv, StartInv, JoinInv, LingerInv, FilesInv,
     Joinable, Stopping, Routing, Owning

-----------------------------------------------------------------------------
(* The process goes, and its core with it; what lingers is excused.        *)
LEMMA GoneKeeps ==
  ASSUME IndInv, tray # "off", NEW excused, Gone(excused), core # "down" => excused
  PROVE  IndInv'
<1> USE DEF Gone, start, uiVars, files, IndInv
<1>1. PlacesOK' /\ LockInv' /\ JoinInv'
  BY SMT DEF PlacesOK, LockInv, JoinInv, Owning
<1>2. StartInv'
  BY SMT DEF StartInv, Joinable, Stopping, Routing
<1>3. LingerInv'
  <2>1. CASE core = "down"
    BY <2>1, Zenon DEF LingerInv
  <2>2. CASE excused
    BY <2>2, Zenon DEF LingerInv
  <2> QED
    BY <2>1, <2>2
<1>4. FilesInv'
  BY Zenon DEF FilesInv
<1> QED
  BY <1>1, <1>2, <1>3, <1>4

(* doStart, where it may be called.                                        *)
LEMMA DoStartKeeps ==
  ASSUME IndInv, tray # "off", ui \in {"idle", "start"}, ui' = "idle", DoStart,
         UNCHANGED <<tray, lock, after, stopError, dll, install>>
  PROVE  IndInv'
<1> USE DEF DoStart, start, dll, install, files, IndInv
<1>1. LockInv' /\ LingerInv' /\ FilesInv'
  BY Zenon DEF LockInv, LingerInv, FilesInv, Owning
<1>2. CASE starting
  <2>1. PlacesOK'
    BY <1>2, Zenon DEF PlacesOK
  <2>2. JoinInv'
    BY <1>2, Zenon DEF JoinInv
  <2>3. StartInv'
    BY <1>2, SMT DEF StartInv, Joinable, Stopping, Routing
  <2> QED
    BY <1>1, <2>1, <2>2, <2>3
<1>3. CASE ~starting
  <2>1. PlacesOK' /\ JoinInv'
    BY <1>3, SMT DEF NextGeneration, PlacesOK, JoinInv
  <2>2. worker' = "called" /\ current' /\ starting' /\ "current" \notin posted'
    BY <1>3, SMT DEF NextGeneration
  <2>3. StartInv'
    BY <2>2, SMT DEF StartInv, Joinable, Stopping, Routing
  <2> QED
    BY <1>1, <2>1, <2>3
<1> QED
  BY <1>2, <1>3

(* The tray comes up, is killed, is asked to quit, is gone.                *)
LEMMA ProcessSteps ==
  ASSUME IndInv,
         Launch \/ Killed \/ QuitRequested \/ AboutToQuit \/ Exit
  PROVE  IndInv'
<1> USE DEF Idle, dll, start, uiVars, files, install, IndInv, PlacesOK, LockInv,
     StartInv, JoinInv, LingerInv, FilesInv, Joinable, Stopping, Routing, Owning
<1>1. CASE Launch
  BY <1>1, SMT DEF Launch
<1>2. CASE Killed
  BY <1>2, GoneKeeps, Zenon DEF Killed
<1>3. CASE QuitRequested
  BY <1>3, SMT DEF QuitRequested
<1>4. CASE AboutToQuit
  BY <1>4, SMT DEF AboutToQuit, BeginStop, NextGeneration
<1>5. CASE Exit
  <2>1. core # "down" => stopError
    BY <1>5, SMT DEF Exit
  <2> QED
    BY <1>5, <2>1, GoneKeeps, SMT DEF Exit
<1> QED
  BY <1>1, <1>2, <1>3, <1>4, <1>5, Zenon

(* The menu, the timers and the messages of the UI thread.                 *)
LEMMA EventSteps ==
  ASSUME IndInv,
         \/ ClickStart \/ AutoTimer \/ RouteTimer \/ ClickRoute \/ Click
         \/ UpgradeRequested \/ (\E g \in {"current", "stale"} : Completed(g))
  PROVE  IndInv'
<1> USE DEF Idle, dll, start, uiVars, files, install, IndInv, PlacesOK, LockInv,
     StartInv, JoinInv, LingerInv, FilesInv, Joinable, Stopping, Routing, Owning
<1>1. CASE ClickStart
  BY <1>1, DoStartKeeps, SMT DEF ClickStart
<1>2. CASE AutoTimer
  <2>1. CASE fresh
    BY <1>2, <2>1, DoStartKeeps, SMT DEF AutoTimer
  <2>2. CASE ~fresh
    <3>1. PlacesOK' /\ LockInv' /\ StartInv'
      BY <1>2, <2>2, Zenon DEF AutoTimer
    <3>2. JoinInv' /\ LingerInv' /\ FilesInv'
      BY <1>2, <2>2, Zenon DEF AutoTimer
    <3> QED
      BY <3>1, <3>2
  <2> QED
    BY <2>1, <2>2
<1>3. CASE RouteTimer
  BY <1>3, DoStartKeeps, SMT DEF RouteTimer
<1>4. CASE ClickRoute
  BY <1>4, SMT DEF ClickRoute
<1>5. CASE Click
  BY <1>5, SMT DEF Click, BeginStop, NextGeneration
<1>6. CASE UpgradeRequested
  BY <1>6, SMT DEF UpgradeRequested, BeginStop, NextGeneration
<1>7. ASSUME NEW g \in {"current", "stale"}, Completed(g) PROVE IndInv'
  BY <1>7, SMT DEF Completed, Finishes
<1> QED
  BY <1>1, <1>2, <1>3, <1>4, <1>5, <1>6, <1>7, Zenon

(* stopStartupWorker and what its callers do then.                         *)
LEMMA StopSteps ==
  ASSUME IndInv,
         CallStop \/ Joined \/ RestartStarts
  PROVE  IndInv'
<1> USE DEF Idle, dll, start, uiVars, files, install, IndInv, PlacesOK, LockInv,
     StartInv, JoinInv, LingerInv, FilesInv, Joinable, Stopping, Routing, Owning
<1>1. CASE CallStop
  <2>1. PlacesOK' /\ LockInv'
    BY <1>1, SMT DEF CallStop
  <2>2. StartInv'
    BY <1>1, SMT DEF CallStop
  <2>3. ui' = "join" => ~epochHeld' /\ worker' # "launch"
    BY <1>1, Zenon DEF CallStop
  <2>4. ui' # "exit" /\ (~stopError' => core' = "down")
    <3>1. ui' # "exit" /\ core' \in {"down", "stuck"} /\ stopError' = (core' = "stuck")
      BY <1>1, Zenon DEF CallStop
    <3> QED
      BY <3>1, Zenon
  <2>5. LingerInv' /\ FilesInv'
    BY <1>1, Zenon DEF CallStop
  <2> QED
    BY <2>1, <2>2, <2>3, <2>4, <2>5 DEF IndInv
<1>2. CASE Joined
  BY <1>2, SMT DEF Joined, StartingAfterJoin
<1>3. CASE RestartStarts
  BY <1>3, DoStartKeeps, SMT DEF RestartStarts
<1> QED
  BY <1>1, <1>2, <1>3, Zenon

(* The worker, and the core.                                               *)
LEMMA WorkerSteps ==
  ASSUME IndInv,
         StartRefused \/ StartBegins \/ DownloadEnds \/ Launched \/ CoreEnds
         \/ LingeringEnds
  PROVE  IndInv'
<1> USE DEF Idle, dll, start, uiVars, files, install, IndInv, PlacesOK, LockInv,
     StartInv, JoinInv, LingerInv, FilesInv, Joinable, Stopping, Routing, Owning
<1>1. CASE StartRefused
  BY <1>1, SMT DEF StartRefused, Worker, Finish, EpochCurrent
<1>2. CASE StartBegins
  BY <1>2, SMT DEF StartBegins, Worker, EpochCurrent
<1>3. CASE DownloadEnds
  <2>0. CASE Finish
    BY <1>3, <2>0, SMT DEF DownloadEnds, Finish, Worker
  <2>1. CASE ~Finish
    <3>1. /\ worker = "download" /\ worker' = "launch" /\ epochHeld /\ ui # "join"
          /\ UNCHANGED <<tray, lock, ui, after, stopError, starting, current, epochHeld,
                         posted, dll, install>>
      BY <1>3, <2>1, Zenon DEF DownloadEnds, Worker
    <3> QED
      BY <3>1, SMT
  <2> QED
    BY <2>0, <2>1
<1>4. CASE Launched
  BY <1>4, SMT DEF Launched, Worker, Finish
<1>5. CASE CoreEnds
  BY <1>5, SMT DEF CoreEnds
<1>6. CASE LingeringEnds
  BY <1>6, SMT DEF LingeringEnds
<1> QED
  BY <1>1, <1>2, <1>3, <1>4, <1>5, <1>6, Zenon

(* The installer.                                                          *)
LEMMA InstallerSteps ==
  ASSUME IndInv,
         Stage \/ Owns \/ Asks \/ Answered \/ Waited \/ GivesUp \/ MovesOld
         \/ MovesNew \/ MoveFails \/ Restores \/ RestoreFails
         \/ InstallerKilled
  PROVE  IndInv'
<1> USE DEF Idle, dll, start, uiVars, files, install, IndInv, PlacesOK, LockInv,
     StartInv, JoinInv, LingerInv, FilesInv, Joinable, Stopping, Routing, Owning
<1>1. CASE Stage
  BY <1>1, SMT DEF Stage, Steps, Elsewhere
<1>2. CASE Owns
  BY <1>2, SMT DEF Owns, Steps, Elsewhere
<1>3. CASE Asks
  BY <1>3, SMT DEF Asks, Steps, Elsewhere
<1>4. CASE Answered
  BY <1>4, SMT DEF Answered, Steps, Elsewhere
<1>5. CASE Waited
  BY <1>5, SMT DEF Waited, Steps, Elsewhere, HandedOver
<1>6. CASE GivesUp
  BY <1>6, SMT DEF GivesUp, Steps, Elsewhere
<1>7. CASE MovesOld
  BY <1>7, SMT DEF MovesOld, Steps, Elsewhere
<1>8. CASE MovesNew
  BY <1>8, SMT DEF MovesNew, Steps, Elsewhere
<1>9. CASE MoveFails
  BY <1>9, SMT DEF MoveFails, Steps, Elsewhere
<1>10. CASE Restores
  BY <1>10, SMT DEF Restores, Steps, Elsewhere
<1>11. CASE RestoreFails
  <2>1. PlacesOK' /\ LockInv' /\ JoinInv'
    BY <1>11, SMT DEF RestoreFails, Steps, Elsewhere, KeepsStaging
  <2>2. StartInv'
    BY <1>11, SMT DEF RestoreFails, Steps, Elsewhere, KeepsStaging
  <2>3. LingerInv' /\ FilesInv'
    BY <1>11, Zenon DEF RestoreFails, Steps, Elsewhere, KeepsStaging
  <2> QED
    BY <2>1, <2>2, <2>3 DEF IndInv
<1>12. CASE InstallerKilled
  <2>1. PlacesOK' /\ LockInv' /\ JoinInv'
    BY <1>12, SMT DEF InstallerKilled, Steps, Elsewhere
  <2>2. StartInv'
    BY <1>12, SMT DEF InstallerKilled, Steps, Elsewhere
  <2>3. LingerInv'
    BY <1>12, SMT DEF InstallerKilled, Steps, Elsewhere
  <2>4. FilesInv'
    BY <1>12, Zenon DEF InstallerKilled, Steps, Elsewhere
  <2> QED
    BY <2>1, <2>2, <2>3, <2>4 DEF IndInv
<1> QED
  BY <1>1, <1>2, <1>3, <1>4, <1>5, <1>6, <1>7, <1>8, <1>9, <1>10, <1>11, <1>12, Zenon

(* Every step preserves IndInv.                                            *)
LEMMA StepInd == IndInv /\ [Next]_vars => IndInv'
<1> SUFFICES ASSUME IndInv, [Next]_vars PROVE IndInv'
  OBVIOUS
<1>1. CASE UNCHANGED vars
  BY <1>1, SMT DEF vars, dll, start, uiVars, files, install, IndInv, PlacesOK, LockInv,
     StartInv, JoinInv, LingerInv, FilesInv, Joinable, Stopping, Routing
<1>2. CASE Next
  BY <1>2, ProcessSteps, EventSteps, StopSteps, WorkerSteps, InstallerSteps, Zenon
     DEF Next, UiStep, WorkerStep
<1> QED
  BY <1>1, <1>2

(* It holds in every reachable state.                                      *)
THEOREM Inductive == Spec => []IndInv
  BY InitInd, StepInd, PTL DEF Spec

-----------------------------------------------------------------------------
(* The types, the holder of the lock, and that a start is marked while its *)
(* worker runs or its completion is queued, and only then.                 *)
THEOREM Types == Spec => []TypeOK
  BY Inductive, IndTypes, PTL

(* While the application is replaced no tray runs and no core that was     *)
(* left in order; and the application is always somewhere.                 *)
THEOREM ReplacedQuietly == Spec => []ReplaceQuietly
<1>1. IndInv => ReplaceQuietly
  BY DEF IndInv, LockInv, LingerInv, FilesInv, ReplaceQuietly, Owning
<1> QED
  BY <1>1, Inductive, PTL

(* When stopStartupWorker has succeeded no core runs and no earlier start  *)
(* can bring one up.                                                       *)
THEOREM StopIsHonest == Spec => StopHonest
<1>1. ASSUME IndInv, [Next]_vars, ui = "join", ui' # "join", ~stopError
      PROVE  core' = "down" /\ Joinable'
  <2> USE <1>1 DEF Idle, dll, start, uiVars, files, install
  <2>1. Joined \/ Killed
    <3>1. ~UNCHANGED ui
      OBVIOUS
    <3>2. CASE UiStep
      BY <3>2 DEF UiStep, CallStop, RestartStarts, Exit
    <3>3. ~WorkerStep
      BY <3>1 DEF WorkerStep, StartRefused, StartBegins, DownloadEnds, Launched, Finish, Worker
    <3> QED
      BY <3>1, <3>2, <3>3, SMT DEF vars, Next, Launch, QuitRequested, ClickStart,
         AutoTimer, RouteTimer, ClickRoute, Click, UpgradeRequested, AboutToQuit,
         BeginStop, Completed, CoreEnds, LingeringEnds, Stage, Owns, Asks, Answered,
         Waited, GivesUp, MovesOld, MovesNew, MoveFails, Restores, RestoreFails,
         InstallerKilled, Steps, Elsewhere
  <2>2. CASE Joined
    BY <2>2 DEF Joined, Joinable, IndInv, JoinInv
  <2>3. CASE Killed
    BY <2>3 DEF Killed, Gone, Joinable
  <2> QED
    BY <2>1, <2>2, <2>3
<1>2. IndInv /\ [Next]_vars =>
        [ui = "join" /\ ui' # "join" /\ ~stopError => core' = "down" /\ Joinable']_vars
  BY <1>1
<1> QED
  BY <1>2, Inductive, PTL DEF Spec, StopHonest
=============================================================================
