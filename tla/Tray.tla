-------------------------------- MODULE Tray --------------------------------
(***************************************************************************)
(* The tray application (trayapp/main.cpp): its UI thread, the worker      *)
(* thread of a start, the quit of the application; and the macOS installer *)
(* that asks a running tray to quit and replaces the application           *)
(* (trayapp/upgrade.cpp), both under one lock (trayapp/instance_guard.cpp).*)
(*                                                                         *)
(* An event of the UI thread is one action up to the next call that may    *)
(* block.  Menus may be stale: an entry may be chosen in any state.  Of    *)
(* the DLL there is what Session.tla says of Start, StartAtEpoch and Stop. *)
(* A counter is what is asked of it: whether a captured startupGeneration  *)
(* or gStartEpoch is the current one.                                      *)
(***************************************************************************)

VARIABLES
  windows,      \* the platform: routing modes there, the installer elsewhere
  tray,         \* the process: "off", "up", "quitting" after quit()
  ui, after,    \* where the UI thread is; what stopStartupWorker was called for
  stopError,    \* pStop returned an error
  starting,
  fresh,        \* startupGeneration = 0
  auto, route,  \* the single shot timers for autoStart and setRoutingMode
  worker,       \* startupThread
  current,      \* it was started with the current startupGeneration
  epochHeld,    \* its epoch is the current gStartEpoch
  posted,       \* completions queued for the UI thread, by generation
  core,         \* the core of the running tray
  lingering,    \* a core of a tray that is gone still runs
  unclean,      \* history: because that tray was killed or its Stop had failed
  lock,         \* holder of oneproxy-tray.lock
  installer, request,   \* where the installer is; its request and the reply
  installed, backup,    \* the application is in its place, in staging
  stranded              \* staging was left behind with the only application

dll   == <<core, lingering, unclean>>
start == <<starting, fresh, worker, current, epochHeld, posted>>
uiVars == <<ui, after, stopError, auto, route>>
files == <<installed, backup, stranded>>
install == <<installer, request, files>>
vars == <<windows, tray, lock, uiVars, start, dll, install>>

Idle == tray # "off" /\ ui = "idle"

Joinable == worker \in {"none", "done"}

Init ==
  /\ windows \in BOOLEAN
  /\ tray = "off" /\ ui = "idle" /\ after = "stop" /\ stopError = FALSE
  /\ starting = FALSE /\ fresh = FALSE /\ auto = FALSE /\ route = FALSE
  /\ worker = "none" /\ current = FALSE /\ epochHeld = FALSE /\ posted = {}
  /\ core = "down" /\ lingering = FALSE /\ unclean = FALSE
  /\ lock = "free" /\ installer = "off" /\ request = "none"
  /\ installed = TRUE /\ backup = FALSE /\ stranded = FALSE

-----------------------------------------------------------------------------
(* The process *)

Launch ==
  /\ tray = "off" /\ lock = "free"
  /\ tray' = "up" /\ lock' = "tray"
  /\ fresh' = TRUE /\ auto' = TRUE
  /\ UNCHANGED <<windows, ui, after, stopError, route, starting, worker, current,
                 epochHeld, posted, dll, install>>

(* The process is gone; what still runs is ended by its supervisor.        *)
Gone(excused) ==
  /\ tray' = "off" /\ lock' = "free"
  /\ ui' = "idle" /\ after' = "stop" /\ stopError' = FALSE
  /\ starting' = FALSE /\ fresh' = FALSE /\ auto' = FALSE /\ route' = FALSE
  /\ worker' = "none" /\ current' = FALSE /\ epochHeld' = FALSE /\ posted' = {}
  /\ core' = "down"
  /\ lingering' = (lingering \/ core # "down")
  /\ unclean' = (unclean \/ (core # "down" /\ excused))
  /\ request' = IF request = "sent" THEN "none" ELSE request
  /\ UNCHANGED <<windows, installer, files>>

Killed == tray # "off" /\ Gone(TRUE)

\* The end of a session, WM_QUIT or the message of the Windows installer.
QuitRequested ==
  /\ Idle /\ tray' = "quitting"
  /\ UNCHANGED <<windows, lock, uiVars, start, dll, install>>

-----------------------------------------------------------------------------
(* The UI thread *)

(* ++startupGeneration                                                     *)
NextGeneration ==
  /\ fresh' = FALSE
  /\ posted' = IF posted = {} THEN {} ELSE {"stale"}

DoStart ==
  IF starting THEN UNCHANGED start
  ELSE /\ Joinable /\ NextGeneration
       /\ starting' = TRUE
       /\ worker' = "called" /\ current' = TRUE /\ epochHeld' = TRUE

ClickStart ==
  /\ Idle /\ DoStart
  /\ UNCHANGED <<windows, tray, lock, uiVars, dll, install>>

AutoTimer ==
  /\ Idle /\ auto /\ auto' = FALSE
  /\ IF fresh THEN DoStart ELSE UNCHANGED start
  /\ UNCHANGED <<windows, tray, lock, ui, after, stopError, route, dll, install>>

RouteTimer ==
  /\ Idle /\ route /\ route' = FALSE
  /\ DoStart
  /\ UNCHANGED <<windows, tray, lock, ui, after, stopError, auto, dll, install>>

\* setRoutingMode stops without stopStartupWorker.
ClickRoute ==
  /\ Idle /\ windows
  /\ ui' = "stop" /\ after' = "route"
  /\ UNCHANGED <<windows, tray, lock, stopError, auto, route, start, dll, install>>

BeginStop(why) ==
  /\ Idle /\ NextGeneration /\ current' = FALSE
  /\ ui' = "stop" /\ after' = why
  /\ UNCHANGED <<windows, tray, lock, stopError, auto, route, starting, worker,
                 epochHeld, dll, install>>

Click == \E why \in {"stop", "restart", "quit"} : BeginStop(why)

\* readyRead of listenForUpgrade
UpgradeRequested == request = "sent" /\ BeginStop("upgrade")

\* Mutant: the application ends without a last Stop.
AboutToQuitUnstopped ==
  /\ tray = "quitting" /\ Idle /\ Gone(FALSE)

AboutToQuit == tray = "quitting" /\ BeginStop("exit")

(* pStop: waits for gMu, which a worker holds while it launches.           *)
CallStop ==
  /\ ui = "stop" /\ worker # "launch"
  /\ epochHeld' = FALSE
  /\ core' \in IF core = "down" THEN {"down"} ELSE {"down", "stuck"}
  /\ stopError' = (core' = "stuck")
  /\ IF after = "route" THEN ui' = "idle" /\ route' = TRUE
                        ELSE ui' = "join" /\ UNCHANGED route
  /\ UNCHANGED <<windows, tray, lock, after, auto, starting, fresh, worker, current,
                 posted, lingering, unclean, install>>

\* Mutant: stopStartupWorker leaves the flag to the completion.
StartingAfterJoinKept == starting

StartingAfterJoin == FALSE

(* startupThread.join(), and what the callers of stopStartupWorker do.     *)
Joined ==
  /\ ui = "join" /\ Joinable
  /\ worker' = "none" /\ starting' = StartingAfterJoin
  /\ ui' = CASE after = "restart" -> "start" [] after = "exit" -> "exit" [] OTHER -> "idle"
  /\ tray' = IF after \in {"quit", "upgrade"} /\ ~stopError THEN "quitting" ELSE tray
  /\ request' = IF after # "upgrade" THEN request
                ELSE IF stopError THEN "failed" ELSE "stopped"
  /\ UNCHANGED <<windows, lock, after, stopError, auto, route, fresh, current, epochHeld,
                 posted, dll, installer, files>>

RestartStarts ==
  /\ ui = "start" /\ ui' = "idle" /\ DoStart
  /\ UNCHANGED <<windows, tray, lock, after, stopError, auto, route, dll, install>>

Exit == ui = "exit" /\ Gone(stopError)

\* Mutant: a completion of an earlier start is taken for the current one.
FinishesAny(generation) == FALSE

Finishes(generation) == IF generation = "current" THEN FALSE ELSE starting

Completed(generation) ==
  /\ Idle /\ generation \in posted
  /\ posted' = posted \ {generation}
  /\ starting' = Finishes(generation)
  /\ UNCHANGED <<windows, tray, lock, uiVars, fresh, worker, current, epochHeld, dll,
                 install>>

-----------------------------------------------------------------------------
(* The worker, in OneProxy_StartAtEpoch *)

Worker == UNCHANGED <<windows, tray, lock, uiVars, starting, fresh, current,
                      lingering, unclean, install>>

Finish ==
  /\ worker' = "done" /\ Worker
  /\ posted' = posted \cup {IF current THEN "current" ELSE "stale"}

\* Mutant: the worker captures the epoch itself.
EpochCurrentLate == TRUE

EpochCurrent == epochHeld

StartRefused ==
  /\ worker = "called" /\ (~EpochCurrent \/ core # "down")
  /\ Finish /\ UNCHANGED <<epochHeld, core>>

\* A core that recovers from a crash, or is being stopped, is stopped first;
\* the startup session is registered.
StartBegins ==
  /\ worker = "called" /\ EpochCurrent
  /\ worker' \in {"download", "launch"}
  /\ epochHeld' = TRUE /\ core' = "down"
  /\ Worker /\ UNCHANGED posted

DownloadEnds ==
  /\ worker = "download"
  /\ \/ Finish
     \/ epochHeld /\ worker' = "launch" /\ Worker /\ UNCHANGED posted
  /\ UNCHANGED <<epochHeld, core>>

Launched ==
  /\ worker = "launch" /\ Finish
  /\ core' \in {"up", "down"}
  /\ UNCHANGED epochHeld

(* A core ends by itself, or after its Stop has timed out.                 *)
CoreEnds ==
  /\ core # "down" /\ core' = "down"
  /\ UNCHANGED <<windows, tray, lock, uiVars, start, lingering, unclean, install>>

LingeringEnds ==
  /\ lingering /\ lingering' = FALSE /\ unclean' = FALSE
  /\ UNCHANGED <<windows, tray, lock, uiVars, start, core, install>>

-----------------------------------------------------------------------------
(* installMacUpdate *)

Owning == {"own", "moved", "restore"}   \* the installer holds the lock

Elsewhere == UNCHANGED <<windows, tray, uiVars, start, dll>>

Steps(from, to) ==
  /\ installer = from /\ installer' = to /\ Elsewhere
  /\ lock' = IF to \in Owning THEN "installer" ELSE IF from \in Owning THEN "free" ELSE lock

Stage == ~windows /\ Steps("off", "staged") /\ UNCHANGED <<request, files>>

Owns == lock = "free" /\ Steps("staged", "own") /\ UNCHANGED <<request, files>>

Asks ==
  /\ tray # "off" /\ Steps("staged", "asked")
  /\ request' = "sent" /\ UNCHANGED files

Answered ==
  /\ request = "stopped" /\ Steps("asked", "wait")
  /\ request' = "none" /\ UNCHANGED files

\* Mutant: the reply is enough.
HandedOverByReply == TRUE

HandedOver == lock = "free"

Waited == HandedOver /\ Steps("wait", "own") /\ UNCHANGED <<request, files>>

(* No connection, no or another reply, a timeout, a first rename that      *)
(* fails.  The request may still be in the tray's socket.                  *)
GivesUp ==
  /\ \E from \in {"staged", "asked", "wait", "own"} : Steps(from, "off")
  /\ request' = IF request = "failed" THEN "none" ELSE request
  /\ UNCHANGED files

MovesOld ==
  /\ Steps("own", "moved")
  /\ backup' = installed /\ installed' = FALSE
  /\ UNCHANGED <<request, stranded>>

(* The end of the installer removes its staging directory.                 *)
MovesNew ==
  /\ Steps("moved", "off")
  /\ installed' = TRUE /\ backup' = FALSE /\ stranded' = FALSE
  /\ UNCHANGED request

MoveFails ==
  /\ Steps("moved", IF backup THEN "restore" ELSE "off")
  /\ UNCHANGED <<request, files>>

Restores ==
  /\ Steps("restore", "off")
  /\ installed' = TRUE /\ backup' = FALSE /\ UNCHANGED <<request, stranded>>

KeepsStaging == backup

\* staging.setAutoRemove(false)
RestoreFails ==
  /\ Steps("restore", "off")
  /\ stranded' = (stranded \/ KeepsStaging) /\ backup' = FALSE
  /\ UNCHANGED <<request, installed>>

InstallerKilled ==
  /\ \E from \in {"staged", "asked", "wait"} \cup Owning : Steps(from, "off")
  /\ stranded' = (stranded \/ backup) /\ backup' = FALSE
  /\ UNCHANGED <<request, installed>>

-----------------------------------------------------------------------------
UiStep == CallStop \/ Joined \/ RestartStarts \/ Exit

WorkerStep == StartRefused \/ StartBegins \/ DownloadEnds \/ Launched

Next ==
  \/ Launch \/ Killed \/ QuitRequested \/ ClickStart \/ AutoTimer \/ RouteTimer
  \/ ClickRoute \/ Click \/ UpgradeRequested \/ AboutToQuit \/ UiStep
  \/ \E g \in {"current", "stale"} : Completed(g)
  \/ WorkerStep \/ CoreEnds \/ LingeringEnds
  \/ Stage \/ Owns \/ Asks \/ Answered \/ Waited \/ GivesUp \/ MovesOld \/ MovesNew
  \/ MoveFails \/ Restores \/ RestoreFails \/ InstallerKilled

(* Threads run; events that are queued are delivered in order.             *)
Fairness ==
  /\ WF_vars(UiStep) /\ WF_vars(WorkerStep)
  /\ \A g \in {"current", "stale"} : SF_vars(Completed(g))

Spec == Init /\ [][Next]_vars

FairSpec == Spec /\ Fairness

-----------------------------------------------------------------------------
(* Properties *)

(* The lock has the holder it should have; outside stopStartupWorker a     *)
(* start is marked while its worker runs or its completion is queued, and  *)
(* only then, so that doStart never waits for a worker.                    *)
TypeOK ==
  /\ tray \in {"off", "up", "quitting"}
  /\ ui \in {"idle", "stop", "join", "start", "exit"}
  /\ after \in {"stop", "restart", "quit", "route", "upgrade", "exit"}
  /\ worker \in {"none", "called", "download", "launch", "done"}
  /\ posted \subseteq {"current", "stale"}
  /\ core \in {"down", "up", "stuck"}
  /\ request \in {"none", "sent", "stopped", "failed"}
  /\ lock = "tray" <=> tray # "off"
  /\ lock = "installer" <=> installer \in Owning
  /\ ui = "idle" => (starting <=> ~Joinable \/ "current" \in posted)

(* While the application is replaced no tray runs, and no core unless its  *)
(* tray was killed or left after a Stop that failed.  However this fails   *)
(* or is killed, the application is in its place, or in a staging          *)
(* directory that is kept.                                                 *)
ReplaceQuietly ==
  /\ installer \in {"moved", "restore"} => tray = "off" /\ (lingering => unclean)
  /\ installed \/ backup \/ stranded

(* When stopStartupWorker has succeeded no core runs and none can come up  *)
(* from an earlier start: what the menu, quit and the installer rely on.   *)
StopHonest ==
  [][ui = "join" /\ ui' # "join" /\ ~stopError => core' = "down" /\ Joinable']_vars

(* A start does not stay marked for ever; the menu and doStart look at the *)
(* mark.                                                                   *)
StartingEnds == starting ~> ~starting
=============================================================================
