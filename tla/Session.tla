------------------------------- MODULE Session -------------------------------
(***************************************************************************)
(* The proxy session of the DLL (cmd/oneproxy-dll/main.go and              *)
(* subscription.go): the exported calls Start, StartAtEpoch, Stop,         *)
(* Restart, UpdateSubscription, ImportSubscription and FlushDNS, the       *)
(* six-hourly updater and the watcher of the manager's lifecycle, over the *)
(* globals they share under gMu.                                           *)
(*                                                                         *)
(* A manager is what CoreLifecycle.tla says it is.  One Start creates one  *)
(* manager, one health checker and, when it succeeds, one updater session; *)
(* the three share an identity here.  gMu and subscriptionUpdateMu are     *)
(* explicit.  A section under gMu in which the code calls no blocking      *)
(* manager operation is one action.                                        *)
(***************************************************************************)
EXTENDS CoreLifecycle

CONSTANTS
  Threads,   \* goroutines and UI threads that call into the DLL
  Cfgs,      \* identities of *config.Config objects
  Calls,     \* the calls the threads make
  Nil

AllCalls == {"start", "startAtEpoch", "stop", "restart", "update", "tick",
             "import", "flush"}

ASSUME SessionAssumption ==
  /\ Nil \notin Threads /\ Nil \notin Cfgs /\ Nil \notin Managers
  /\ Calls \subseteq AllCalls

VARIABLES
  gMu, updateMu,   \* holders of gMu and subscriptionUpdateMu
  gManager,        \* also stands for gHealthChecker and gDNSFlusher
  gConfig,
  gStartup,        \* the thread whose startup session is registered
  active,          \* subscriptionActive: the session's manager identity
  updating,        \* subscriptionUpdating
  health,          \* managers whose health checker is scheduled
  watcher,         \* per manager: watchManagerLifecycle's goroutine
  pc, call,
  cur, ses,        \* per thread: captured gConfig and subscriptionActive
  epochHeld,       \* threads whose captured epoch equals gStartEpoch
  next,            \* per thread: where Manager.stop() returns to
  rollback,        \* threads in the second reloadAndRestart
  overtaken        \* history: threads that a Stop or Restart has overtaken

locks   == <<gMu, updateMu>>
globals == <<gManager, gConfig, gStartup, active, updating, health, watcher>>
locals  == <<call, cur, ses, epochHeld, next, rollback, overtaken>>
vars == <<coreVars, locks, globals, locals, pc>>

Pcs == {"idle", "lock", "begin", "mstop", "mwait", "load", "download",
        "launch", "launched", "stopped", "queue", "recheck", "fetch",
        "reload", "mrestart", "relaunch", "relaunched"}

Updates == {"update", "tick", "import"}

UnderGMu == {"begin", "mstop", "mwait", "load", "launch", "launched",
             "stopped", "reload", "mrestart", "relaunch", "relaunched"}

\* A mutex is held by the thread that stands where the code holds it.
LocksOK ==
  \A t \in Threads :
    /\ gMu = t <=> pc[t] \in UnderGMu
    /\ updateMu = t <=> /\ call[t] \in Updates
                       /\ pc[t] \in UnderGMu \cup {"recheck", "fetch"}

(* Type correctness, and the mutexes as the code takes them.               *)
TypeOK ==
  /\ LocksOK
  /\ CoreTypeOK
  /\ gMu \in Threads \cup {Nil} /\ updateMu \in Threads \cup {Nil}
  /\ gManager \in Managers \cup {Nil} /\ active \in Managers \cup {Nil}
  /\ gConfig \in Cfgs \cup {Nil} /\ gStartup \in Threads \cup {Nil}
  /\ updating \in BOOLEAN
  /\ health \subseteq Managers
  /\ watcher \in [Managers -> {"none", "waiting", "woken"}]
  /\ pc \in [Threads -> Pcs]
  /\ call \in [Threads -> AllCalls]
  /\ cur \in [Threads -> Cfgs \cup {Nil}]
  /\ ses \in [Threads -> Managers \cup {Nil}]
  /\ next \in [Threads -> {"load", "stopped", "relaunch"}]
  /\ epochHeld \subseteq Threads /\ rollback \subseteq Threads
  /\ overtaken \subseteq Threads

Init ==
  /\ CoreInit
  /\ gMu = Nil /\ updateMu = Nil
  /\ gManager = Nil /\ gConfig = Nil /\ gStartup = Nil /\ active = Nil
  /\ updating = FALSE
  /\ health = {}
  /\ watcher = [m \in Managers |-> "none"]
  /\ pc = [t \in Threads |-> "idle"]
  /\ call = [t \in Threads |-> "stop"]
  /\ cur = [t \in Threads |-> Nil] /\ ses = [t \in Threads |-> Nil]
  /\ next = [t \in Threads |-> "load"]
  /\ epochHeld = {} /\ rollback = {} /\ overtaken = {}

Captured(f) == {f[t] : t \in Threads}

(* A new object is one nothing refers to.  A watcher left waiting on a     *)
(* manager that nothing else refers to can never be woken.                 *)
NewConfigs == Cfgs \ ({gConfig} \cup Captured(cur))

NewManagers ==
  {m \in Managers : phase[m] = "down" /\ unread[m] = 0 /\ watcher[m] # "woken"}
    \ ({gManager, active} \cup Captured(ses))

Up(m) == m # Nil /\ phase[m] = "up"   \* manager.IsRunning()

-----------------------------------------------------------------------------
(* Moving a thread *)

Goto(t, from, to) ==
  /\ pc[t] = from
  /\ pc' = [pc EXCEPT ![t] = to]

(* Return from the call: the deferred unlocks run, the locals are gone.    *)
Return(t, from) ==
  /\ Goto(t, from, "idle")
  /\ gMu' = Nil
  /\ updateMu' = IF updateMu = t THEN Nil ELSE updateMu
  /\ cur' = [cur EXCEPT ![t] = Nil] /\ ses' = [ses EXCEPT ![t] = Nil]
  /\ rollback' = rollback \ {t}
  /\ epochHeld' = epochHeld \ {t}
  /\ overtaken' = overtaken \ {t}
  /\ call' = [call EXCEPT ![t] = "stop"] /\ next' = [next EXCEPT ![t] = "load"]

(* Go on, with gMu in the hands of holder.                                 *)
Move(t, from, to, holder) ==
  /\ Goto(t, from, to)
  /\ gMu' = holder
  /\ UNCHANGED updateMu

Busy(k) == {t \in Threads : pc[t] # "idle" /\ call[t] = k}

(* A call is made.  StartAtEpoch carries an epoch that StartupEpoch read   *)
(* under gMu; a tick belongs to the session that is active, whose          *)
(* goroutine makes one at a time.                                          *)
Invoke(t, k) ==
  /\ Goto(t, "idle", "lock")
  /\ call' = [call EXCEPT ![t] = k]
  /\ k = "startAtEpoch" => gMu = Nil
  /\ k = "tick" => active # Nil /\ \A u \in Busy("tick") : ses[u] # active
  /\ ses' = [ses EXCEPT ![t] = IF k = "tick" THEN active ELSE Nil]
  /\ epochHeld' = IF k = "startAtEpoch" THEN epochHeld \cup {t} ELSE epochHeld
  /\ UNCHANGED <<coreVars, locks, globals, cur, next, rollback, overtaken>>

\* Mutant: the health checker is not stopped.
StopServicesProbing ==
  /\ active' = Nil /\ updating' = FALSE
  /\ UNCHANGED health

(* stopSubscriptionUpdater and gHealthChecker.Stop                         *)
StopServices ==
  /\ active' = Nil /\ updating' = FALSE
  /\ health' = health \ {gManager}

-----------------------------------------------------------------------------
(* Start and StartAtEpoch *)

StartLock(t) ==
  /\ call[t] \in {"start", "startAtEpoch"} /\ gMu = Nil
  /\ UNCHANGED <<coreVars, globals>>
  /\ \/ /\ call[t] = "startAtEpoch" => t \in epochHeld
        /\ Move(t, "lock", "begin", t)
        /\ UNCHANGED locals
     \/ /\ call[t] = "startAtEpoch" /\ t \notin epochHeld
        /\ Return(t, "lock")

StartRefused(t) ==
  /\ gStartup # Nil \/ Up(gManager)
  /\ Return(t, "begin")
  /\ UNCHANGED <<coreVars, globals>>

(* Dispose of what an earlier session left.                                *)
StartBegin(t) ==
  /\ gStartup = Nil /\ ~Up(gManager)
  /\ StopServices
  /\ Move(t, "begin", IF gManager = Nil THEN "load" ELSE "mstop", t)
  /\ next' = [next EXCEPT ![t] = "load"]
  /\ UNCHANGED <<coreVars, gManager, gConfig, gStartup, watcher, call, cur, ses,
                 epochHeld, rollback, overtaken>>

(* resolveConfig or config.Load fails.                                     *)
LoadFails(t) ==
  /\ gManager' = Nil /\ gConfig' = Nil
  /\ Return(t, "load")
  /\ UNCHANGED <<coreVars, gStartup, active, updating, health, watcher>>

(* A configured subscription is downloaded first, with gMu released.       *)
LoadSubscribed(t) ==
  /\ gManager' = Nil
  /\ gConfig' \in NewConfigs
  /\ gStartup' = t
  /\ updating' = TRUE
  /\ Move(t, "load", "download", Nil)
  /\ UNCHANGED <<coreVars, active, health, watcher, locals>>

LoadPlain(t) ==
  /\ gManager' = Nil
  /\ gConfig' \in NewConfigs
  /\ Move(t, "load", "launch", t)
  /\ UNCHANGED <<coreVars, gStartup, active, updating, health, watcher, locals>>

(* PrepareStartupSubscription has returned and gMu is taken again.         *)
DownloadEnds(t) == gMu = Nil /\ gStartup = t

DownloadCanceled(t) ==
  /\ gMu = Nil /\ gStartup # t
  /\ Return(t, "download")
  /\ UNCHANGED <<coreVars, globals>>

(* Download, merge or save failed: the loaded configuration stays, nothing *)
(* runs.                                                                   *)
DownloadFails(t) ==
  /\ DownloadEnds(t)
  /\ gStartup' = Nil /\ updating' = FALSE
  /\ Return(t, "download")
  /\ UNCHANGED <<coreVars, gManager, gConfig, active, health, watcher>>

\* Mutant: gMu is not taken again after the download.
DownloadSucceedsUnlocked(t) ==
  /\ DownloadEnds(t)
  /\ gStartup' = Nil /\ updating' = FALSE
  /\ gConfig' \in NewConfigs
  /\ Move(t, "download", "launch", Nil)
  /\ UNCHANGED <<coreVars, gManager, active, health, watcher, locals>>

DownloadSucceeds(t) ==
  /\ DownloadEnds(t)
  /\ gStartup' = Nil /\ updating' = FALSE
  /\ gConfig' \in NewConfigs
  /\ Move(t, "download", "launch", t)
  /\ UNCHANGED <<coreVars, gManager, active, health, watcher, locals>>

(* The core's configuration cannot be written or sing-box is missing; or a *)
(* manager exists already whose Start fails at once.                       *)
LaunchRefused(t) ==
  /\ \/ UNCHANGED <<gManager, watcher>>
     \/ \E m \in NewManagers :
          gManager' = m /\ watcher' = [watcher EXCEPT ![m] = "none"]
  /\ Return(t, "launch")
  /\ UNCHANGED <<coreVars, gConfig, gStartup, active, updating, health>>

StartLaunch(t) ==
  /\ \E m \in NewManagers :
       /\ gManager' = m
       /\ watcher' = [watcher EXCEPT ![m] = "none"]
       /\ Launch(m)
  /\ Move(t, "launch", "launched", t)
  /\ UNCHANGED <<gConfig, gStartup, active, updating, health, locals>>

(* gManager.Start has returned.                                            *)
StartFailed(t) ==
  /\ pc[t] = "launched"
  /\ LaunchFails(gManager)
  /\ Return(t, "launched")
  /\ UNCHANGED globals

\* Mutant: nobody watches the manager's lifecycle.
StartDoneUnwatched(t) ==
  /\ pc[t] = "launched"
  /\ phase[gManager] = "starting" /\ ComeUp(gManager)
  /\ health' = health \cup {gManager}
  /\ active' = IF active = Nil THEN gManager ELSE active
  /\ Return(t, "launched")
  /\ UNCHANGED <<gManager, gConfig, gStartup, updating, watcher>>

StartDone(t) ==
  /\ pc[t] = "launched"
  /\ phase[gManager] = "starting" /\ ComeUp(gManager)
  /\ health' = health \cup {gManager}
  /\ watcher' = [watcher EXCEPT ![gManager] = "waiting"]
  /\ active' = IF active = Nil THEN gManager ELSE active
  /\ Return(t, "launched")
  /\ UNCHANGED <<gManager, gConfig, gStartup, updating>>

-----------------------------------------------------------------------------
(* Manager.Stop, called with gMu held *)

\* Mutant: a lifecycle that is already stopping is not waited for.
ManagerStopUnwaited(t) ==
  /\ pc[t] = "mstop"
  /\ IF phase[gManager] \in {"up", "recovering"}
     THEN Claim(gManager) ELSE UNCHANGED coreVars
  /\ Move(t, "mstop",
          IF phase[gManager] \in {"up", "recovering"} THEN "mwait" ELSE next[t], t)
  /\ UNCHANGED <<globals, locals>>

(* The first section of Manager.stop().                                    *)
ManagerStop(t) ==
  /\ pc[t] = "mstop"
  /\ IF phase[gManager] \in {"up", "recovering"}
     THEN Claim(gManager) ELSE UNCHANGED coreVars
  /\ Move(t, "mstop", IF phase[gManager] = "down" THEN next[t] ELSE "mwait", t)
  /\ UNCHANGED <<globals, locals>>

ManagerStopped(t) ==
  /\ pc[t] = "mwait" /\ phase[gManager] = "down"
  /\ Move(t, "mwait", next[t], t)
  /\ UNCHANGED <<coreVars, globals, locals>>

-----------------------------------------------------------------------------
(* Stop and Restart *)

(* A start that is queued with an epoch or downloads, and an update of a   *)
(* running session, are overtaken by a Stop.                               *)
Overtakes(t) ==
  overtaken \cup
    {u \in Threads \ {t} :
       \/ pc[u] = "lock" /\ u \in epochHeld
       \/ pc[u] = "download"
       \/ pc[u] \in {"queue", "recheck", "fetch"} /\ ses[u] # Nil}

(* gStartEpoch++: no captured epoch is current any more.                   *)
EpochsAfterStop == {}

(* stopProxy up to gManager.Stop                                           *)
StopLock(t) ==
  /\ call[t] \in {"stop", "restart"} /\ gMu = Nil
  /\ call[t] = "restart" => gStartup = Nil /\ gManager # Nil
  /\ epochHeld' = EpochsAfterStop
  /\ overtaken' = Overtakes(t)
  /\ gStartup' = Nil
  /\ StopServices
  /\ Move(t, "lock", IF gManager = Nil THEN "stopped" ELSE "mstop", t)
  /\ next' = [next EXCEPT ![t] = "stopped"]
  /\ UNCHANGED <<coreVars, gManager, gConfig, watcher, call, cur, ses, rollback>>

RestartRefused(t) ==
  /\ call[t] = "restart" /\ gMu = Nil
  /\ gStartup # Nil \/ gManager = Nil
  /\ Return(t, "lock")
  /\ UNCHANGED <<coreVars, globals>>

(* The globals are cleared; Restart goes on to startProxy.                 *)
StopDone(t) ==
  /\ pc[t] = "stopped"
  /\ gManager' = Nil /\ gConfig' = Nil
  /\ \/ call[t] = "stop" /\ Return(t, "stopped")
     \/ call[t] = "restart" /\ Move(t, "stopped", "begin", t) /\ UNCHANGED locals
  /\ UNCHANGED <<coreVars, gStartup, active, updating, health, watcher>>

-----------------------------------------------------------------------------
(* Updates of the subscription and manual imports *)

\* Mutant: gMu is kept while the update queues.
UpdateLockKept(t) ==
  /\ call[t] \in Updates /\ gMu = Nil
  /\ gStartup = Nil
  /\ call[t] # "import" => gConfig # Nil
  /\ call[t] = "tick" => active = ses[t]
  /\ cur' = [cur EXCEPT ![t] = gConfig]
  /\ ses' = [ses EXCEPT ![t] = active]
  /\ Move(t, "lock", "queue", t)
  /\ UNCHANGED <<coreVars, globals, call, epochHeld, next, rollback, overtaken>>

(* Capture the configuration and the session before queueing.              *)
UpdateLock(t) ==
  /\ call[t] \in Updates /\ gMu = Nil
  /\ gStartup = Nil
  /\ call[t] # "import" => gConfig # Nil
  /\ call[t] = "tick" => active = ses[t]
  /\ cur' = [cur EXCEPT ![t] = gConfig]
  /\ ses' = [ses EXCEPT ![t] = active]
  /\ Move(t, "lock", "queue", Nil)
  /\ UNCHANGED <<coreVars, globals, call, epochHeld, next, rollback, overtaken>>

(* No configuration, a startup under way, a stopped session, no            *)
(* subscription URL, or a link that cannot be parsed.                      *)
UpdateRefused(t) ==
  /\ call[t] \in Updates /\ gMu = Nil
  /\ Return(t, "lock")
  /\ UNCHANGED <<coreVars, globals>>

UpdateQueued(t) ==
  /\ updateMu = Nil
  /\ Goto(t, "queue", "recheck")
  /\ updateMu' = t
  /\ UNCHANGED <<coreVars, gMu, globals, locals>>

SameSession(t) == gConfig = cur[t] /\ active = ses[t]

UpdateBegins(t) ==
  /\ call[t] # "import" /\ gMu = Nil
  /\ SameSession(t)
  /\ updating' = TRUE
  /\ Move(t, "recheck", "fetch", Nil)
  /\ UNCHANGED <<coreVars, gManager, gConfig, gStartup, active, health, watcher, locals>>

(* Merge and save of a manual node, then the runtime is reloaded.          *)
ImportApplies(t) ==
  /\ call[t] = "import" /\ gMu = Nil
  /\ gConfig # Nil /\ gStartup = Nil /\ SameSession(t)
  /\ gConfig' \in NewConfigs
  /\ Move(t, "recheck", "reload", t)
  /\ UNCHANGED <<coreVars, gManager, gStartup, active, updating, health, watcher, locals>>

(* Another session, or the merge or the save of an import failed.          *)
RecheckFails(t) ==
  /\ gMu = Nil
  /\ call[t] # "import" => ~SameSession(t)
  /\ Return(t, "recheck")
  /\ UNCHANGED <<coreVars, globals>>

(* gMu is taken after the download; the flag belongs to the session.       *)
FetchEnds(t) ==
  /\ gMu = Nil
  /\ updating' = IF active = ses[t] THEN FALSE ELSE updating
  /\ UNCHANGED <<gManager, gStartup, active, health, watcher>>

\* Mutant: the session is not compared again after the download.
FetchIsCurrentAlways(t) == TRUE

FetchIsCurrent(t) == SameSession(t)

(* Another session, a failed download, merge or save, or nothing new.      *)
FetchKeeps(t) ==
  /\ FetchEnds(t)
  /\ Return(t, "fetch")
  /\ UNCHANGED <<coreVars, gConfig>>

(* A change the runtime does not see is saved and published.               *)
FetchRecords(t) ==
  /\ FetchEnds(t) /\ FetchIsCurrent(t)
  /\ gConfig' \in NewConfigs
  /\ Return(t, "fetch")
  /\ UNCHANGED coreVars

FetchApplies(t) ==
  /\ FetchEnds(t) /\ FetchIsCurrent(t)
  /\ gConfig' \in NewConfigs
  /\ Move(t, "fetch", "reload", t)
  /\ UNCHANGED <<coreVars, locals>>

-----------------------------------------------------------------------------
(* reloadAndRestart, FlushDNS and Manager.Restart *)

RestoreConfig(t) == cur[t]

(* The outcome of a reload: the first failure is rolled back by a second   *)
(* reload, whose own outcome is ignored.  FlushDNS just returns.           *)
Reloaded(t, from, ok) ==
  \/ /\ call[t] = "flush" \/ t \in rollback \/ ok
     /\ Return(t, from)
     /\ UNCHANGED gConfig
  \/ /\ call[t] \in Updates /\ t \notin rollback
     /\ ok => call[t] # "import"       \* Save fails after the restart
     /\ gConfig' = RestoreConfig(t)
     /\ rollback' = rollback \cup {t}
     /\ Move(t, from, "reload", t)
     /\ UNCHANGED <<call, cur, ses, epochHeld, next, overtaken>>

(* The generated configuration cannot be written.                          *)
ReloadFails(t) ==
  /\ pc[t] = "reload"
  /\ Reloaded(t, "reload", FALSE)
  /\ UNCHANGED <<coreVars, gManager, gStartup, active, updating, health, watcher>>

(* Without a running core there is nothing to restart.                     *)
ReloadIdle(t) ==
  /\ pc[t] = "reload" /\ ~Up(gManager)
  /\ health' = health \ {gManager}
  /\ Reloaded(t, "reload", TRUE)
  /\ UNCHANGED <<coreVars, gManager, gStartup, active, updating, watcher>>

ReloadRestarts(t) ==
  /\ Up(gManager)
  /\ health' = health \ {gManager}
  /\ Move(t, "reload", "mrestart", t)
  /\ UNCHANGED <<coreVars, gManager, gConfig, gStartup, active, updating, watcher, locals>>

(* FlushDNS: not running, cooling down, or the system flush failed.        *)
FlushRefused(t) ==
  /\ call[t] = "flush" /\ gMu = Nil
  /\ Return(t, "lock")
  /\ UNCHANGED <<coreVars, globals>>

FlushLock(t) ==
  /\ call[t] = "flush" /\ gMu = Nil
  /\ Up(gManager)
  /\ Move(t, "lock", "mrestart", t)
  /\ UNCHANGED <<coreVars, globals, locals>>

(* Manager.Restart asks IsRunning() again, then stops and starts.          *)
ManagerRestart(t) ==
  /\ Up(gManager)
  /\ Move(t, "mrestart", "mstop", t)
  /\ next' = [next EXCEPT ![t] = "relaunch"]
  /\ UNCHANGED <<coreVars, globals, call, cur, ses, epochHeld, rollback, overtaken>>

RestartFails(t) ==
  /\ \/ pc[t] = "mrestart" /\ ~Up(gManager) /\ Reloaded(t, "mrestart", FALSE)
     \/ pc[t] = "relaunch" /\ Reloaded(t, "relaunch", FALSE)
  /\ UNCHANGED <<coreVars, gManager, gStartup, active, updating, health, watcher>>

Relaunch(t) ==
  /\ Move(t, "relaunch", "relaunched", t)
  /\ Launch(gManager)
  /\ UNCHANGED <<globals, locals>>

RelaunchFails(t) ==
  /\ pc[t] = "relaunched"
  /\ LaunchFails(gManager)
  /\ Reloaded(t, "relaunched", FALSE)
  /\ UNCHANGED <<gManager, gStartup, active, updating, health, watcher>>

(* reloadAndRestart starts the health checker again.                       *)
RelaunchDone(t) ==
  /\ pc[t] = "relaunched"
  /\ phase[gManager] = "starting" /\ ComeUp(gManager)
  /\ health' = IF call[t] = "flush" THEN health ELSE health \cup {gManager}
  /\ Reloaded(t, "relaunched", TRUE)
  /\ UNCHANGED <<gManager, gStartup, active, updating, watcher>>

\* Mutant: the error of Manager.Stop is ignored.
ManagerStopFailsIgnored(t) ==
  /\ pc[t] = "mwait"
  /\ Move(t, "mwait", next[t], t)
  /\ UNCHANGED <<coreVars, globals, locals>>

(* Manager.Stop times out: Start and Stop return with the globals as they  *)
(* are, a reload fails.                                                    *)
ManagerStopFails(t) ==
  /\ pc[t] = "mwait"
  /\ IF next[t] = "relaunch" THEN Reloaded(t, "mwait", FALSE)
     ELSE Return(t, "mwait") /\ UNCHANGED gConfig
  /\ UNCHANGED <<coreVars, gManager, gStartup, active, updating, health, watcher>>

-----------------------------------------------------------------------------
(* The core and the watcher of its lifecycle *)

CoreMoves(m) ==
  /\ \/ phase[m] = "recovering" /\ ComeUp(m)
     \/ Crash(m) \/ GiveUp(m) \/ Stopped(m)
  /\ UNCHANGED <<locks, globals, locals, pc>>

(* The part of it that does not wait for anything outside.                 *)
CoreSettles(m) == CoreMoves(m) /\ phase[m] \in {"recovering", "stopping"}

WatcherWakes(m) ==
  /\ watcher[m] = "waiting"
  /\ Receive(m)
  /\ watcher' = [watcher EXCEPT ![m] = "woken"]
  /\ UNCHANGED <<locks, gManager, gConfig, gStartup, active, updating, health,
                 locals, pc>>

(* Publish a fully stopped state, unless the session has been replaced.    *)
WatcherClears(m) ==
  /\ watcher[m] = "woken" /\ gMu = Nil
  /\ watcher' = [watcher EXCEPT ![m] = "none"]
  /\ IF gManager = m
     THEN StopServices /\ gManager' = Nil /\ gConfig' = Nil
     ELSE UNCHANGED <<gManager, gConfig, active, updating, health>>
  /\ UNCHANGED <<coreVars, locks, gStartup, locals, pc>>

-----------------------------------------------------------------------------
ThreadStep(t) ==
  \/ StartRefused(t) \/ StartBegin(t) \/ LoadFails(t) \/ LoadSubscribed(t)
  \/ LoadPlain(t) \/ LaunchRefused(t) \/ StartLaunch(t) \/ StartFailed(t)
  \/ StartDone(t) \/ ManagerStop(t) \/ ManagerStopped(t) \/ ManagerStopFails(t)
  \/ StopDone(t) \/ ReloadFails(t) \/ ReloadIdle(t) \/ ReloadRestarts(t)
  \/ ManagerRestart(t) \/ RestartFails(t) \/ Relaunch(t) \/ RelaunchFails(t)
  \/ RelaunchDone(t)

(* The steps that wait for a mutex.                                        *)
LockStep(t) ==
  \/ StartLock(t) \/ StopLock(t) \/ RestartRefused(t) \/ UpdateLock(t)
  \/ UpdateRefused(t) \/ FlushRefused(t) \/ FlushLock(t)
  \/ DownloadCanceled(t) \/ DownloadFails(t) \/ DownloadSucceeds(t)
  \/ UpdateQueued(t) \/ UpdateBegins(t) \/ ImportApplies(t) \/ RecheckFails(t)
  \/ FetchKeeps(t) \/ FetchRecords(t) \/ FetchApplies(t)

Next ==
  \/ \E t \in Threads :
       \/ \E k \in Calls : Invoke(t, k)
       \/ ThreadStep(t) \/ LockStep(t)
  \/ \E m \in Managers : CoreMoves(m) \/ WatcherWakes(m) \/ WatcherClears(m)

(* A goroutine keeps running, a mutex does not starve a waiter, a running  *)
(* core's monitor and a stopping child make progress.                      *)
Fairness ==
  /\ \A t \in Threads : WF_vars(ThreadStep(t)) /\ SF_vars(LockStep(t))
  /\ \A m \in Managers :
       /\ WF_vars(CoreSettles(m))
       /\ WF_vars(WatcherWakes(m)) /\ SF_vars(WatcherClears(m))

Spec == Init /\ [][Next]_vars

FairSpec == Spec /\ Fairness

-----------------------------------------------------------------------------
(* Properties *)

Orphan(m) == phase[m] # "down" /\ gManager # m

(* No core runs that the DLL has forgotten: whatever is not down belongs   *)
(* to the published manager (stopProxy, startProxyInDataDir and            *)
(* watchManagerLifecycle clear gManager).                                  *)
NoOrphan == \A m \in Managers : ~Orphan(m)

(* A core is forgotten in one way only: its watcher was woken by the end   *)
(* of an earlier lifecycle, and clears the globals when Manager.Restart    *)
(* has begun the next (watchManagerLifecycle).  No Start, Stop or failed   *)
(* cleanup loses one.                                                      *)
OnlyWatcherForgets ==
  [][\A m \in Managers : ~Orphan(m) /\ Orphan(m)' =>
       watcher[m] = "woken" /\ watcher'[m] = "none"]_vars

(* A session, a scheduled health checker and a registered startup belong   *)
(* to what is published: an updater session runs on the current manager    *)
(* with a configuration, only the current manager is probed, a registered  *)
(* startup is a download under way, and the progress flag is on only while *)
(* somebody downloads for the current startup or session.                  *)
SessionBelongs ==
  /\ active # Nil => gManager = active /\ gConfig # Nil
  /\ health \subseteq {gManager}
  /\ gStartup # Nil => pc[gStartup] = "download"
  /\ updating => \E t \in Threads : \/ pc[t] = "download" /\ gStartup = t
                                    \/ pc[t] = "fetch" /\ active = ses[t]

(* Nothing that a Stop has overtaken gets past its next look at the        *)
(* globals: a queued or downloading start never launches, an update never  *)
(* applies (startProxyAtEpoch, gStartup # session,                         *)
(* subscriptionActive # session).                                          *)
StopOvertakes ==
  \A t \in overtaken : pc[t] \in {"lock", "download", "queue", "recheck", "fetch"}

(* When Stop reports success nothing is left of the session, and its core  *)
(* is down; it returns an error from "mwait".                              *)
StopClean ==
  [][\A t \in Threads :
       pc[t] = "stopped" /\ pc'[t] = "idle" =>
         /\ gManager # Nil => phase[gManager] = "down"
         /\ gManager' = Nil /\ gConfig' = Nil /\ gStartup' = Nil
         /\ active' = Nil /\ ~updating' /\ health' = {}]_vars

(* Every call returns: the two mutexes and the manager cannot wait on each *)
(* other.                                                                  *)
CallsReturn == \A t \in Threads : pc[t] # "idle" ~> pc[t] = "idle"

(* A lifecycle that ended by itself is published as a stopped session.     *)
TerminalExitIsPublished ==
  \A m \in Managers :
    unread[m] = 1 /\ gManager = m ~> gManager # m \/ phase[m] # "down"

-----------------------------------------------------------------------------
(* Claims of the repository that the code does not keep. *)

(* A running session is probed: with no call under way, the health checker *)
(* of an active session whose core is up is scheduled (health.go:89-91).   *)
HealthKept ==
  gMu = Nil /\ active # Nil /\ Up(gManager) => gManager \in health
=============================================================================
