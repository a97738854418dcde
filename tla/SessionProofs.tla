---------------------------- MODULE SessionProofs ----------------------------
(***************************************************************************)
(* Theorems about Session, for any threads, configurations, managers and   *)
(* any set of calls.                                                       *)
(*                                                                         *)
(* SessionBelongs and StopOvertakes are not inductive by themselves.       *)
(* IndInv adds what the holder of gMu knows after it has disposed of a     *)
(* session, what a registered startup excludes, what an update goes back   *)
(* to, and why something overtaken cannot match the globals again: its     *)
(* manager is captured, so no later session gets that identity.            *)
(***************************************************************************)
EXTENDS Session, TLAPS

\* TypeOK without LocksOK and the one flag.
PlacesOK ==
  /\ CoreTypeOK
  /\ gMu \in Threads \cup {Nil} /\ updateMu \in Threads \cup {Nil}
  /\ gManager \in Managers \cup {Nil} /\ active \in Managers \cup {Nil}
  /\ gConfig \in Cfgs \cup {Nil} /\ gStartup \in Threads \cup {Nil}
  /\ health \subseteq Managers
  /\ watcher \in [Managers -> {"none", "waiting", "woken"}]
  /\ pc \in [Threads -> Pcs]
  /\ call \in [Threads -> AllCalls]
  /\ cur \in [Threads -> Cfgs \cup {Nil}]
  /\ ses \in [Threads -> Managers \cup {Nil}]
  /\ next \in [Threads -> {"load", "stopped", "relaunch"}]
  /\ epochHeld \subseteq Threads /\ rollback \subseteq Threads
  /\ overtaken \subseteq Threads

Starts == {"start", "startAtEpoch", "restart"}

(* Which call can be where.                                                *)
CallsInv ==
  \A t \in Threads :
    /\ pc[t] \in {"begin", "load", "download", "launch", "launched"} =>
         call[t] \in Starts
    /\ pc[t] = "stopped" => call[t] \in {"stop", "restart"}
    /\ pc[t] \in {"queue", "recheck", "fetch", "reload"} => call[t] \in Updates
    /\ pc[t] = "fetch" => call[t] # "import"
    /\ pc[t] \in {"mrestart", "relaunch", "relaunched"} =>
         call[t] \in Updates \cup {"flush"}
    /\ pc[t] \in {"mstop", "mwait"} =>
         \/ next[t] = "load" /\ call[t] \in Starts
         \/ next[t] = "stopped" /\ call[t] \in {"stop", "restart"}
         \/ next[t] = "relaunch" /\ call[t] \in Updates \cup {"flush"}

(* A Start or a Stop that has disposed of the services, and no startup is  *)
(* registered.                                                             *)
Disposing(t) ==
  \/ pc[t] \in {"load", "launch", "launched", "stopped"}
  \/ pc[t] \in {"mstop", "mwait"} /\ next[t] \in {"load", "stopped"}

ServicesStopped == active = Nil /\ ~updating /\ health = {} /\ gStartup = Nil

(* What the holder of gMu can rely on.                                     *)
HolderInv ==
  \A t \in Threads :
    /\ Disposing(t) => ServicesStopped
    /\ pc[t] \in {"mstop", "mwait", "mrestart", "launched", "relaunch", "relaunched"} =>
         gManager # Nil
    /\ pc[t] \in {"load", "stopped", "relaunch"} =>
         gManager = Nil \/ phase[gManager] = "down"
    /\ pc[t] = "launch" => gManager = Nil
    /\ pc[t] \in {"launched", "relaunched"} => phase[gManager] = "starting"
    /\ pc[t] \in {"launch", "launched"} => gConfig # Nil
    /\ pc[t] = "launched" => \A u \in Threads : ses[u] # gManager

(* While a startup downloads no manager is published.                      *)
StartupInv == gStartup # Nil => gManager = Nil

(* An update has a configuration to go back to.                            *)
CapturedInv ==
  \A t \in Threads :
    call[t] \in Updates =>
      /\ pc[t] \in UnderGMu => cur[t] # Nil
      /\ pc[t] \in {"queue", "recheck", "fetch"} => call[t] = "import" \/ cur[t] # Nil

(* What has been overtaken does not match the globals.                     *)
OvertakenInv ==
  /\ \A t \in epochHeld : call[t] = "startAtEpoch" /\ pc[t] # "idle"
  /\ \A t \in overtaken :
       /\ pc[t] = "lock" => call[t] = "startAtEpoch" /\ t \notin epochHeld
       /\ pc[t] = "download" => gStartup # t
       /\ pc[t] \in {"queue", "recheck", "fetch"} => ses[t] # Nil /\ ses[t] # active

Connected ==
  /\ LocksOK /\ PlacesOK /\ CallsInv /\ HolderInv /\ StartupInv /\ CapturedInv
  /\ SessionBelongs /\ StopOvertakes /\ OvertakenInv

IndInv == Connected /\ updating \in BOOLEAN
-----------------------------------------------------------------------------
(* TypeOK is part of the inductive invariant.                              *)
LEMMA IndTypes == IndInv => TypeOK
  BY DEF IndInv, Connected, PlacesOK, TypeOK

-----------------------------------------------------------------------------
(* Nothing is published and every thread is outside.                       *)
LEMMA InitInd == Init => IndInv
<1> SUFFICES ASSUME Init PROVE IndInv
  OBVIOUS
<1> USE SessionAssumption DEF Init, CoreInit
<1>1. PlacesOK /\ LocksOK
  BY SMT DEF PlacesOK, CoreTypeOK, Phases, Pcs, AllCalls, LocksOK, UnderGMu
<1>2. CallsInv /\ HolderInv /\ StartupInv /\ CapturedInv
  BY SMT DEF CallsInv, HolderInv, Disposing, StartupInv, CapturedInv, UnderGMu
<1>3. SessionBelongs /\ StopOvertakes /\ OvertakenInv
  BY DEF SessionBelongs, StopOvertakes, OvertakenInv
<1> QED
  BY <1>1, <1>2, <1>3 DEF IndInv, Connected

(* A call begins, or takes gMu and goes on.                                *)
LEMMA CallSteps ==
  ASSUME Connected, NEW t \in Threads,
         (\E k \in Calls : Invoke(t, k)) \/ StartLock(t) \/ StopLock(t)
         \/ RestartRefused(t) \/ UpdateLock(t) \/ UpdateRefused(t)
         \/ FlushRefused(t) \/ FlushLock(t)
  PROVE  Connected'
<1> USE SessionAssumption DEF coreVars, locks, globals, locals, Goto, Move, Return,
     Up, StopServices, EpochsAfterStop, Overtakes, Connected, LocksOK, PlacesOK,
     CoreTypeOK, Phases, Pcs, AllCalls, UnderGMu, Updates, Starts, CallsInv,
     HolderInv, Disposing, ServicesStopped, StartupInv, CapturedInv, SessionBelongs,
     StopOvertakes, OvertakenInv
<1>1. CASE StartLock(t)
  BY <1>1, SMT DEF StartLock
<1>2. CASE StopLock(t)
  BY <1>2, SMT DEF StopLock
<1>3. CASE RestartRefused(t)
  BY <1>3, SMT DEF RestartRefused
<1>4. CASE UpdateLock(t)
  BY <1>4, SMT DEF UpdateLock
<1>5. CASE UpdateRefused(t)
  BY <1>5, SMT DEF UpdateRefused
<1>6. CASE FlushRefused(t)
  BY <1>6, SMT DEF FlushRefused
<1>7. CASE FlushLock(t)
  BY <1>7, SMT DEF FlushLock
<1>8. ASSUME NEW k \in Calls, Invoke(t, k) PROVE Connected'
  BY <1>8, SMT DEF Invoke
<1> QED
  BY <1>1, <1>2, <1>3, <1>4, <1>5, <1>6, <1>7, <1>8, Zenon

(* A start: disposing of what was left, loading, downloading, launching.   *)
LEMMA StartSteps ==
  ASSUME Connected, NEW t \in Threads,
         StartRefused(t) \/ StartBegin(t) \/ LoadFails(t) \/ LoadSubscribed(t)
         \/ LoadPlain(t) \/ DownloadCanceled(t) \/ DownloadFails(t)
         \/ DownloadSucceeds(t) \/ LaunchRefused(t) \/ StartLaunch(t)
         \/ StartFailed(t) \/ StartDone(t)
  PROVE  Connected'
<1> USE SessionAssumption DEF coreVars, locks, globals, locals, Goto, Move, Return,
     Up, StopServices, NewConfigs, NewManagers, Captured, DownloadEnds, Enter,
     Launch, LaunchFails, ComeUp, Connected, LocksOK, PlacesOK, CoreTypeOK, Phases,
     Pcs, AllCalls, UnderGMu, Updates, Starts, CallsInv, HolderInv, Disposing,
     ServicesStopped, StartupInv, CapturedInv, SessionBelongs, StopOvertakes,
     OvertakenInv
<1>1. CASE StartRefused(t)
  BY <1>1, SMT DEF StartRefused
<1>2. CASE StartBegin(t)
  BY <1>2, SMT DEF StartBegin
<1>3. CASE LoadFails(t)
  BY <1>3, SMT DEF LoadFails
<1>4. CASE LoadSubscribed(t)
  BY <1>4, SMT DEF LoadSubscribed
<1>5. CASE LoadPlain(t)
  BY <1>5, SMT DEF LoadPlain
<1>6. CASE DownloadCanceled(t)
  BY <1>6, SMT DEF DownloadCanceled
<1>7. CASE DownloadFails(t)
  BY <1>7, SMT DEF DownloadFails
<1>8. CASE DownloadSucceeds(t)
  BY <1>8, SMT DEF DownloadSucceeds
<1>9. CASE LaunchRefused(t)
  BY <1>9, SMT DEF LaunchRefused
<1>10. CASE StartLaunch(t)
  BY <1>10, SMT DEF StartLaunch
<1>11. CASE StartFailed(t)
  BY <1>11, SMT DEF StartFailed
<1>12. CASE StartDone(t)
  BY <1>12, SMT DEF StartDone
<1> QED
  BY <1>1, <1>2, <1>3, <1>4, <1>5, <1>6, <1>7, <1>8, <1>9, <1>10, <1>11, <1>12, Zenon

(* Manager.Stop, and the end of stopProxy.                                 *)
LEMMA StopSteps ==
  ASSUME Connected, NEW t \in Threads,
         ManagerStop(t) \/ ManagerStopped(t) \/ ManagerStopFails(t)
         \/ StopDone(t)
  PROVE  Connected'
<1> USE SessionAssumption DEF coreVars, locks, globals, locals, Goto, Move, Return,
     Enter, Claim, Reloaded, RestoreConfig, Connected, LocksOK, PlacesOK,
     CoreTypeOK, Phases, Pcs, AllCalls, UnderGMu, Updates, Starts, CallsInv,
     HolderInv, Disposing, ServicesStopped, StartupInv, CapturedInv, SessionBelongs,
     StopOvertakes, OvertakenInv
<1>1. CASE ManagerStop(t)
  BY <1>1, SMT DEF ManagerStop
<1>2. CASE ManagerStopped(t)
  BY <1>2, SMT DEF ManagerStopped
<1>3. CASE ManagerStopFails(t)
  BY <1>3, SMT DEF ManagerStopFails
<1>4. CASE StopDone(t)
  BY <1>4, SMT DEF StopDone
<1> QED
  BY <1>1, <1>2, <1>3, <1>4, Zenon

(* An update or an import up to the reload.                                *)
LEMMA UpdateSteps ==
  ASSUME Connected, NEW t \in Threads,
         UpdateQueued(t) \/ UpdateBegins(t) \/ ImportApplies(t)
         \/ RecheckFails(t) \/ FetchKeeps(t) \/ FetchRecords(t)
         \/ FetchApplies(t)
  PROVE  Connected'
<1> USE SessionAssumption DEF coreVars, locks, globals, locals, Goto, Move, Return,
     SameSession, NewConfigs, Captured, FetchEnds, FetchIsCurrent, Connected,
     LocksOK, PlacesOK, CoreTypeOK, Phases, Pcs, AllCalls, UnderGMu, Updates,
     Starts, CallsInv, HolderInv, Disposing, ServicesStopped, StartupInv,
     CapturedInv, SessionBelongs, StopOvertakes, OvertakenInv
<1>1. CASE UpdateQueued(t)
  BY <1>1, SMT DEF UpdateQueued
<1>2. CASE UpdateBegins(t)
  BY <1>2, SMT DEF UpdateBegins
<1>3. CASE ImportApplies(t)
  BY <1>3, SMT DEF ImportApplies
<1>4. CASE RecheckFails(t)
  BY <1>4, SMT DEF RecheckFails
<1>5. CASE FetchKeeps(t)
  BY <1>5, SMT DEF FetchKeeps
<1>6. CASE FetchRecords(t)
  BY <1>6, SMT DEF FetchRecords
<1>7. CASE FetchApplies(t)
  BY <1>7, SMT DEF FetchApplies
<1> QED
  BY <1>1, <1>2, <1>3, <1>4, <1>5, <1>6, <1>7, Zenon

(* The reload, its rollback and Manager.Restart.                           *)
LEMMA ReloadSteps ==
  ASSUME Connected, NEW t \in Threads,
         ReloadFails(t) \/ ReloadIdle(t) \/ ReloadRestarts(t)
         \/ ManagerRestart(t) \/ RestartFails(t) \/ Relaunch(t)
         \/ RelaunchFails(t) \/ RelaunchDone(t)
  PROVE  Connected'
<1> USE SessionAssumption DEF coreVars, locks, globals, locals, Goto, Move, Return,
     Up, Reloaded, RestoreConfig, Enter, Launch, LaunchFails, ComeUp, Connected,
     LocksOK, PlacesOK, CoreTypeOK, Phases, Pcs, AllCalls, UnderGMu, Updates,
     Starts, CallsInv, HolderInv, Disposing, ServicesStopped, StartupInv,
     CapturedInv, SessionBelongs, StopOvertakes, OvertakenInv
<1>1. CASE ReloadFails(t)
  BY <1>1, SMT DEF ReloadFails
<1>2. CASE ReloadIdle(t)
  BY <1>2, SMT DEF ReloadIdle
<1>3. CASE ReloadRestarts(t)
  BY <1>3, SMT DEF ReloadRestarts
<1>4. CASE ManagerRestart(t)
  BY <1>4, SMT DEF ManagerRestart
<1>5. CASE RestartFails(t)
  BY <1>5, SMT DEF RestartFails
<1>6. CASE Relaunch(t)
  BY <1>6, SMT DEF Relaunch
<1>7. CASE RelaunchFails(t)
  BY <1>7, SMT DEF RelaunchFails
<1>8. CASE RelaunchDone(t)
  BY <1>8, SMT DEF RelaunchDone
<1> QED
  BY <1>1, <1>2, <1>3, <1>4, <1>5, <1>6, <1>7, <1>8, Zenon

(* The core and the watcher of its lifecycle.                              *)
LEMMA ManagerSteps ==
  ASSUME Connected, NEW m \in Managers,
         CoreMoves(m) \/ WatcherWakes(m) \/ WatcherClears(m)
  PROVE  Connected'
<1> USE SessionAssumption DEF coreVars, locks, globals, locals, Goto, Move, Return,
     StopServices, Enter, ComeUp, Crash, GiveUp, Stopped, Receive, Connected,
     LocksOK, PlacesOK, CoreTypeOK, Phases, Pcs, AllCalls, UnderGMu, Updates,
     Starts, CallsInv, HolderInv, Disposing, ServicesStopped, StartupInv,
     CapturedInv, SessionBelongs, StopOvertakes, OvertakenInv
<1>1. CASE CoreMoves(m)
  BY <1>1, SMT DEF CoreMoves
<1>2. CASE WatcherWakes(m)
  BY <1>2, SMT DEF WatcherWakes
<1>3. CASE WatcherClears(m)
  BY <1>3, SMT DEF WatcherClears
<1> QED
  BY <1>1, <1>2, <1>3, Zenon

(* The progress flag is only ever set, cleared or kept.                    *)
LEMMA FlagStep == ASSUME updating \in BOOLEAN, [Next]_vars PROVE updating' \in BOOLEAN
<1> USE DEF locks, globals, locals
<1>1. CASE UNCHANGED updating
  BY <1>1, Zenon
<1>2. CASE updating' \in {TRUE, FALSE}
  BY <1>2, Zenon
<1>3. ASSUME NEW t \in Threads, ThreadStep(t)
      PROVE  UNCHANGED updating \/ updating' \in {TRUE, FALSE}
  BY <1>3, Zenon DEF ThreadStep, StartRefused, StartBegin, StopServices, LoadFails,
     LoadSubscribed, LoadPlain, LaunchRefused, StartLaunch, StartFailed, StartDone,
     ManagerStop, ManagerStopped, ManagerStopFails, StopDone, ReloadFails, ReloadIdle,
     ReloadRestarts, ManagerRestart, RestartFails, Relaunch, RelaunchFails, RelaunchDone
<1>4. ASSUME NEW t \in Threads, LockStep(t)
      PROVE  UNCHANGED updating \/ updating' \in {TRUE, FALSE}
  BY <1>4, Zenon DEF LockStep, StartLock, StopLock, StopServices, RestartRefused,
     UpdateLock, UpdateRefused, FlushRefused, FlushLock, DownloadCanceled,
     DownloadFails, DownloadSucceeds, UpdateQueued, UpdateBegins, ImportApplies,
     RecheckFails, FetchKeeps, FetchRecords, FetchApplies, FetchEnds
<1>5. ASSUME NEW m \in Managers, CoreMoves(m) \/ WatcherWakes(m) \/ WatcherClears(m)
      PROVE  UNCHANGED updating \/ updating' \in {TRUE, FALSE}
  BY <1>5, Zenon DEF CoreMoves, WatcherWakes, WatcherClears, StopServices
<1>6. ASSUME NEW t \in Threads, NEW k \in Calls, Invoke(t, k) PROVE UNCHANGED updating
  BY <1>6, Zenon DEF Invoke
<1>7. CASE UNCHANGED vars
  BY <1>7, <1>1, Zenon DEF vars
<1> QED
  BY <1>1, <1>2, <1>3, <1>4, <1>5, <1>6, <1>7, Zenon DEF Next

(* Every step preserves IndInv.                                            *)
LEMMA StepInd == IndInv /\ [Next]_vars => IndInv'
<1> SUFFICES ASSUME IndInv, [Next]_vars PROVE Connected'
  BY FlagStep DEF IndInv
<1>1. CASE UNCHANGED vars
  BY <1>1, SMT DEF IndInv, Connected, vars, coreVars, locks, globals, locals, LocksOK,
     PlacesOK, CoreTypeOK, CallsInv, HolderInv, Disposing, ServicesStopped, StartupInv,
     CapturedInv, SessionBelongs, StopOvertakes, OvertakenInv
<1>2. CASE Next
  BY <1>2, CallSteps, StartSteps, StopSteps, UpdateSteps, ReloadSteps, ManagerSteps,
     Zenon DEF Next, ThreadStep, LockStep, IndInv
<1> QED
  BY <1>1, <1>2

(* It holds in every reachable state.                                      *)
THEOREM Inductive == Spec => []IndInv
  BY InitInd, StepInd, PTL DEF Spec

-----------------------------------------------------------------------------
(* The types, and the two mutexes as the code takes and releases them.     *)
THEOREM Types == Spec => []TypeOK
  BY Inductive, IndTypes, PTL

(* A session, a scheduled health checker, a registered startup and the     *)
(* progress flag belong to what is published.                              *)
THEOREM NothingBelongsToThePast == Spec => []SessionBelongs
<1>1. IndInv => SessionBelongs
  BY DEF IndInv, Connected
<1> QED
  BY <1>1, Inductive, PTL

(* Nothing that a Stop has overtaken gets past its next look at the        *)
(* globals.                                                                *)
THEOREM StopEndsWhatItOvertakes == Spec => []StopOvertakes
<1>1. IndInv => StopOvertakes
  BY DEF IndInv, Connected
<1> QED
  BY <1>1, Inductive, PTL

-----------------------------------------------------------------------------
(* What a step may do *)

(* Stop reports success in StopDone only.                                  *)
LEMMA StopReturns ==
  ASSUME IndInv, [Next]_vars, NEW t \in Threads, pc[t] = "stopped", pc'[t] = "idle"
  PROVE  StopDone(t)
<1> USE DEF IndInv, Connected, PlacesOK, Pcs, Goto, Move, Return, Reloaded
<1>1. PICK u \in Threads : (\E k \in Calls : Invoke(u, k)) \/ ThreadStep(u) \/ LockStep(u)
  BY SMT DEF Next, vars, CoreMoves, WatcherWakes, WatcherClears
<1>2. \E to \in Pcs : pc' = [pc EXCEPT ![u] = to]
  BY <1>1, SMT DEF Invoke, ThreadStep, LockStep, StartRefused, StartBegin, LoadFails,
     LoadSubscribed, LoadPlain, LaunchRefused, StartLaunch, StartFailed, StartDone,
     ManagerStop, ManagerStopped, ManagerStopFails, StopDone, ReloadFails, ReloadIdle,
     ReloadRestarts, ManagerRestart, RestartFails, Relaunch, RelaunchFails,
     RelaunchDone, StartLock, StopLock, RestartRefused, UpdateLock, UpdateRefused,
     FlushRefused, FlushLock, DownloadCanceled, DownloadFails, DownloadSucceeds,
     UpdateQueued, UpdateBegins, ImportApplies, RecheckFails, FetchKeeps, FetchRecords,
     FetchApplies
<1>3. u = t
  BY <1>2
<1>4. ~LockStep(t) /\ \A k \in Calls : ~Invoke(t, k)
  BY SMT DEF Invoke, LockStep, StartLock, StopLock, RestartRefused, UpdateLock,
     UpdateRefused, FlushRefused, FlushLock, DownloadCanceled, DownloadFails,
     DownloadSucceeds, UpdateQueued, UpdateBegins, ImportApplies, RecheckFails,
     FetchKeeps, FetchRecords, FetchApplies
<1>5. ThreadStep(t) => StopDone(t)
  BY SMT DEF ThreadStep, StartRefused, StartBegin, LoadFails, LoadSubscribed,
     LoadPlain, LaunchRefused, StartLaunch, StartFailed, StartDone, ManagerStop,
     ManagerStopped, ManagerStopFails, ReloadFails, ReloadIdle, ReloadRestarts,
     ManagerRestart, RestartFails, Relaunch, RelaunchFails, RelaunchDone
<1> QED
  BY <1>1, <1>3, <1>4, <1>5

(* When Stop reports success nothing is left of the session, and its core  *)
(* is down.                                                                *)
THEOREM StopLeavesNothing == Spec => StopClean
<1>1. ASSUME IndInv, [Next]_vars, NEW t \in Threads, pc[t] = "stopped", pc'[t] = "idle"
      PROVE  /\ gManager # Nil => phase[gManager] = "down"
             /\ gManager' = Nil /\ gConfig' = Nil /\ gStartup' = Nil
             /\ active' = Nil /\ ~updating' /\ health' = {}
  <2>1. StopDone(t)
    BY <1>1, StopReturns
  <2>2. ServicesStopped /\ (gManager = Nil \/ phase[gManager] = "down")
    BY <1>1 DEF IndInv, Connected, HolderInv, Disposing
  <2> QED
    BY <2>1, <2>2 DEF StopDone, ServicesStopped
<1>2. IndInv /\ [Next]_vars =>
        [\A t \in Threads :
           pc[t] = "stopped" /\ pc'[t] = "idle" =>
             /\ gManager # Nil => phase[gManager] = "down"
             /\ gManager' = Nil /\ gConfig' = Nil /\ gStartup' = Nil
             /\ active' = Nil /\ ~updating' /\ health' = {}]_vars
  BY <1>1
<1> QED
  BY <1>2, Inductive, PTL DEF Spec, StopClean

(* A call changes a manager by its operations only, and publishes another  *)
(* one, or none, only when the published one is down.                      *)
LEMMA CallUse ==
  ASSUME IndInv, NEW t \in Threads,
         (\E k \in Calls : Invoke(t, k)) \/ ThreadStep(t) \/ LockStep(t)
  PROVE  /\ gManager' # gManager => gManager = Nil \/ phase[gManager] = "down"
         /\ \/ UNCHANGED coreVars
            \/ \E m \in Managers : m = gManager' /\ Launch(m)
            \/ /\ gManager \in Managers /\ gManager' = gManager
               /\ LaunchFails(gManager) \/ ComeUp(gManager) \/ Claim(gManager)
<1> USE DEF IndInv, Connected, PlacesOK, HolderInv, StartupInv, globals, locals,
     coreVars, Goto, Move, Return, NewManagers
<1>1. CASE LockStep(t)
  <2>1. UNCHANGED <<coreVars, gManager>>
    BY <1>1, Zenon DEF LockStep, StartLock, StopLock, RestartRefused, UpdateLock,
       UpdateRefused, FlushRefused, FlushLock, DownloadCanceled, DownloadFails,
       DownloadSucceeds, UpdateQueued, UpdateBegins, ImportApplies, RecheckFails,
       FetchEnds, FetchKeeps, FetchRecords, FetchApplies
  <2> QED
    BY <2>1
<1>2. CASE \E k \in Calls : Invoke(t, k)
  BY <1>2, SMT DEF Invoke
<1>3. CASE StartRefused(t) \/ StartBegin(t) \/ LoadFails(t) \/ LoadSubscribed(t)
           \/ LoadPlain(t) \/ LaunchRefused(t) \/ StopDone(t)
  BY <1>3, SMT DEF StartRefused, StartBegin, LoadFails, LoadSubscribed, LoadPlain,
     LaunchRefused, StopDone
<1>4. CASE StartLaunch(t) \/ Relaunch(t)
  BY <1>4, SMT DEF StartLaunch, Relaunch
<1>5. CASE StartFailed(t) \/ StartDone(t)
  BY <1>5, SMT DEF StartFailed, StartDone
<1>6. CASE RelaunchFails(t)
  BY <1>6, SMT DEF RelaunchFails
<1>7. CASE RelaunchDone(t)
  BY <1>7, SMT DEF RelaunchDone
<1>8. CASE ManagerStop(t)
  BY <1>8, SMT DEF ManagerStop
<1>9. CASE \/ ManagerStopped(t) \/ ManagerStopFails(t) \/ ReloadFails(t) \/ ReloadIdle(t)
           \/ ReloadRestarts(t) \/ ManagerRestart(t) \/ RestartFails(t)
  <2>1. UNCHANGED <<coreVars, gManager>>
    BY <1>9, Zenon DEF ManagerStopped, ManagerStopFails, ReloadFails, ReloadIdle,
       ReloadRestarts, ManagerRestart, RestartFails
  <2> QED
    BY <2>1
<1> QED
  BY <1>1, <1>2, <1>3, <1>4, <1>5, <1>6, <1>7, <1>8, <1>9, Zenon DEF ThreadStep

(* No Start, Stop or failed cleanup forgets a core that runs; only a       *)
(* watcher that was woken by an earlier lifecycle does.                    *)
THEOREM CoresForgottenByWatchersOnly == Spec => OnlyWatcherForgets
<1>1. ASSUME IndInv, [Next]_vars, NEW m \in Managers, ~Orphan(m), Orphan(m)'
      PROVE  watcher[m] = "woken" /\ watcher'[m] = "none"
  <2> USE <1>1, SessionAssumption DEF Orphan, Phases, CoreTypeOK, IndInv, Connected,
       PlacesOK, coreVars
  <2>1. ASSUME NEW t \in Threads,
               (\E k \in Calls : Invoke(t, k)) \/ ThreadStep(t) \/ LockStep(t)
        PROVE  FALSE
    BY <2>1, CallUse, SMT DEF Launch, LaunchFails, ComeUp, Claim, Enter
  <2>2. ASSUME NEW n \in Managers, CoreMoves(n) PROVE FALSE
    BY <2>2, SMT DEF CoreMoves, ComeUp, Crash, GiveUp, Stopped, Enter, globals
  <2>3. ASSUME NEW n \in Managers, WatcherWakes(n) PROVE FALSE
    BY <2>3, SMT DEF WatcherWakes, Receive
  <2>4. ASSUME NEW n \in Managers, WatcherClears(n)
        PROVE  watcher[m] = "woken" /\ watcher'[m] = "none"
    BY <2>4, SMT DEF WatcherClears
  <2>5. ~UNCHANGED vars
    BY SMT DEF vars, globals
  <2> QED
    BY <2>1, <2>2, <2>3, <2>4, <2>5 DEF Next
<1>2. IndInv /\ [Next]_vars =>
        [\A m \in Managers : ~Orphan(m) /\ Orphan(m)' =>
           watcher[m] = "woken" /\ watcher'[m] = "none"]_vars
  BY <1>1
<1> QED
  BY <1>2, Inductive, PTL DEF Spec, OnlyWatcherForgets

(* The DLL uses every manager as CoreLifecycle allows: it launches one     *)
(* that is down, and claims, and is told the outcome of, only what it has  *)
(* launched.  Manager.tla implements the same specification.               *)
THEOREM UsesManagersAsPromised == Spec => CoreSafeSpec
<1>1. Init => CoreInit
  BY DEF Init
<1>2. ASSUME IndInv, [Next]_vars PROVE [CoreNext]_coreVars
  <2> USE <1>2
  <2>1. ASSUME NEW t \in Threads,
               (\E k \in Calls : Invoke(t, k)) \/ ThreadStep(t) \/ LockStep(t)
        PROVE  [CoreNext]_coreVars
    BY <2>1, CallUse DEF CoreNext, CoreStep
  <2>2. ASSUME NEW m \in Managers, CoreMoves(m) \/ WatcherWakes(m) \/ WatcherClears(m)
        PROVE  [CoreNext]_coreVars
    BY <2>2 DEF CoreMoves, WatcherWakes, WatcherClears, CoreNext, CoreStep
  <2>3. CASE UNCHANGED vars
    BY <2>3 DEF vars
  <2> QED
    BY <2>1, <2>2, <2>3 DEF Next
<1> QED
  BY <1>1, <1>2, Inductive, PTL DEF Spec, CoreSafeSpec
=============================================================================
