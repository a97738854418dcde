---------------------------- MODULE ManagerProofs ----------------------------
(***************************************************************************)
(* Proofs about Manager.tla, for any callers, child identities and number  *)
(* of attempts.  TLC checks the same formulas on a small instance          *)
(* (MCManager.cfg).                                                        *)
(*                                                                         *)
(* IndInv is inductive: it holds initially (InitInd), every kind of step   *)
(* preserves it (CallerKeeps, MonitorKeeps, ChildKeeps), so it always      *)
(* holds (Inductive), and the safety invariants follow from it.            *)
(***************************************************************************)
EXTENDS Manager, TLAPS

(* The initial state: nothing runs and every caller is outside.            *)
LEMMA InitInd == Init => IndInv
<1> SUFFICES ASSUME Init PROVE IndInv
  OBVIOUS
<1>1. NumbersOK
  BY ManagerAssumption DEF Init, NumbersOK
<1>2. FlagsOK
  BY DEF Init, FlagsOK
<1>3. PlacesOK
  BY DEF Init, PlacesOK, MonitorPcs, CallerPcs, Ops
<1>4. LifecycleInv /\ ChildInv /\ QuietInv
  BY DEF Init, LifecycleInv, ChildInv, QuietInv, Watching
<1>5. CallerInv /\ StartupInv
  BY DEF Init, CallerInv, StartupInv
<1> QED
  BY <1>1, <1>2, <1>3, <1>4, <1>5 DEF IndInv, TypeOK

(* A step that moves only a caller disturbs nothing but the conjuncts that *)
(* speak of callers.                                                       *)
LEMMA CallerFrame ==
  ASSUME IndInv, OnlyCaller
  PROVE  NumbersOK' /\ FlagsOK' /\ LifecycleInv' /\ ChildInv' /\ QuietInv'
<1> USE DEF OnlyCaller, flags, child, rest, monitorLocals, monitorVars
<1>1. NumbersOK'
  BY DEF IndInv, TypeOK, NumbersOK
<1>2. FlagsOK'
  BY DEF IndInv, TypeOK, FlagsOK
<1>3. LifecycleInv' /\ ChildInv' /\ QuietInv'
  BY DEF IndInv, LifecycleInv, ChildInv, QuietInv, Watching
<1> QED
  BY <1>1, <1>2, <1>3

(* The steps of Start, Stop and Restart.                                   *)
LEMMA CallerKeeps ==
  ASSUME IndInv, NEW c \in Callers,
         Call(c) \/ Acquire(c) \/ CallerStep(c)
  PROVE  IndInv'
<1> USE DEF flags, child, rest, monitorLocals, monitorVars, callerVars, Goto,
     Continue, Return, OnlyCaller
<1>0. /\ NumbersOK /\ FlagsOK /\ PlacesOK /\ TypeOK /\ LifecycleInv
      /\ ChildInv /\ CallerInv /\ StartupInv /\ QuietInv
  BY DEF IndInv, TypeOK
<1> USE <1>0
<1>1. CASE Call(c)
  <2>1. PlacesOK'
    BY <1>1 DEF Call, Ops, CallerPcs, PlacesOK
  <2>2. CallerInv'
    BY <1>1 DEF Call, CallerInv, PlacesOK
  <2>3. StartupInv'
    BY <1>1 DEF Call, StartupInv, PlacesOK
  <2> QED
    BY <2>1, <2>2, <2>3, <1>1, CallerFrame DEF IndInv, TypeOK, Call
<1>2. CASE Acquire(c)
  <2>1. PlacesOK'
    BY <1>2 DEF Acquire, Ops, CallerPcs, PlacesOK
  <2>2. CallerInv' /\ StartupInv'
    BY ManagerAssumption, <1>2 DEF Acquire, Ops, CallerPcs, TypeOK, FlagsOK, PlacesOK,
         LifecycleInv, CallerInv, StartupInv
  <2> QED
    BY <2>1, <2>2, <1>2, CallerFrame DEF IndInv, TypeOK, Acquire
<1>3. CASE RestartCheck(c)
  <2>1. PlacesOK'
    BY <1>3 DEF RestartCheck, CallerPcs, PlacesOK
  <2>2. CallerInv' /\ StartupInv'
    BY <1>3 DEF RestartCheck, CallerPcs, TypeOK, FlagsOK, PlacesOK,
         LifecycleInv, CallerInv, StartupInv
  <2> QED
    BY <2>1, <2>2, <1>3, CallerFrame DEF IndInv, TypeOK,
       RestartCheck
<1>4. CASE StartRefused(c)
  <2>1. PlacesOK'
    BY <1>4 DEF StartRefused, CallerPcs, PlacesOK
  <2>2. CallerInv' /\ StartupInv'
    BY <1>4 DEF StartRefused, CallerPcs, TypeOK, FlagsOK, PlacesOK,
         LifecycleInv, CallerInv, StartupInv
  <2> QED
    BY <2>1, <2>2, <1>4, CallerFrame DEF IndInv, TypeOK,
       StartRefused
<1>5. CASE StartFails(c)
  <2>1. NumbersOK'
    BY ManagerAssumption, <1>5 DEF StartFails, CallerPcs, NumbersOK,
         LifecycleInv
  <2>2. FlagsOK'
    BY <1>5 DEF StartFails, CallerPcs, FlagsOK
  <2>3. PlacesOK'
    BY <1>5 DEF StartFails, CallerPcs, PlacesOK
  <2>4. LifecycleInv' /\ ChildInv' /\ QuietInv'
    BY <1>5 DEF StartFails, CallerPcs, TypeOK, NumbersOK, FlagsOK, PlacesOK,
         LifecycleInv, ChildInv, CallerInv, QuietInv, Watching, Alive
  <2>5. CallerInv' /\ StartupInv'
    BY <1>5 DEF StartFails, CallerPcs, TypeOK, FlagsOK, PlacesOK,
         LifecycleInv, CallerInv, StartupInv
  <2> QED
    BY <2>1, <2>2, <2>3, <2>4, <2>5 DEF IndInv, TypeOK
<1>6. CASE StartSpawns(c)
  <2>1. NumbersOK'
    BY ManagerAssumption, <1>6 DEF StartSpawns, NewLifecycle, Spawn,
         CallerPcs, MonitorPcs, NumbersOK, LifecycleInv
  <2>2. FlagsOK'
    BY <1>6 DEF StartSpawns, NewLifecycle, Spawn, CallerPcs, MonitorPcs,
         FlagsOK
  <2>3. PlacesOK'
    BY <1>6 DEF StartSpawns, NewLifecycle, Spawn, CallerPcs, MonitorPcs,
         PlacesOK
  <2>4. LifecycleInv' /\ ChildInv' /\ QuietInv'
    BY <1>6 DEF StartSpawns, NewLifecycle, Spawn, CallerPcs, MonitorPcs,
         TypeOK, NumbersOK, FlagsOK, PlacesOK, LifecycleInv, ChildInv,
         CallerInv, QuietInv, Watching, Alive
  <2>5. CallerInv' /\ StartupInv'
    BY <1>6 DEF StartSpawns, NewLifecycle, Spawn, CallerPcs, MonitorPcs,
         TypeOK, FlagsOK, PlacesOK, LifecycleInv, CallerInv, StartupInv
  <2> QED
    BY <2>1, <2>2, <2>3, <2>4, <2>5 DEF IndInv, TypeOK
<1>7. CASE StartReturns(c)
  <2>1. NumbersOK'
    BY ManagerAssumption, <1>7 DEF StartReturns, CallerPcs, NumbersOK,
         LifecycleInv
  <2>2. FlagsOK'
    BY <1>7 DEF StartReturns, CallerPcs, FlagsOK
  <2>3. PlacesOK'
    BY <1>7 DEF StartReturns, CallerPcs, PlacesOK
  <2>4. LifecycleInv' /\ ChildInv' /\ QuietInv'
    BY <1>7 DEF StartReturns, CallerPcs, TypeOK, NumbersOK, FlagsOK, PlacesOK,
         LifecycleInv, ChildInv, CallerInv, QuietInv, Watching, Alive
  <2>5. CallerInv' /\ StartupInv'
    BY <1>7 DEF StartReturns, CallerPcs, TypeOK, FlagsOK, PlacesOK,
         LifecycleInv, CallerInv, StartupInv
  <2> QED
    BY <2>1, <2>2, <2>3, <2>4, <2>5 DEF IndInv, TypeOK
<1>8. CASE StopIdle(c)
  <2>1. PlacesOK'
    BY <1>8 DEF StopIdle, StopDone, CallerPcs, PlacesOK
  <2>2. CallerInv' /\ StartupInv'
    BY <1>8 DEF StopIdle, StopDone, CallerPcs, TypeOK, FlagsOK, PlacesOK,
         LifecycleInv, CallerInv, StartupInv
  <2> QED
    BY <2>1, <2>2, <1>8, CallerFrame DEF IndInv, TypeOK, StopIdle
<1>9. CASE StopAgain(c)
  <2>1. PlacesOK'
    BY <1>9 DEF StopAgain, CallerPcs, PlacesOK
  <2>2. CallerInv' /\ StartupInv'
    BY <1>9 DEF StopAgain, CallerPcs, TypeOK, FlagsOK, PlacesOK, LifecycleInv,
         CallerInv, StartupInv
  <2> QED
    BY <2>1, <2>2, <1>9, CallerFrame DEF IndInv, TypeOK, StopAgain
<1>10. CASE StopClaims(c)
  <2>1. NumbersOK'
    BY ManagerAssumption, <1>10 DEF StopClaims, CallerPcs, NumbersOK,
         LifecycleInv
  <2>2. FlagsOK'
    BY <1>10 DEF StopClaims, CallerPcs, FlagsOK
  <2>3. PlacesOK'
    BY <1>10 DEF StopClaims, CallerPcs, PlacesOK
  <2>4. LifecycleInv' /\ ChildInv' /\ QuietInv'
    BY <1>10 DEF StopClaims, CallerPcs, TypeOK, NumbersOK, FlagsOK, PlacesOK,
         LifecycleInv, ChildInv, CallerInv, QuietInv, Watching, Alive
  <2>5. CallerInv' /\ StartupInv'
    BY <1>10 DEF StopClaims, CallerPcs, TypeOK, FlagsOK, PlacesOK,
         LifecycleInv, CallerInv, StartupInv
  <2> QED
    BY <2>1, <2>2, <2>3, <2>4, <2>5 DEF IndInv, TypeOK
<1>11. CASE StopKills(c)
  <2>1. NumbersOK'
    BY ManagerAssumption, <1>11 DEF StopKills, CallerPcs, NumbersOK,
         LifecycleInv
  <2>2. FlagsOK'
    BY <1>11 DEF StopKills, CallerPcs, FlagsOK
  <2>3. PlacesOK'
    BY <1>11 DEF StopKills, CallerPcs, PlacesOK
  <2>4. LifecycleInv' /\ ChildInv' /\ QuietInv'
    BY <1>11 DEF StopKills, CallerPcs, TypeOK, NumbersOK, FlagsOK, PlacesOK,
         LifecycleInv, ChildInv, CallerInv, QuietInv, Watching, Alive
  <2>5. CallerInv' /\ StartupInv'
    BY <1>11 DEF StopKills, CallerPcs, TypeOK, FlagsOK, PlacesOK,
         LifecycleInv, CallerInv, StartupInv
  <2> QED
    BY <2>1, <2>2, <2>3, <2>4, <2>5 DEF IndInv, TypeOK
<1>12. CASE StopWaited(c)
  <2>1. PlacesOK'
    BY <1>12 DEF StopWaited, StopDone, CallerPcs, PlacesOK
  <2>2. CallerInv' /\ StartupInv'
    BY <1>12 DEF StopWaited, StopDone, CallerPcs, TypeOK, FlagsOK, PlacesOK,
         LifecycleInv, CallerInv, StartupInv
  <2> QED
    BY <2>1, <2>2, <1>12, CallerFrame DEF IndInv, TypeOK, StopWaited
<1>13. CASE StopTimesOut(c)
  <2>1. PlacesOK'
    BY <1>13 DEF StopTimesOut, CallerPcs, PlacesOK
  <2>2. CallerInv' /\ StartupInv'
    BY <1>13 DEF StopTimesOut, CallerPcs, TypeOK, FlagsOK, PlacesOK,
         LifecycleInv, CallerInv, StartupInv
  <2> QED
    BY <2>1, <2>2, <1>13, CallerFrame DEF IndInv, TypeOK,
       StopTimesOut
<1> QED
  BY <1>1, <1>2, <1>3, <1>4, <1>5, <1>6, <1>7, <1>8, <1>9, <1>10, <1>11,
       <1>12, <1>13 DEF CallerStep

(* The steps of the monitor goroutine.                                     *)
LEMMA MonitorKeeps ==
  ASSUME IndInv, Monitor
  PROVE  IndInv'
<1> USE DEF flags, child, rest, monitorLocals, monitorVars, callerVars
<1>0. /\ NumbersOK /\ FlagsOK /\ PlacesOK /\ TypeOK /\ LifecycleInv
      /\ ChildInv /\ CallerInv /\ StartupInv /\ QuietInv
  BY DEF IndInv, TypeOK
<1> USE <1>0
<1>1. CASE MonitorEarlyExit
  <2>1. NumbersOK'
    BY ManagerAssumption, <1>1 DEF MonitorEarlyExit, TakeExit, MonitorPcs,
         NumbersOK, LifecycleInv
  <2>2. FlagsOK'
    BY <1>1 DEF MonitorEarlyExit, TakeExit, MonitorPcs, FlagsOK
  <2>3. PlacesOK'
    BY <1>1 DEF MonitorEarlyExit, TakeExit, MonitorPcs, PlacesOK
  <2>4. LifecycleInv' /\ ChildInv' /\ QuietInv'
    BY <1>1 DEF MonitorEarlyExit, TakeExit, MonitorPcs, TypeOK, NumbersOK,
         FlagsOK, PlacesOK, LifecycleInv, ChildInv, CallerInv, QuietInv,
         Watching, Alive
  <2>5. CallerInv' /\ StartupInv'
    BY <1>1 DEF MonitorEarlyExit, TakeExit, MonitorPcs, TypeOK, FlagsOK,
         PlacesOK, LifecycleInv, CallerInv, StartupInv
  <2> QED
    BY <2>1, <2>2, <2>3, <2>4, <2>5 DEF IndInv, TypeOK
<1>2. CASE MonitorExit
  <2>1. NumbersOK'
    BY ManagerAssumption, <1>2 DEF MonitorExit, TakeExit, MonitorPcs,
         NumbersOK, LifecycleInv
  <2>2. FlagsOK'
    BY <1>2 DEF MonitorExit, TakeExit, MonitorPcs, FlagsOK
  <2>3. PlacesOK'
    BY <1>2 DEF MonitorExit, TakeExit, MonitorPcs, PlacesOK
  <2>4. LifecycleInv' /\ ChildInv' /\ QuietInv'
    BY <1>2 DEF MonitorExit, TakeExit, MonitorPcs, TypeOK, NumbersOK, FlagsOK,
         PlacesOK, LifecycleInv, ChildInv, CallerInv, QuietInv, Watching,
         Alive
  <2>5. CallerInv' /\ StartupInv'
    BY <1>2 DEF MonitorExit, TakeExit, MonitorPcs, TypeOK, FlagsOK, PlacesOK,
         LifecycleInv, CallerInv, StartupInv
  <2> QED
    BY <2>1, <2>2, <2>3, <2>4, <2>5 DEF IndInv, TypeOK
<1>3. CASE MonitorWindowOver
  <2>1. NumbersOK'
    BY ManagerAssumption, <1>3 DEF MonitorWindowOver, OnlyMonitor, MonitorPcs,
         NumbersOK, LifecycleInv
  <2>2. FlagsOK'
    BY <1>3 DEF MonitorWindowOver, OnlyMonitor, MonitorPcs, FlagsOK
  <2>3. PlacesOK'
    BY <1>3 DEF MonitorWindowOver, OnlyMonitor, MonitorPcs, PlacesOK
  <2>4. LifecycleInv' /\ ChildInv' /\ QuietInv'
    BY <1>3 DEF MonitorWindowOver, OnlyMonitor, MonitorPcs, TypeOK, NumbersOK,
         FlagsOK, PlacesOK, LifecycleInv, ChildInv, CallerInv, QuietInv,
         Watching, Alive
  <2>5. CallerInv' /\ StartupInv'
    BY <1>3 DEF MonitorWindowOver, OnlyMonitor, MonitorPcs, TypeOK, FlagsOK,
         PlacesOK, LifecycleInv, CallerInv, StartupInv
  <2> QED
    BY <2>1, <2>2, <2>3, <2>4, <2>5 DEF IndInv, TypeOK
<1>4. CASE MonitorReady
  <2>1. NumbersOK'
    BY ManagerAssumption, <1>4 DEF MonitorReady, MonitorPcs, NumbersOK,
         LifecycleInv
  <2>2. FlagsOK'
    BY <1>4 DEF MonitorReady, MonitorPcs, FlagsOK
  <2>3. PlacesOK'
    BY <1>4 DEF MonitorReady, MonitorPcs, PlacesOK
  <2>4. LifecycleInv' /\ ChildInv' /\ QuietInv'
    BY <1>4 DEF MonitorReady, MonitorPcs, TypeOK, NumbersOK, FlagsOK,
         PlacesOK, LifecycleInv, ChildInv, CallerInv, QuietInv, Watching,
         Alive
  <2>5. CallerInv' /\ StartupInv'
    BY <1>4 DEF MonitorReady, MonitorPcs, TypeOK, FlagsOK, PlacesOK,
         LifecycleInv, CallerInv, StartupInv
  <2> QED
    BY <2>1, <2>2, <2>3, <2>4, <2>5 DEF IndInv, TypeOK
<1>5. CASE MonitorClear
  <2>1. NumbersOK'
    BY ManagerAssumption, <1>5 DEF MonitorClear, MonitorPcs, NumbersOK,
         LifecycleInv
  <2>2. FlagsOK'
    BY <1>5 DEF MonitorClear, MonitorPcs, FlagsOK
  <2>3. PlacesOK'
    BY <1>5 DEF MonitorClear, MonitorPcs, PlacesOK
  <2>4. LifecycleInv' /\ ChildInv' /\ QuietInv'
    BY <1>5 DEF MonitorClear, MonitorPcs, TypeOK, NumbersOK, FlagsOK,
         PlacesOK, LifecycleInv, ChildInv, CallerInv, QuietInv, Watching,
         Alive
  <2>5. CallerInv' /\ StartupInv'
    BY <1>5 DEF MonitorClear, MonitorPcs, TypeOK, FlagsOK, PlacesOK,
         LifecycleInv, CallerInv, StartupInv
  <2> QED
    BY <2>1, <2>2, <2>3, <2>4, <2>5 DEF IndInv, TypeOK
<1>6. CASE MonitorCheck
  <2>1. NumbersOK'
    BY ManagerAssumption, <1>6 DEF MonitorCheck, Finishing, GivesUp,
         OnlyMonitor, MonitorPcs, NumbersOK, LifecycleInv
  <2>2. FlagsOK'
    BY <1>6 DEF MonitorCheck, Finishing, GivesUp, OnlyMonitor, MonitorPcs,
         FlagsOK
  <2>3. PlacesOK'
    BY <1>6 DEF MonitorCheck, Finishing, GivesUp, OnlyMonitor, MonitorPcs,
         PlacesOK
  <2>4. LifecycleInv' /\ ChildInv' /\ QuietInv'
    BY <1>6 DEF MonitorCheck, Finishing, GivesUp, OnlyMonitor, MonitorPcs,
         TypeOK, NumbersOK, FlagsOK, PlacesOK, LifecycleInv, ChildInv,
         CallerInv, QuietInv, Watching, Alive
  <2>5. CallerInv' /\ StartupInv'
    BY <1>6 DEF MonitorCheck, Finishing, GivesUp, OnlyMonitor, MonitorPcs,
         TypeOK, FlagsOK, PlacesOK, LifecycleInv, CallerInv, StartupInv
  <2> QED
    BY <2>1, <2>2, <2>3, <2>4, <2>5 DEF IndInv, TypeOK
<1>7. CASE MonitorDelayStopped
  <2>1. NumbersOK'
    BY ManagerAssumption, <1>7 DEF MonitorDelayStopped, Finishing,
         OnlyMonitor, MonitorPcs, NumbersOK, LifecycleInv
  <2>2. FlagsOK'
    BY <1>7 DEF MonitorDelayStopped, Finishing, OnlyMonitor, MonitorPcs,
         FlagsOK
  <2>3. PlacesOK'
    BY <1>7 DEF MonitorDelayStopped, Finishing, OnlyMonitor, MonitorPcs,
         PlacesOK
  <2>4. LifecycleInv' /\ ChildInv' /\ QuietInv'
    BY <1>7 DEF MonitorDelayStopped, Finishing, OnlyMonitor, MonitorPcs,
         TypeOK, NumbersOK, FlagsOK, PlacesOK, LifecycleInv, ChildInv,
         CallerInv, QuietInv, Watching, Alive
  <2>5. CallerInv' /\ StartupInv'
    BY <1>7 DEF MonitorDelayStopped, Finishing, OnlyMonitor, MonitorPcs,
         TypeOK, FlagsOK, PlacesOK, LifecycleInv, CallerInv, StartupInv
  <2> QED
    BY <2>1, <2>2, <2>3, <2>4, <2>5 DEF IndInv, TypeOK
<1>8. CASE MonitorDelayOver
  <2>1. NumbersOK'
    BY ManagerAssumption, <1>8 DEF MonitorDelayOver, OnlyMonitor, MonitorPcs,
         NumbersOK, LifecycleInv
  <2>2. FlagsOK'
    BY <1>8 DEF MonitorDelayOver, OnlyMonitor, MonitorPcs, FlagsOK
  <2>3. PlacesOK'
    BY <1>8 DEF MonitorDelayOver, OnlyMonitor, MonitorPcs, PlacesOK
  <2>4. LifecycleInv' /\ ChildInv' /\ QuietInv'
    BY <1>8 DEF MonitorDelayOver, OnlyMonitor, MonitorPcs, TypeOK, NumbersOK,
         FlagsOK, PlacesOK, LifecycleInv, ChildInv, CallerInv, QuietInv,
         Watching, Alive
  <2>5. CallerInv' /\ StartupInv'
    BY <1>8 DEF MonitorDelayOver, OnlyMonitor, MonitorPcs, TypeOK, FlagsOK,
         PlacesOK, LifecycleInv, CallerInv, StartupInv
  <2> QED
    BY <2>1, <2>2, <2>3, <2>4, <2>5 DEF IndInv, TypeOK
<1>9. CASE RespawnCanceled
  <2>1. NumbersOK'
    BY ManagerAssumption, <1>9 DEF RespawnCanceled, Finishing, OnlyMonitor,
         MonitorPcs, NumbersOK, LifecycleInv
  <2>2. FlagsOK'
    BY <1>9 DEF RespawnCanceled, Finishing, OnlyMonitor, MonitorPcs, FlagsOK
  <2>3. PlacesOK'
    BY <1>9 DEF RespawnCanceled, Finishing, OnlyMonitor, MonitorPcs, PlacesOK
  <2>4. LifecycleInv' /\ ChildInv' /\ QuietInv'
    BY <1>9 DEF RespawnCanceled, Finishing, OnlyMonitor, MonitorPcs, TypeOK,
         NumbersOK, FlagsOK, PlacesOK, LifecycleInv, ChildInv, CallerInv,
         QuietInv, Watching, Alive
  <2>5. CallerInv' /\ StartupInv'
    BY <1>9 DEF RespawnCanceled, Finishing, OnlyMonitor, MonitorPcs, TypeOK,
         FlagsOK, PlacesOK, LifecycleInv, CallerInv, StartupInv
  <2> QED
    BY <2>1, <2>2, <2>3, <2>4, <2>5 DEF IndInv, TypeOK
<1>10. CASE RespawnFails
  <2>1. NumbersOK'
    BY ManagerAssumption, <1>10 DEF RespawnFails, Finishing, MonitorPcs,
         NumbersOK, LifecycleInv
  <2>2. FlagsOK'
    BY <1>10 DEF RespawnFails, Finishing, MonitorPcs, FlagsOK
  <2>3. PlacesOK'
    BY <1>10 DEF RespawnFails, Finishing, MonitorPcs, PlacesOK
  <2>4. LifecycleInv' /\ ChildInv' /\ QuietInv'
    BY <1>10 DEF RespawnFails, Finishing, MonitorPcs, TypeOK, NumbersOK,
         FlagsOK, PlacesOK, LifecycleInv, ChildInv, CallerInv, QuietInv,
         Watching, Alive
  <2>5. CallerInv' /\ StartupInv'
    BY <1>10 DEF RespawnFails, Finishing, MonitorPcs, TypeOK, FlagsOK,
         PlacesOK, LifecycleInv, CallerInv, StartupInv
  <2> QED
    BY <2>1, <2>2, <2>3, <2>4, <2>5 DEF IndInv, TypeOK
<1>11. CASE Respawn
  <2>1. NumbersOK'
    BY ManagerAssumption, <1>11 DEF Respawn, Spawn, MonitorPcs, NumbersOK,
         LifecycleInv
  <2>2. FlagsOK'
    BY <1>11 DEF Respawn, Spawn, MonitorPcs, FlagsOK
  <2>3. PlacesOK'
    BY <1>11 DEF Respawn, Spawn, MonitorPcs, PlacesOK
  <2>4. LifecycleInv' /\ ChildInv' /\ QuietInv'
    BY <1>11 DEF Respawn, Spawn, MonitorPcs, TypeOK, NumbersOK, FlagsOK,
         PlacesOK, LifecycleInv, ChildInv, CallerInv, QuietInv, Watching,
         Alive
  <2>5. CallerInv' /\ StartupInv'
    BY <1>11 DEF Respawn, Spawn, MonitorPcs, TypeOK, FlagsOK, PlacesOK,
         LifecycleInv, CallerInv, StartupInv
  <2> QED
    BY <2>1, <2>2, <2>3, <2>4, <2>5 DEF IndInv, TypeOK
<1>12. CASE MonitorFinish
  <2>1. NumbersOK'
    BY ManagerAssumption, <1>12 DEF MonitorFinish, Publishes, StartedAtEnd,
         MonitorPcs, NumbersOK, LifecycleInv
  <2>2. FlagsOK'
    BY <1>12 DEF MonitorFinish, Publishes, StartedAtEnd, MonitorPcs, FlagsOK
  <2>3. PlacesOK'
    BY <1>12 DEF MonitorFinish, Publishes, StartedAtEnd, MonitorPcs, PlacesOK
  <2>4. LifecycleInv' /\ ChildInv' /\ QuietInv'
    BY <1>12 DEF MonitorFinish, Publishes, StartedAtEnd, MonitorPcs, TypeOK,
         NumbersOK, FlagsOK, PlacesOK, LifecycleInv, ChildInv, CallerInv,
         QuietInv, Watching, Alive
  <2>5. CallerInv' /\ StartupInv'
    BY <1>12 DEF MonitorFinish, Publishes, StartedAtEnd, MonitorPcs, TypeOK,
         FlagsOK, PlacesOK, LifecycleInv, CallerInv, StartupInv
  <2> QED
    BY <2>1, <2>2, <2>3, <2>4, <2>5 DEF IndInv, TypeOK
<1> QED
  BY <1>1, <1>2, <1>3, <1>4, <1>5, <1>6, <1>7, <1>8, <1>9, <1>10, <1>11, <1>12
       DEF Monitor

(* The steps of the child and of the goroutine that waits for it.          *)
LEMMA ChildKeeps ==
  ASSUME IndInv, NEW p \in Pids, CoreExits(p) \/ CoreWaited(p)
  PROVE  IndInv'
<1> USE DEF flags, child, rest, monitorLocals, monitorVars, callerVars
<1>0. /\ NumbersOK /\ FlagsOK /\ PlacesOK /\ TypeOK /\ LifecycleInv
      /\ ChildInv /\ CallerInv /\ StartupInv /\ QuietInv
  BY DEF IndInv, TypeOK
<1> USE <1>0
<1>1. CASE CoreExits(p)
  <2>1. NumbersOK'
    BY ManagerAssumption, <1>1 DEF CoreExits, ChildTurns, NumbersOK,
         LifecycleInv
  <2>2. FlagsOK'
    BY <1>1 DEF CoreExits, ChildTurns, FlagsOK
  <2>3. PlacesOK'
    BY <1>1 DEF CoreExits, ChildTurns, PlacesOK
  <2>4. LifecycleInv' /\ ChildInv' /\ QuietInv'
    BY <1>1 DEF CoreExits, ChildTurns, TypeOK, NumbersOK, FlagsOK, PlacesOK,
         LifecycleInv, ChildInv, CallerInv, QuietInv, Watching, Alive
  <2>5. CallerInv' /\ StartupInv'
    BY <1>1 DEF CoreExits, ChildTurns, TypeOK, FlagsOK, PlacesOK,
         LifecycleInv, CallerInv, StartupInv
  <2> QED
    BY <2>1, <2>2, <2>3, <2>4, <2>5 DEF IndInv, TypeOK
<1>2. CASE CoreWaited(p)
  <2>1. NumbersOK'
    BY ManagerAssumption, <1>2 DEF CoreWaited, ChildTurns, NumbersOK,
         LifecycleInv
  <2>2. FlagsOK'
    BY <1>2 DEF CoreWaited, ChildTurns, FlagsOK
  <2>3. PlacesOK'
    BY <1>2 DEF CoreWaited, ChildTurns, PlacesOK
  <2>4. LifecycleInv' /\ ChildInv' /\ QuietInv'
    BY <1>2 DEF CoreWaited, ChildTurns, TypeOK, NumbersOK, FlagsOK, PlacesOK,
         LifecycleInv, ChildInv, CallerInv, QuietInv, Watching, Alive
  <2>5. CallerInv' /\ StartupInv'
    BY <1>2 DEF CoreWaited, ChildTurns, TypeOK, FlagsOK, PlacesOK,
         LifecycleInv, CallerInv, StartupInv
  <2> QED
    BY <2>1, <2>2, <2>3, <2>4, <2>5 DEF IndInv, TypeOK
<1> QED
  BY <1>1, <1>2

(* The step of the reader of m.done.                                       *)
LEMMA ReceiveKeeps ==
  ASSUME IndInv, DoneReceived
  PROVE  IndInv'
<1> USE DEF flags, child, rest, monitorLocals, monitorVars, callerVars
<1>0. /\ NumbersOK /\ FlagsOK /\ PlacesOK /\ TypeOK /\ LifecycleInv
      /\ ChildInv /\ CallerInv /\ StartupInv /\ QuietInv
  BY DEF IndInv, TypeOK
<1> USE <1>0
<1>1. CASE DoneReceived
  <2>1. NumbersOK'
    BY ManagerAssumption, <1>1 DEF DoneReceived, NumbersOK, LifecycleInv
  <2>2. FlagsOK'
    BY <1>1 DEF DoneReceived, FlagsOK
  <2>3. PlacesOK'
    BY <1>1 DEF DoneReceived, PlacesOK
  <2>4. LifecycleInv' /\ ChildInv' /\ QuietInv'
    BY <1>1 DEF DoneReceived, TypeOK, NumbersOK, FlagsOK, PlacesOK,
         LifecycleInv, ChildInv, CallerInv, QuietInv, Watching, Alive
  <2>5. CallerInv' /\ StartupInv'
    BY <1>1 DEF DoneReceived, TypeOK, FlagsOK, PlacesOK, LifecycleInv,
         CallerInv, StartupInv
  <2> QED
    BY <2>1, <2>2, <2>3, <2>4, <2>5 DEF IndInv, TypeOK
<1> QED
  BY <1>1

(* Every step preserves IndInv.                                            *)
LEMMA NextKeeps == IndInv /\ [Next]_vars => IndInv'
<1> SUFFICES ASSUME IndInv, [Next]_vars PROVE IndInv'
  OBVIOUS
<1>1. ASSUME NEW c \in Callers, Call(c) \/ Acquire(c) \/ CallerStep(c)
      PROVE  IndInv'
  BY <1>1, CallerKeeps
<1>2. CASE Monitor
  BY <1>2, MonitorKeeps
<1>3. ASSUME NEW p \in Pids, CoreExits(p) \/ CoreWaited(p) PROVE IndInv'
  BY <1>3, ChildKeeps
<1>4. CASE DoneReceived
  BY <1>4, ReceiveKeeps
<1>5. CASE UNCHANGED vars
  <2> USE DEF vars, flags, child, rest, monitorLocals, monitorVars, callerVars
  <2>1. NumbersOK'
    BY <1>5 DEF IndInv, TypeOK, NumbersOK
  <2>2. FlagsOK' /\ PlacesOK'
    BY <1>5 DEF IndInv, TypeOK, FlagsOK, PlacesOK
  <2>3. LifecycleInv' /\ ChildInv' /\ QuietInv'
    BY <1>5 DEF IndInv, LifecycleInv, ChildInv, QuietInv, Watching
  <2>4. CallerInv' /\ StartupInv'
    BY <1>5 DEF IndInv, CallerInv, StartupInv
  <2> QED
    BY <2>1, <2>2, <2>3, <2>4 DEF IndInv, TypeOK
<1> QED
  BY <1>1, <1>2, <1>3, <1>4, <1>5 DEF Next

(* IndInv holds in every reachable state.                                  *)
THEOREM Inductive == Spec => []IndInv
  BY InitInd, NextKeeps, PTL DEF Spec

-----------------------------------------------------------------------------
(* What the owner of a manager relies on *)

(* The variables keep their types.                                         *)
THEOREM TypeCorrect == Spec => []TypeOK
<1>1. IndInv => TypeOK
  BY DEF IndInv
<1> QED
  BY <1>1, Inductive, PTL

(* At most one core runs, however Start, Stop, Restart and automatic       *)
(* restarts interleave: only the child the monitor watches is not free.    *)
THEOREM AtMostOneCore == Spec => []SingleCore
<1>1. IndInv => SingleCore
  BY DEF IndInv, ChildInv, SingleCore, Alive
<1> QED
  BY <1>1, Inductive, PTL

(* A running core belongs to a lifecycle that is running, that watches it  *)
(* and, until a stop, ties it to the process that started it.              *)
THEOREM NoForgottenCore == Spec => []CoreTracked
<1>1. IndInv => CoreTracked
  BY DEF IndInv, LifecycleInv, ChildInv, Watching, CoreTracked, Alive
<1> QED
  BY <1>1, Inductive, PTL

(* stop() closes a stopChan at most once, so it cannot panic.              *)
THEOREM StopChanClosedOnce == Spec => []NoDoubleClose
<1>1. IndInv => NoDoubleClose
  BY DEF IndInv, LifecycleInv, NoDoubleClose
<1> QED
  BY <1>1, Inductive, PTL

(* The monitor's send under m.mutex always finds room in m.done.           *)
THEOREM SendHasRoom == Spec => []SendNeverBlocks
<1>1. IndInv => SendNeverBlocks
  BY DEF IndInv, LifecycleInv, SendNeverBlocks
<1> QED
  BY <1>1, Inductive, PTL

(* A stop that found the core alive leaves no unexpected-exit result.      *)
THEOREM StopIsQuiet == Spec => []QuietStop
<1>1. IndInv => QuietStop
  BY DEF IndInv, QuietInv, QuietStop
<1> QED
  BY <1>1, Inductive, PTL

-----------------------------------------------------------------------------
(* What a call has achieved when it returns *)

(* Only a caller's own step moves it.                                      *)
LEMMA OwnStep ==
  ASSUME IndInv, [Next]_vars, NEW c \in Callers, pc'[c] # pc[c]
  PROVE  Call(c) \/ Acquire(c) \/ CallerStep(c)
<1> USE DEF flags, child, rest, monitorLocals, monitorVars, callerVars
<1>1. pc' # pc
  OBVIOUS
<1>2. ~Monitor
  BY <1>1 DEF Monitor, MonitorEarlyExit, MonitorExit, TakeExit,
     MonitorWindowOver, MonitorReady, MonitorClear, MonitorCheck,
     MonitorDelayStopped, MonitorDelayOver, RespawnCanceled, RespawnFails,
     Respawn, MonitorFinish, OnlyMonitor
<1>3. ~DoneReceived /\ ~UNCHANGED vars
      /\ \A p \in Pids : ~CoreExits(p) /\ ~CoreWaited(p)
  BY <1>1 DEF DoneReceived, vars, CoreExits, CoreWaited, ChildTurns
<1>4. PICK d \in Callers : Call(d) \/ Acquire(d) \/ CallerStep(d)
  BY <1>2, <1>3 DEF Next
<1>5. \E to \in CallerPcs : pc' = [pc EXCEPT ![d] = to]
  BY <1>4 DEF IndInv, TypeOK, PlacesOK, Ops, CallerPcs, Call, Acquire,
     CallerStep, RestartCheck, StartRefused, StartFails, StartSpawns,
     NewLifecycle, StartReturns, StopIdle, StopDone, StopAgain, StopClaims,
     StopKills, StopWaited, StopTimesOut, Goto, Continue, Return
<1>6. d = c
  BY <1>5 DEF IndInv, TypeOK, PlacesOK
<1> QED
  BY <1>4, <1>6

(* A call that returns nil came from one of these three places.            *)
LEMMA ReturnsFrom ==
  ASSUME IndInv, [Next]_vars, NEW c \in Callers, NEW o \in Ops, Returns(c, o)
  PROVE  \/ o = "stop" /\ (StopIdle(c) \/ StopWaited(c))
         \/ o # "stop" /\ StartReturns(c) /\ started = "ok"
<1>1. Call(c) \/ Acquire(c) \/ CallerStep(c)
  BY OwnStep DEF Returns
<1>2. pc \in [Callers -> CallerPcs] /\ result \in [Callers -> {"none", "ok", "err"}]
      /\ op \in [Callers -> Ops] /\ CallerInv
  BY DEF IndInv, TypeOK, PlacesOK
<1> USE DEF Returns, Goto, Continue, Return
<1>3. ~Call(c) /\ ~Acquire(c)
  BY <1>2 DEF Call, Acquire, Ops
<1>4. ~RestartCheck(c) /\ ~StartRefused(c) /\ ~StartFails(c) /\ ~StopTimesOut(c)
  BY <1>2 DEF RestartCheck, StartRefused, StartFails, StopTimesOut
<1>5. ~StartSpawns(c) /\ ~StopAgain(c) /\ ~StopClaims(c) /\ ~StopKills(c)
  BY <1>2 DEF StartSpawns, NewLifecycle, StopAgain, StopClaims, StopKills
<1>6. CASE StartReturns(c)
  BY <1>2, <1>6 DEF StartReturns, CallerInv
<1>7. CASE StopIdle(c) \/ StopWaited(c)
  BY <1>2, <1>7 DEF StopIdle, StopWaited, StopDone
<1> QED
  BY <1>1, <1>3, <1>4, <1>5, <1>6, <1>7 DEF CallerStep

(* Stop returns nil only when no core is alive and nothing is running.     *)
THEOREM StopLeavesNothing == Spec => StopReaps
<1>1. ASSUME IndInv, [Next]_vars, NEW c \in Callers, Returns(c, "stop")
      PROVE  Alive' = {} /\ ~isRunning'
  <2>1. (StopIdle(c) \/ StopWaited(c)) /\ OnlyCaller
    BY <1>1, ReturnsFrom DEF Ops, StopIdle, StopWaited
  <2>2. ~isRunning
    BY <1>1, <2>1 DEF StopIdle, StopWaited, IndInv, LifecycleInv
  <2>3. \A p \in Pids : core[p] = "free"
    BY <1>1, <2>2 DEF IndInv, LifecycleInv, ChildInv, Watching
  <2> QED
    BY <2>1, <2>2, <2>3 DEF OnlyCaller, Alive, flags, child
<1>2. IndInv /\ [Next]_vars => [\A c \in Callers : Returns(c, "stop") => Alive' = {} /\ ~isRunning']_vars
  BY <1>1
<1> QED
  BY <1>2, Inductive, PTL DEF Spec, StopReaps

(* Start and Restart return nil only for a core that became ready.         *)
THEOREM StartTellsTheTruth == Spec => StartHonest
<1>1. ASSUME IndInv, [Next]_vars, NEW c \in Callers,
             Returns(c, "start") \/ Returns(c, "restart")
      PROVE  startupReported
  <2>1. started = "ok"
    BY <1>1, ReturnsFrom DEF Ops
  <2> QED
    BY <1>1, <2>1 DEF IndInv, StartupInv
<1>2. IndInv /\ [Next]_vars =>
        [\A c \in Callers :
           Returns(c, "start") \/ Returns(c, "restart") => startupReported]_vars
  BY <1>1
<1> QED
  BY <1>2, Inductive, PTL DEF Spec, StartHonest

(* Nothing is launched in a lifecycle whose stopChan is closed: a child is *)
(* launched only by Respawn, which tests stopChan, and by a new lifecycle. *)
THEOREM StopEndsLaunching == Spec => NoLaunchAfterStop
<1>1. ASSUME IndInv, [Next]_vars, stopClosed, stopClosed' PROVE Alive' \subseteq Alive
  <2> USE DEF flags, child, rest, monitorLocals, monitorVars, callerVars
  <2>1. ASSUME core' = core PROVE Alive' \subseteq Alive
    BY <2>1 DEF Alive
  <2>2. ASSUME NEW p \in Pids, NEW s \in {"free", "exited", "waited"},
               core' = [core EXCEPT ![p] = s]
        PROVE  Alive' \subseteq Alive
    BY <2>2 DEF Alive, IndInv, TypeOK, PlacesOK
  <2>3. ASSUME NEW c \in Callers, Call(c) \/ Acquire(c) \/ CallerStep(c)
        PROVE  core' = core
    BY <1>1, <2>3 DEF Call, Acquire, CallerStep, RestartCheck, StartRefused,
       StartFails, StartSpawns, NewLifecycle, StartReturns, StopIdle, StopAgain,
       StopClaims, StopKills, StopWaited, StopTimesOut, OnlyCaller
  <2>4. ASSUME MonitorEarlyExit \/ MonitorExit PROVE Alive' \subseteq Alive
    BY <1>1, <2>2, <2>4 DEF MonitorEarlyExit, MonitorExit, TakeExit, IndInv,
       ChildInv, Watching
  <2>5. ASSUME Monitor, ~MonitorEarlyExit, ~MonitorExit PROVE core' = core
    BY <1>1, <2>5 DEF Monitor, MonitorWindowOver, MonitorReady, MonitorClear,
       MonitorCheck, MonitorDelayStopped, MonitorDelayOver, RespawnCanceled,
       RespawnFails, Respawn, MonitorFinish, OnlyMonitor
  <2>6. ASSUME NEW p \in Pids, CoreExits(p) \/ CoreWaited(p)
        PROVE  Alive' \subseteq Alive
    BY <2>2, <2>6 DEF CoreExits, CoreWaited, ChildTurns
  <2>7. ASSUME DoneReceived \/ UNCHANGED vars PROVE core' = core
    BY <2>7 DEF DoneReceived, vars
  <2> QED
    BY <1>1, <2>1, <2>3, <2>4, <2>5, <2>6, <2>7 DEF Next
<1>2. IndInv /\ [Next]_vars => [stopClosed /\ stopClosed' => Alive' \subseteq Alive]_vars
  BY <1>1
<1> QED
  BY <1>2, Inductive, PTL DEF Spec, NoLaunchAfterStop

-----------------------------------------------------------------------------
(* The manager implements CoreLifecycle *)

View == <<Phase, done>>

(* Steps that leave the flags and startupReported alone are invisible.     *)
LEMMA Invisible ==
  ASSUME UNCHANGED <<flags, startupReported>>
  PROVE  UNCHANGED View
  BY DEF flags, View, Phase

(* Each step, seen through Phase and done.                                 *)
LEMMA CallerView ==
  ASSUME IndInv, NEW c \in Callers, Call(c) \/ Acquire(c) \/ CallerStep(c)
  PROVE  \/ UNCHANGED View
         \/ Phase = "down" /\ Phase' = "starting" /\ done' = 0
         \/ Phase \in {"up", "recovering"} /\ Phase' = "stopping" /\ done' = done
<1> USE DEF monitorLocals, monitorVars
<1>1. CASE StartSpawns(c)
  BY <1>1 DEF StartSpawns, NewLifecycle, Phase, IndInv, LifecycleInv
<1>2. CASE StopClaims(c)
  <2>1. startupReported
    BY <1>2 DEF StopClaims, Continue, Goto, IndInv, StartupInv, CallerInv
  <2> QED
    BY <1>2, <2>1 DEF StopClaims, Phase
<1>3. ASSUME ~StartSpawns(c), ~StopClaims(c) PROVE UNCHANGED <<flags, startupReported>>
  BY <1>3 DEF Call, Acquire, CallerStep, RestartCheck, StartRefused,
     StartFails, StartReturns, StopIdle, StopAgain, StopKills, StopWaited,
     StopTimesOut, OnlyCaller
<1> QED
  BY <1>1, <1>2, <1>3, Invisible

(* What the owner can see of a step of the monitor: nothing, or one of the *)
(* steps that CoreLifecycle lets a core take on its own.                   *)
LEMMA MonitorView ==
  ASSUME IndInv, Monitor
  PROVE  \/ UNCHANGED View
         \/ Phase \in {"starting", "recovering"} /\ Phase' = "up" /\ done' = done
         \/ Phase = "up" /\ Phase' = "recovering" /\ done' = done
         \/ Phase = "starting" /\ Phase' = "down" /\ done' = done
         \/ Phase = "recovering" /\ Phase' = "down" /\ done' = 1
         \/ Phase = "stopping" /\ Phase' = "down" /\ done' \in {done, 1}
<1> USE DEF monitorLocals, monitorVars, rest, child
<1>1. CASE MonitorReady
  BY <1>1 DEF MonitorReady, View, Phase, IndInv, LifecycleInv
<1>2. CASE MonitorClear
  BY <1>2 DEF MonitorClear, View, Phase, IndInv, LifecycleInv
<1>3. CASE MonitorFinish
  <2>1. isRunning /\ ~ready /\ ~isRunning' /\ (startupReported /\ ~stopping => terminalErr)
    BY <1>3 DEF MonitorFinish, IndInv, LifecycleInv
  <2> QED
    BY <1>3, <2>1 DEF MonitorFinish, Publishes, Phase
<1>4. ASSUME ~MonitorReady, ~MonitorClear, ~MonitorFinish
      PROVE  UNCHANGED <<flags, startupReported>>
  BY <1>4 DEF Monitor, MonitorEarlyExit, MonitorExit, TakeExit,
     MonitorWindowOver, MonitorCheck, MonitorDelayStopped, MonitorDelayOver,
     RespawnCanceled, RespawnFails, Respawn, Finishing, OnlyMonitor
<1> QED
  BY <1>1, <1>2, <1>3, <1>4, Invisible

(* Every behaviour of the manager is a behaviour of CoreLifecycle.         *)
THEOREM ManagerImplementsLifecycle == Spec => Implements
<1> USE DEF Abstract!Enter
<1>1. Init => Abstract!CoreInit
  BY DEF Init, Abstract!CoreInit, Phase
<1>2. ASSUME IndInv, [Next]_vars
      PROVE  [Abstract!CoreNext]_(Abstract!coreVars)
  <2>1. ASSUME UNCHANGED View PROVE UNCHANGED Abstract!coreVars
    BY <2>1 DEF View, Abstract!coreVars
  <2>2. ASSUME NEW c \in Callers, Call(c) \/ Acquire(c) \/ CallerStep(c)
        PROVE  [Abstract!CoreNext]_(Abstract!coreVars)
    BY <1>2, <2>1, <2>2, CallerView DEF Abstract!CoreNext, Abstract!Launch, Abstract!Claim
  <2>3. CASE Monitor
    BY <1>2, <2>1, <2>3, MonitorView DEF Abstract!CoreNext, Abstract!CoreStep,
       Abstract!LaunchFails, Abstract!ComeUp, Abstract!Crash, Abstract!GiveUp, Abstract!Stopped
  <2>4. ASSUME NEW p \in Pids, CoreExits(p) \/ CoreWaited(p) PROVE UNCHANGED View
    BY <2>4, Invisible DEF CoreExits, CoreWaited, ChildTurns, monitorLocals, monitorVars
  <2>5. CASE DoneReceived
    BY <2>5 DEF DoneReceived, Phase, Abstract!CoreNext, Abstract!Receive,
       monitorLocals, monitorVars
  <2>6. ASSUME UNCHANGED vars PROVE UNCHANGED View
    BY <2>6, Invisible DEF vars, monitorLocals, monitorVars
  <2> QED
    BY <1>2, <2>1, <2>2, <2>3, <2>4, <2>5, <2>6 DEF Next
<1> QED
  BY <1>1, <1>2, Inductive, PTL DEF Spec, Implements, Abstract!CoreSafeSpec
=============================================================================
