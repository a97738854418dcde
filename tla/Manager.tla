------------------------------ MODULE Manager ------------------------------
(***************************************************************************)
(* The process manager of internal/proxy/manager.go: Start, Stop and       *)
(* Restart called by several goroutines, the monitor goroutine that owns   *)
(* one lifecycle of the core (sing-box), the goroutine that waits for each *)
(* child, and the child itself.                                            *)
(*                                                                         *)
(* Granularity: a section of code under m.mutex is one action, because no  *)
(* other section under m.mutex can interleave with it; everything between  *)
(* two such sections is a step of its own.  The mutex m.operations is      *)
(* explicit (operations), because Start, Stop and Restart block while they *)
(* hold it.  Timers may fire at any moment after they were started.        *)
(*                                                                         *)
(* A core is tied to the manager by an owner handle (the supervisor pipe   *)
(* on Unix, the job object on Windows): closing the handle makes the       *)
(* operating system or the supervisor end the core after a while.          *)
(***************************************************************************)
EXTENDS Integers

CONSTANTS
  Callers,      \* goroutines that call Start, Stop and Restart
  Pids,         \* identities the operating system gives to children; reused
  None,         \* no child, no caller
  MaxAttempts   \* maxAttempts of monitor (3 in the code)

ASSUME ManagerAssumption ==
  /\ MaxAttempts \in Nat \ {0}
  /\ None \notin Callers
  /\ None \notin Pids

VARIABLES
  operations,      \* holder of m.operations, or None
  isRunning, ready, stopping,
  cmd,             \* m.cmd: the child Stop would end, or None
  owner,           \* child whose owner handle m.process holds open, or None
  stopClosed,      \* the lifecycle's stopChan is closed
  lifecycleDone,   \* the lifecycle's lifecycleDone is closed
  done,            \* results buffered in m.done (capacity 1)
  autoRestart,     \* m.autoRestart, chosen by the constructor
  started,         \* content of the started channel of the running Start
  mon,             \* where the monitor goroutine is
  monCmd,          \* its local cmd
  attempt, earlyExit, startupReported,
  terminalErr,     \* its local terminalErr is not nil
  core,            \* what has become of each child
  pc, op, result,  \* per caller: where it is, its call, what it returned
  stoppedAlive     \* history: stopChan was closed while a core was alive

flags == <<isRunning, ready, stopping, stopClosed, lifecycleDone, done>>
child == <<cmd, owner, core>>
rest  == <<autoRestart, started, stoppedAlive>>
monitorLocals == <<monCmd, attempt, earlyExit, startupReported, terminalErr>>
monitorVars == <<mon, monitorLocals>>
callerVars  == <<operations, pc, op, result>>
vars == <<flags, child, rest, monitorVars, callerVars>>

Ops == {"start", "stop", "restart"}

(* Where a caller can be: outside, waiting for m.operations, about to run  *)
(* a section of start() or stop() or the IsRunning test of Restart,        *)
(* waiting for the started channel, about to end the child, or waiting for *)
(* lifecycleDone.                                                          *)
CallerPcs == {"idle", "lock", "restart", "start", "await", "stop", "kill", "waitStop"}

MonitorPcs == {"off", "window", "up", "running", "clear", "check", "delay",
               "respawn", "finish"}

NumbersOK == done \in 0..1 /\ attempt \in 1..MaxAttempts

FlagsOK ==
  /\ isRunning \in BOOLEAN /\ ready \in BOOLEAN /\ stopping \in BOOLEAN
  /\ stopClosed \in BOOLEAN /\ lifecycleDone \in BOOLEAN
  /\ autoRestart \in BOOLEAN /\ stoppedAlive \in BOOLEAN
  /\ earlyExit \in BOOLEAN /\ startupReported \in BOOLEAN
  /\ terminalErr \in BOOLEAN

PlacesOK ==
  /\ operations \in Callers \cup {None}
  /\ cmd \in Pids \cup {None} /\ owner \in Pids \cup {None}
  /\ started \in {"empty", "ok", "err"}
  /\ mon \in MonitorPcs
  /\ monCmd \in Pids \cup {None}
  /\ core \in [Pids -> {"free", "alive", "exited", "waited"}]
  /\ pc \in [Callers -> CallerPcs]
  /\ op \in [Callers -> Ops]
  /\ result \in [Callers -> {"none", "ok", "err"}]

TypeOK == NumbersOK /\ FlagsOK /\ PlacesOK

Init ==
  /\ operations = None
  /\ isRunning = FALSE /\ ready = FALSE /\ stopping = FALSE
  /\ cmd = None /\ owner = None
  /\ stopClosed = FALSE /\ lifecycleDone = FALSE
  /\ done = 0
  /\ autoRestart \in BOOLEAN
  /\ started = "empty"
  /\ mon = "off" /\ monCmd = None
  /\ attempt = 1 /\ earlyExit = FALSE /\ startupReported = FALSE
  /\ terminalErr = FALSE
  /\ core = [p \in Pids |-> "free"]
  /\ pc = [c \in Callers |-> "idle"]
  /\ op = [c \in Callers |-> "stop"]
  /\ result = [c \in Callers |-> "none"]
  /\ stoppedAlive = FALSE

(* IsRunning() as every caller outside the manager sees it.                *)
IsRunning == isRunning /\ ready /\ ~stopping

Alive == {p \in Pids : core[p] = "alive"}

-----------------------------------------------------------------------------
(* Callers *)

Goto(c, from, to) ==
  /\ pc[c] = from
  /\ pc' = [pc EXCEPT ![c] = to]

(* The call goes on, holding m.operations.                                 *)
Continue(c, from, to) ==
  Goto(c, from, to) /\ UNCHANGED <<operations, op, result>>

(* The call returns and its deferred Unlock releases m.operations.         *)
Return(c, from, r) ==
  /\ Goto(c, from, "idle")
  /\ result' = [result EXCEPT ![c] = r]
  /\ operations' = None
  /\ UNCHANGED op

OnlyCaller == UNCHANGED <<flags, child, rest, monitorVars>>

Call(c) ==
  /\ Goto(c, "idle", "lock")
  /\ \E o \in Ops : op' = [op EXCEPT ![c] = o]
  /\ UNCHANGED <<operations, result>> /\ OnlyCaller

Acquire(c) ==
  /\ operations = None
  /\ operations' = c
  /\ Goto(c, "lock", op[c])
  /\ UNCHANGED <<op, result>> /\ OnlyCaller

RestartCheck(c) ==
  /\ OnlyCaller
  /\ \/ IsRunning /\ Continue(c, "restart", "stop")
     \/ ~IsRunning /\ Return(c, "restart", "err")

StartRefused(c) == isRunning /\ Return(c, "start", "err") /\ OnlyCaller

(* A missing file, an unusable log or a failing exec.  The owner handle is *)
(* closed only when the checks passed and exec itself failed.              *)
StartFails(c) ==
  /\ ~isRunning
  /\ owner' \in {owner, None}
  /\ Return(c, "start", "err")
  /\ UNCHANGED <<flags, cmd, core, rest, monitorVars>>

(* process.close and startCommand: the old handle goes, the new child's    *)
(* handle takes its place.                                                 *)
\* Mutant: startCommand does not keep the owner handle of the new child.
SpawnUnowned(p) ==
  /\ core[p] = "free"
  /\ core' = [core EXCEPT ![p] = "alive"]
  /\ owner' = None /\ cmd' = p /\ monCmd' = p

Spawn(p) ==
  /\ core[p] = "free"
  /\ core' = [core EXCEPT ![p] = "alive"]
  /\ owner' = p /\ cmd' = p /\ monCmd' = p

(* The channels of a new lifecycle are made and its monitor is started.    *)
NewLifecycle(c) ==
  /\ Continue(c, "start", "await")
  /\ \E p \in Pids : Spawn(p)
  /\ isRunning' = TRUE /\ stopping' = FALSE
  /\ stopClosed' = FALSE /\ lifecycleDone' = FALSE
  /\ started' = "empty" /\ stoppedAlive' = FALSE
  /\ mon' = "window" /\ attempt' = 1
  /\ earlyExit' = FALSE /\ startupReported' = FALSE /\ terminalErr' = FALSE
  /\ UNCHANGED <<ready, autoRestart>>

(* A launch drops a result nobody has read.                                *)
StartSpawns(c) == ~isRunning /\ done' = 0 /\ NewLifecycle(c)

(* return <-started                                                        *)
StartReturns(c) ==
  /\ started # "empty"
  /\ started' = "empty"
  /\ Return(c, "await", started)
  /\ UNCHANGED <<flags, child, autoRestart, stoppedAlive, monitorVars>>

(* stop() has finished without error: Stop returns, Restart goes on to     *)
(* start().                                                                *)
StopDone(c, from) ==
  \/ op[c] = "restart" /\ Continue(c, from, "start")
  \/ op[c] = "stop" /\ Return(c, from, "ok")

StopIdle(c) == ~isRunning /\ StopDone(c, "stop") /\ OnlyCaller

\* Mutant: a Stop that finds another one pending returns at once.
StopAgainUnwaited(c) == isRunning /\ stopping /\ StopDone(c, "stop") /\ OnlyCaller

(* A retried Stop only waits.                                              *)
StopAgain(c) ==
  isRunning /\ stopping /\ Continue(c, "stop", "waitStop") /\ OnlyCaller

(* The first Stop of a lifecycle closes stopChan and claims the child.     *)
StopClaims(c) ==
  /\ isRunning /\ ~stopping
  /\ stopping' = TRUE /\ stopClosed' = TRUE
  /\ stoppedAlive' = (Alive # {})
  /\ Continue(c, "stop", IF cmd = None THEN "waitStop" ELSE "kill")
  /\ UNCHANGED <<isRunning, ready, lifecycleDone, done, child, autoRestart,
                 started, monitorVars>>

\* Mutant: process.stop waits without closing the owner handle.
StopKillsNothing(c) == Continue(c, "kill", "waitStop") /\ OnlyCaller

(* process.stop closes the owner handle, then waits for lifecycleDone.     *)
StopKills(c) ==
  /\ Continue(c, "kill", "waitStop")
  /\ owner' = None
  /\ UNCHANGED <<flags, cmd, core, rest, monitorVars>>

StopWaited(c) == lifecycleDone /\ StopDone(c, "waitStop") /\ OnlyCaller

(* The stop timer fires.  When lifecycleDone is closed too, Go's select    *)
(* may still choose the timer.                                             *)
StopTimesOut(c) == Return(c, "waitStop", "err") /\ OnlyCaller

-----------------------------------------------------------------------------
(* The monitor goroutine of the lifecycle *)

OnlyMonitor == UNCHANGED <<flags, child, rest, callerVars>>

(* The child's Wait has returned; the select consumes the result.          *)
TakeExit(from, early) ==
  /\ mon = from /\ core[monCmd] = "waited"
  /\ core' = [core EXCEPT ![monCmd] = "free"]
  /\ earlyExit' = early
  /\ mon' = "clear"
  /\ UNCHANGED <<monCmd, attempt, startupReported, terminalErr>>
  /\ UNCHANGED <<flags, cmd, owner, rest, callerVars>>

MonitorEarlyExit == TakeExit("window", TRUE)

MonitorExit == TakeExit("running", FALSE)

(* The startup window ends before the exit is delivered.                   *)
MonitorWindowOver ==
  /\ mon = "window" /\ core[monCmd] # "waited"
  /\ mon' = "up" /\ earlyExit' = FALSE
  /\ UNCHANGED <<monCmd, attempt, startupReported, terminalErr>> /\ OnlyMonitor

MonitorReady ==
  /\ mon = "up" /\ mon' = "running"
  /\ ready' = TRUE
  /\ started' = IF startupReported THEN started ELSE "ok"
  /\ startupReported' = TRUE
  /\ UNCHANGED <<monCmd, attempt, earlyExit, terminalErr, child, callerVars>>
  /\ UNCHANGED <<isRunning, stopping, stopClosed, lifecycleDone, done,
                 autoRestart, stoppedAlive>>

MonitorClear ==
  /\ mon = "clear" /\ mon' = "check"
  /\ ready' = FALSE /\ cmd' = None
  /\ UNCHANGED <<isRunning, stopping, stopClosed, lifecycleDone, done, owner,
                 core, rest, monitorLocals, callerVars>>

Finishing(err) ==
  /\ mon' = "finish"
  /\ terminalErr' = err
  /\ UNCHANGED <<monCmd, attempt, earlyExit, startupReported>>

\* Mutant: one attempt too many.
GivesUpLate == earlyExit \/ ~autoRestart \/ attempt > MaxAttempts

GivesUp == earlyExit \/ ~autoRestart \/ attempt = MaxAttempts

\* Mutant: the exit is judged before stopChan is looked at.
MonitorCheckExitFirst ==
  /\ mon = "check" /\ OnlyMonitor
  /\ \/ GivesUp /\ Finishing(TRUE)
     \/ stopClosed /\ ~GivesUp /\ Finishing(FALSE)
     \/ ~stopClosed /\ ~GivesUp /\ mon' = "delay" /\ UNCHANGED monitorLocals

(* Intentional stop, terminal exit, or another attempt after the delay.    *)
MonitorCheck ==
  /\ mon = "check" /\ OnlyMonitor
  /\ \/ stopClosed /\ Finishing(FALSE)
     \/ ~stopClosed /\ GivesUp /\ Finishing(TRUE)
     \/ ~stopClosed /\ ~GivesUp /\ mon' = "delay" /\ UNCHANGED monitorLocals

MonitorDelayStopped ==
  mon = "delay" /\ stopClosed /\ Finishing(FALSE) /\ OnlyMonitor

MonitorDelayOver ==
  mon = "delay" /\ mon' = "respawn" /\ UNCHANGED monitorLocals /\ OnlyMonitor

(* stopChan is tested again under the mutex that Stop closes it under.     *)
RespawnCanceled ==
  mon = "respawn" /\ stopClosed /\ Finishing(FALSE) /\ OnlyMonitor

RespawnFails ==
  /\ mon = "respawn" /\ ~stopClosed
  /\ owner' = None
  /\ Finishing(TRUE)
  /\ UNCHANGED <<flags, cmd, core, rest, callerVars>>

\* Mutant: stopChan is not tested again after the delay.
RespawnUnchecked ==
  /\ mon = "respawn"
  /\ \E p \in Pids : Spawn(p)
  /\ mon' = "window" /\ attempt' = attempt + 1
  /\ UNCHANGED <<earlyExit, startupReported, terminalErr, flags, rest, callerVars>>

Respawn ==
  /\ mon = "respawn" /\ ~stopClosed
  /\ \E p \in Pids : Spawn(p)
  /\ mon' = "window" /\ attempt' = attempt + 1
  /\ UNCHANGED <<earlyExit, startupReported, terminalErr, flags, rest, callerVars>>

Publishes == startupReported /\ terminalErr

\* Mutant: a failed start is not answered on the started channel.
StartedAtEndForgotten == started

StartedAtEnd ==
  IF startupReported THEN started ELSE IF terminalErr THEN "err" ELSE "ok"

(* The send on m.done blocks, with m.mutex held, while the channel is full.*)
MonitorFinish ==
  /\ mon = "finish" /\ mon' = "off"
  /\ Publishes => done = 0
  /\ isRunning' = FALSE /\ stopping' = FALSE
  /\ cmd' = None /\ owner' = None
  /\ started' = StartedAtEnd
  /\ done' = IF Publishes THEN 1 ELSE done
  /\ lifecycleDone' = TRUE
  /\ UNCHANGED <<ready, stopClosed, core, autoRestart, stoppedAlive,
                 monitorLocals, callerVars>>

Monitor ==
  \/ MonitorEarlyExit \/ MonitorExit \/ MonitorWindowOver \/ MonitorReady
  \/ MonitorClear \/ MonitorCheck \/ MonitorDelayStopped \/ MonitorDelayOver
  \/ RespawnCanceled \/ RespawnFails \/ Respawn \/ MonitorFinish

-----------------------------------------------------------------------------
(* The child, the goroutine that waits for it and the reader of m.done *)

ChildTurns(p, from, to) ==
  /\ core[p] = from
  /\ core' = [core EXCEPT ![p] = to]
  /\ UNCHANGED <<flags, cmd, owner, rest, monitorVars, callerVars>>

(* The core ends on its own, or because its owner handle was closed.       *)
CoreExits(p) == ChildTurns(p, "alive", "exited")

(* go func(cmd) { waited <- cmd.Wait() }                                   *)
CoreWaited(p) == ChildTurns(p, "exited", "waited")

(* The owner of the manager receives from Done().                          *)
DoneReceived ==
  /\ done = 1 /\ done' = 0
  /\ UNCHANGED <<isRunning, ready, stopping, stopClosed, lifecycleDone>>
  /\ UNCHANGED <<child, rest, monitorVars, callerVars>>

-----------------------------------------------------------------------------
CallerStep(c) ==
  \/ RestartCheck(c) \/ StartRefused(c) \/ StartFails(c) \/ StartSpawns(c)
  \/ StartReturns(c) \/ StopIdle(c) \/ StopAgain(c) \/ StopClaims(c)
  \/ StopKills(c) \/ StopWaited(c) \/ StopTimesOut(c)

Next ==
  \/ \E c \in Callers : Call(c) \/ Acquire(c) \/ CallerStep(c)
  \/ Monitor
  \/ \E p \in Pids : CoreExits(p) \/ CoreWaited(p)
  \/ DoneReceived

(* The goroutines keep running; sync.Mutex does not starve a waiter; a     *)
(* core whose owner handle is closed is ended by its supervisor or by the  *)
(* job object.  Nothing is assumed of callers outside a call, of the       *)
(* reader of m.done, or of a core whose handle is open.                    *)
Fairness ==
  /\ \A c \in Callers : SF_vars(Acquire(c)) /\ WF_vars(CallerStep(c))
  /\ WF_vars(Monitor)
  /\ \A p \in Pids : WF_vars(CoreWaited(p)) /\ WF_vars(owner # p /\ CoreExits(p))

Spec == Init /\ [][Next]_vars

FairSpec == Spec /\ Fairness

-----------------------------------------------------------------------------
(* Properties *)

(* At most one core runs at any time, whatever the interleaving of Start,  *)
(* Stop, Restart and of automatic restarts.                                *)
SingleCore == \A p, q \in Alive : p = q

(* A running core is never forgotten: the manager counts itself as         *)
(* running, its monitor waits for exactly that core, and until a stop is   *)
(* requested the owner handle keeps it tied to the manager.                *)
CoreTracked ==
  \A p \in Alive :
    /\ isRunning
    /\ mon \in {"window", "up", "running"} /\ monCmd = p
    /\ ~stopClosed => owner = p

(* stop() never closes a closed stopChan (a panic in Go), also when it is  *)
(* retried after a timeout.                                                *)
NoDoubleClose == isRunning /\ ~stopping => ~stopClosed

(* The send on m.done, made while holding m.mutex, never blocks although   *)
(* nobody need be reading: the manager cannot wedge itself.                *)
SendNeverBlocks == mon = "finish" /\ Publishes => done = 0

(* A core that was alive when Stop or Restart claimed the lifecycle never  *)
(* leaves an unexpected-exit result behind.                                *)
QuietStop == mon = "finish" /\ stoppedAlive => ~terminalErr

Watching == mon \in {"window", "up", "running"}

(* The monitor runs exactly during a lifecycle; stopping is the lifecycle's*)
(* closed stopChan; a result is buffered only between lifecycles.          *)
LifecycleInv ==
  /\ isRunning <=> mon # "off"
  /\ lifecycleDone => ~isRunning
  /\ stopping <=> isRunning /\ stopClosed
  /\ isRunning => done = 0
  /\ ready => mon \in {"running", "clear"} /\ startupReported
  /\ mon = "running" => ready
  /\ mon \in {"delay", "respawn"} => attempt # MaxAttempts
  /\ mon = "finish" /\ ~terminalErr => stopClosed

(* Only the child the monitor watches is anything but free.                *)
ChildInv ==
  /\ \A p \in Pids : core[p] # "free" => Watching /\ p = monCmd
  /\ Watching => monCmd \in Pids /\ core[monCmd] # "free"
  /\ Watching /\ ~stopClosed => owner = monCmd

(* A call that got past m.operations is its holder; a Stop about to end    *)
(* the child has closed stopChan.                                          *)
CallerInv ==
  \A c \in Callers :
    /\ pc[c] \notin {"idle", "lock"} => operations = c
    /\ pc[c] \in {"start", "await"} => op[c] # "stop"
    /\ pc[c] = "restart" => op[c] = "restart"
    /\ pc[c] = "kill" => stopClosed

(* A lifecycle that has not reported its startup still has its Start       *)
(* waiting, so nobody can have stopped it, and it can only end in an error.*)
StartupInv ==
  /\ isRunning /\ ~startupReported =>
       /\ ~stopClosed
       /\ started = "empty"
       /\ \E c \in Callers : pc[c] = "await"
       /\ mon \in {"window", "up", "clear", "check", "finish"}
       /\ mon \in {"clear", "check"} => earlyExit
       /\ mon = "finish" => terminalErr
  /\ started = "ok" => startupReported

(* After a stop that found a core alive the monitor is on its way out.     *)
QuietInv ==
  stoppedAlive =>
    /\ stopClosed
    /\ mon \notin {"delay", "respawn"}
    /\ mon = "finish" => ~terminalErr

(* The inductive invariant behind the invariants above: flags, channels and*)
(* the places of monitor, child and callers fit each other in every state. *)
IndInv == TypeOK /\ LifecycleInv /\ ChildInv /\ CallerInv /\ StartupInv /\ QuietInv

Returns(c, o) == op[c] = o /\ pc[c] # "idle" /\ pc'[c] = "idle" /\ result'[c] = "ok"

(* When Stop returns nil, no core is alive and the manager is stopped.     *)
StopReaps ==
  [][\A c \in Callers : Returns(c, "stop") => Alive' = {} /\ ~isRunning']_vars

(* Start and Restart return nil only when the core of that very lifecycle  *)
(* has outlived its startup window.                                        *)
StartHonest ==
  [][\A c \in Callers :
       Returns(c, "start") \/ Returns(c, "restart") => startupReported]_vars

(* The promise to the owner of the manager.  A lifecycle that has not      *)
(* reported its startup is starting; one that has, and is not ready, is    *)
(* recovering.                                                             *)
Phase ==
  IF ~isRunning THEN "down" ELSE IF stopping THEN "stopping"
  ELSE IF ready THEN "up" ELSE IF startupReported THEN "recovering" ELSE "starting"

Abstract == INSTANCE CoreLifecycle WITH
  Managers <- {"m"}, phase <- [m \in {"m"} |-> Phase], unread <- [m \in {"m"} |-> done]

(* Every behaviour of the manager is one of CoreLifecycle, seen through    *)
(* Phase and the buffer of m.done.                                         *)
Implements == Abstract!CoreSafeSpec

(* The same with the progress CoreLifecycle promises.                      *)
ImplementsFairly == Abstract!CoreSpec

(* Once a lifecycle's stopChan is closed, no core is launched in it.       *)
NoLaunchAfterStop ==
  [][stopClosed /\ stopClosed' => Alive' \subseteq Alive]_vars

(* Every Start, Stop and Restart returns.                                  *)
CallsReturn == \A c \in Callers : pc[c] # "idle" ~> pc[c] = "idle"
=============================================================================
