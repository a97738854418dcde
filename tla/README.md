# A verification project for oneproxy

oneproxy runs a proxy core (sing-box) on a desktop: a Go program and a Go DLL
manage the core and its configuration, a Qt tray drives the DLL, an installer
replaces the application while it may be running. The modules here model the
parts of it that keep state and share it between goroutines, processes and
restarts, and what the core makes of the configuration it is given; TLC checks
them on small instances, and TLAPS proves their safety properties for every value of
the constants.

Paths in this file are relative to the repository. `PROJECT.json` maps every
definition to its lines, every property to the runs and to the mutants that
break it, and every hazard to the properties that cover it.

## 1. The system

| Component | State | Operations | What makes it hard |
|---|---|---|---|
| **Manager** `internal/proxy/manager.go`, `process_*.go` | `isRunning`, `ready`, `stopping`, `cmd`, `process` (owner handle), `stopChan`, `lifecycleDone`, `done`, `autoRestart` | `Start`, `Stop`, `Restart`, `IsRunning`, `Done`, the `monitor` goroutine | callers against an automatic restart that is under way; Stop with a timeout and a retry; channels closed once, sends under a mutex |
| **DLL session** `cmd/oneproxy-dll/main.go`, `subscription.go` | the globals under `gMu`: `gManager`, `gConfig`, `gHealthChecker`, `gDNSFlusher`, `gStartup`, `gStartEpoch`, `subscriptionActive`, `subscriptionUpdating`; `subscriptionUpdateMu` | Start, StartAtEpoch, Stop, Restart, UpdateSubscription, ImportSubscription, FlushDNS, the periodic updater, `watchManagerLifecycle` | `gMu` is released during downloads and while updates queue; state captured before is compared after; the watcher acts on its own |
| **HealthChecker** `internal/proxy/health.go` | `stopped`, `isRunning`, `stopChan`, `wg`, `checkMux`, results, `allDownCount` | Start, Stop, SetConfig, CheckAll | rounds that begin while Stop waits; WaitGroup contract; a scheduler per Start |
| **DNSFlusher** `internal/proxy/dns*.go` | time of the last flush | FlushAll | restarts the core under a running session |
| **Supervisor** `internal/supervisor` | the core, the pipe to its owner | Wrap, Main: start the core, end it with SIGTERM and SIGKILL, reap it | its owner, the core or the supervisor itself may be killed at any point |
| **Command line program** `cmd/oneproxy/main.go`, `platform_unix.go` | `cfg`, the file given with `--config`, its place in `run` | validateInputConfig, prepareCLIStartup, Check, Start, Stop | signals between any two steps; what an earlier run left behind; it writes to its own input |
| **Core configuration generator** `internal/config/singbox.go` | `singbox_generated.json` | inbounds, outbounds, groups, route rules, SaveToFile | the order of rules decides where traffic goes; tags have to agree in five places; the file is written in place |
| **Subscription download** `internal/config/subscription.go`, `startup_subscription.go` | | FetchSubscriptionContext, PrepareStartupSubscription | which entries of a body count, what a nameless one is called |
| **Subscription merge** `internal/config/subscription_merge.go` | nodes with identity, name, port, switch, absence counter | MergeSubscription, MergeManualProxy | identities across renames, moves, absences; names and ports among manual nodes |
| **Configuration file** `internal/config/config.go`, `replace_*.go`, `cmd/oneproxy-dll/paths.go` | `config.json` beside the program or in the data directory, `gConfig`, the generated file, what the core has read | Load, Validate, Save, resolveConfig, the Save and the reload of each call | four copies, changed one after the other by calls that may fail or be killed between any two |
| **Log writer** `internal/logger/writer.go` | date file, numbered volumes, error backoff | Write, rotate, cleanup | a failure or crash between any two renames |
| **Tray** `trayapp/main.cpp`, `instance_guard.cpp` | `starting`, `startupGeneration`, `startupThread`, single shot timers, the instance lock | doStart, doStop, doRestart, doQuit, setRoutingMode, autoStart, aboutToQuit | a start runs in a thread, its completion is queued for the UI thread; Stop must overtake it |
| **Upgrade handoff** `trayapp/upgrade.cpp` | staging directory, backup, request and reply | listenForUpgrade, installMacUpdate | two processes, a lost reply, a rename that fails half way |
| **Selector** `cmd/oneproxy-dll/selector.go` | | the tag of a selected node, the name of a reported one | agrees with the generator by convention only |
| Parsing of URLs, diagnostics, logger, platform layer, build | text, I/O, none of their own | | sequential |

How they interact. The tray calls the DLL: Start in a worker thread with an
epoch it read before, everything else on the UI thread. The DLL holds one
Manager, one HealthChecker and one DNSFlusher per session and calls them with
`gMu` held; the Manager talks back only through `Done()`, to the watcher. The
HealthChecker asks the Manager `IsRunning` and the core itself. The Manager
starts the core through the supervisor (Unix) or a job object (Windows) and
keeps its owner handle: closing it is what ends the core. Updates read and write
the configuration through the merge. What the core does is decided by the
generated file alone, which it reads whenever it starts, an automatic restart
included. The command line program runs a Manager in the foreground, which does
not restart the core, over the same supervisor. The installer and the tray share
one lock file and a local socket.

## 2. Modules

| Module | Models | Uses |
|---|---|---|
| `CoreLifecycle` | the abstract specification: what a Manager promises its owner | |
| `Manager` | the process manager in full | refines `CoreLifecycle` (`Abstract!`) |
| `ManagerProofs` | theorems about `Manager` | `Manager`, TLAPS |
| `Session` (`MCSession`) | the DLL session over several managers | extends `CoreLifecycle` |
| `SessionProofs` | theorems about `Session`, and that it uses `CoreLifecycle` as that allows | `Session`, TLAPS |
| `ConfigFiles` (`MCFiles`) | the four copies of the configuration under the calls of the DLL | |
| `ConfigFilesProofs` | theorems about `ConfigFiles` | `ConfigFiles`, TLAPS |
| `CoreConfig` | the generator, and what the core makes of its output | |
| `CommandLine` (`MCCommandLine`) | the command line program, its supervisor and the core | extends `CoreConfig` |
| `CommandLineProofs` | theorems about `CommandLine`, and about `CoreConfig` for any configuration | `CommandLine`, TLAPS |
| `HealthChecker` | the health checker, its schedulers and rounds | |
| `HealthCheckerProofs` | theorems about `HealthChecker` | `HealthChecker`, TLAPS |
| `SubscriptionMerge` (`MCSubscription`) | reading a body, the merge as an operator, and a configuration under successive calls | |
| `SubscriptionMergeProofs` | theorems about `SubscriptionMerge` | `SubscriptionMerge`, TLAPS |
| `LogRotation` | the log writer over files | |
| `LogRotationProofs` | theorems about `LogRotation` | `LogRotation`, TLAPS |
| `Tray` | the tray, its start worker, and the macOS installer | what `Session` shows of Start and Stop |
| `TrayProofs` | theorems about `Tray` | `Tray`, TLAPS |

The composition is by contract. `Manager` is shown to implement
`CoreLifecycle`, by TLC with fairness and by TLAPS for safety; `Session` is
built on `CoreLifecycle` instead of on the goroutines of `Manager`, so that two
threads, two managers and eight calls stay within reach. `Tray` uses of the
DLL what `Session` establishes: a start whose epoch is not current is refused,
a Stop cancels a download, Stop waits for `gMu`. `CommandLine` has its Manager's
calls in it, since a foreground Manager has one caller and one lifecycle, and
shows what `Manager` assumes of its environment on Unix: a core whose owner
handle is closed ends (`OwnerEndsCore`), unless the supervisor is killed as well.

### Manager

One action per section under `m.mutex`, one per blocking operation between
them; `m.operations` is the variable `operations`. `started`, `done`,
`stopClosed` and `lifecycleDone` are the channels. `mon` is where the monitor
stands, `monCmd`, `attempt`, `earlyExit`, `startupReported`, `terminalErr` are
its locals. `core[p]` is the child `p` as the operating system has it (alive,
exited but not waited for, waited for); pids are reused. Timers may fire at any
moment, so that every length of the startup window, of the restart delay and of
the stop timeout is covered. `select` with two ready cases picks either.

### Session

`pc[t]` is where the thread `t` stands in its call. A section of code under `gMu`
that makes no blocking call is one action; `Manager.Stop` is three (claim,
reaped, timed out), `Manager.Start` two (launched, outcome). The manager, the
checker and the updater session of one Start share one identity. Objects
(`*config.Config`, managers) are identities; a new object is any identity nothing
refers to. Downloads, merges, saves and the generator are outcomes. Abstracted
away: `lastErr`/`lastAt`, the text of results, the selector, reading calls, and
what `ConfigFiles` is about. Health checks are enabled in the configuration.

### ConfigFiles

The calls of the DLL once more, one at a time, for what they do to the copies of
the configuration: `disk` (both places `resolveConfig` looks at), `gConfig`, `gen`
(the generated file) and `reads` (what the core has read). Each write is two
actions, so that the process can be killed, or the core restarted, in between;
each step that returns an error in the code has a failing action. A configuration
is what the calls tell apart: routing mode, subscription, version of the feed,
imported node, missing counts. Two history variables say when the code gives up
an agreement openly: `stale`, when a reload has left the core, or the file it will
read at its next start, with another configuration than the one published;
`unsaved`, when an import failed and its old file could not be put back.
Restart of a session whose core is gone for good is a Start with the path it had;
the core goes down with a killed process, as `CommandLine` shows.

### CoreConfig and CommandLine

`Generate` makes of a configuration the inbounds, outbounds, rules and final
outbound that `GenerateSingboxConfig` makes; `Accepts` and `Decided` are the core:
what it refuses, and the first rule that fits. Log level, DNS servers, credentials
and rule-set paths are the same in every configuration and left out. A list the
code makes by skipping nodes is a function from the places of the nodes it keeps;
what is appended has the places after the last node (`Followed`). The order of
places is the order of the list, and which entry comes first is all that the core
looks at; a filtered sequence would say the same, but needs induction to reason
about. `Decodes` is what the decoder makes of any file.

`CommandLine` runs the program several times: what a killed run left
behind (`sup[i]`, `core[i]`) may still be there during the next. `pc` is where `run`
stands; `owner[i]` is the program's end of the pipe to the supervisor of run `i`,
which closes with the process. Two cores whose ports meet cannot both come up.
Arguments, status output and the health checker (which only reads here) are left
out. A user edits the file between runs only.

### HealthChecker

The owner of a checker is one process: all calls of Start, Stop and SetConfig
come from code that holds `gMu`, or from the one goroutine of the CLI. SetConfig
follows a Stop, as in `reloadAndRestart`. Rounds run in schedulers and in manual
callers; the WaitGroup is its counter.

### SubscriptionMerge

`Merged` follows MergeSubscription through preparation, five matching passes,
updates, removals and additions. Names are normalised names; a name with a
suffix is a sequence. One endpoint has one type; confirmed VLESS nodes share a
remote port. Feeds hold what the parser accepts, which includes nodes that cannot be
used: it ignores a port that is no number, and takes empty credentials. `Broken` is
the set of those, and stands for what `Validate` asks of a node by itself. A merge
that would bring one in is refused whole, with the outcome "invalid", and so is an
import. The order in which new nodes are added is that of hashes of their keys: any
fixed order that depends on keys only. `Fetched` is `FetchSubscriptionContext` from the lines of a body on: lines
that are skipped, an invalid one that refuses the body, entries without a name,
which are named by their place.

A list is a function from places, as in `CoreConfig`: a node that is removed leaves
its place vacant and one that is added gets the place after the last (`With`), so
that the order of the list is that of its places, and a node that stays is where it
was. The loops whose steps depend on each other (a pass over the feed, the
additions with their names and ports) are recursive functions of the number of
steps; the others are sets and functions. A match has 0 (`Unmatched`) where an
entry has none.

### LogRotation

The bytes of a date are numbered; a file is the set of numbers it holds. Each
file operation may fail, and the process may die between any two. A clock set
back is included, though never behind what cleanup removes.

### Tray

An event of the UI thread is one action up to the next call that may block
(`pStop`, `join`). Counters are replaced by what is asked of them: whether the
captured `startupGeneration` or epoch is the current one. Menus may be stale, so
that any entry may be chosen in any state. Windows has routing modes, macOS the
installer; `windows` is chosen initially. The tray and the installer may be
killed anywhere.

## 3. Runs

| Run | Instance | Shows |
|---|---|---|
| `manager` | 2 callers, 2 pids, 2 attempts, fair; 169,438 states | no core forgotten or launched after Stop, Stop cleans, calls return, `CoreLifecycle` with its fairness is implemented |
| `session_update` | 2 threads, 2 managers, all eight calls; 432,075 states | globals fit each other, Stop overtakes, Stop cleans, only the watcher can forget a core |
| `session_live` | 2 threads, 1 manager; start, stop, update, fair; 51,993 states | calls return, a final exit is published |
| `session_orphan` | start, stop, flush | finding: `NoOrphan` is violated |
| `session_health` | start, update | finding: `HealthKept` is violated |
| `files` | 2 modes, 2 feeds, configurations with and without subscription; 1,286,222 states | stored, published, generated and running configuration agree between calls; a failed update leaves the files |
| `cli` | 48 configurations, 2 runs, fair; 70,107 states | routing, the selection menu, never old nodes, no core behind, the pipe ends a core, a signal ends the program |
| `cli_input` | the same | finding: `StaysUsable` is violated |
| `health` | 2 nodes, 2 schedulers, 1 manual caller, fair; 44,352 states | Stop joins, one scheduler, WaitGroup contract, Stop returns, probing goes on |
| `log` | files of 2 bytes, 2 volumes, writes up to 3, 8 bytes, 3 dates; 1.4 million states | limits, order, only the oldest bytes are lost |
| `subscription` | 3 initial configurations, 17 bodies, 2 URLs, 4 calls; 96,814 states | stored nodes follow the feeds, a node goes at its second absence in a row and not at the first, identities are stable, only a feed with an unusable node is refused as invalid, a change of the runtime is told, an update with nothing new asks for no restart |
| `tray` | both platforms, fair; 87,576 states | Stop is honest, the start mark ends, the replacement is quiet and keeps the application |

`SingleCore`, `StartHonest`, `NoDoubleClose`, `SendNeverBlocks` and the plain
refinement `Implements` of `Manager` are proved and have no run of their own; nor has
`MergesAgain` of `SubscriptionMerge`.

### Bounds, and why they are enough

* Two callers of the manager: `operations` serialises calls, so that a third
  caller can only be another one that waits. Two pids: one core is in use at a
  time, the second is there to let that be violated. Two attempts where the code
  has three: they still have a restart, a give-up and a stop during the delay,
  and the theorems hold for any number.
* Two threads of the session: every hazard there is between a call that
  released `gMu`, and one that came in between; the core and the watcher move
  on their own besides. `Managers` bounds how many watchers may be pending: an
  abandoned manager whose result was not yet taken keeps its identity.
  `session_live` has one manager, because a liveness check cannot use symmetry;
  starts then wait for their predecessor's watcher. One tick of a session at a
  time, as its goroutine makes them.
* The files: two modes and two feeds make a changed and an unchanged update and
  an override that differs; `disk` starts with every choice of a user's
  configuration or none in each place. Nothing else is bounded: any number of
  calls, crashes and edits.
* The command line: `MaxRuns` is two, one run and what it leaves to another.
  The 48 configurations have the unified port off and on, all three modes, an
  enabled and a disabled node, one without a port, all disabled, a selector with
  a name of its own, names that `sanitizeTag` makes equal, a node with the name
  "auto", and a subscription with two versions of its feed; some of them the core
  refuses.
* Symmetry is used only in runs without liveness properties, for identities no
  action tells apart.
* The checker: two schedulers, one that still stops and one that was started
  again. `MaxDown` bounds a counter that the code compares with 3 only.
* The log: two volumes and the current file have an end, a middle and a start; a
  write of 3 crosses a file of 2; 8 bytes overflow all three files; three dates
  with `KeepDays = 1` have a recent and an expired one.
* The merge: two entries of one endpoint and two of one name, an address and a
  domain; bodies that name a key twice, have an entry without a name in one place
  or another, a skipped line, an invalid one, a node without a password, or nothing;
  an import of the latter, too; four calls are enough for absence, return, a change of URL and an edit between updates.
* `CHECK_DEADLOCK FALSE` stands in `subscription` and in `cli`, since `MaxCalls` and
  `MaxRuns` end them.

### Fairness, and why the code justifies it

Weak fairness for goroutines and threads that have a step to take (the Go
scheduler and the operating system run them); strong fairness for acquiring a
mutex (`sync.Mutex` hands over to a waiter after a millisecond) and for a closed
channel in a `select` with a timer. A core whose owner handle was closed ends
(the supervisor kills it after two seconds, the job object at once), and Go's
`Wait` returns. Probes, downloads and stops have timeouts, so that they end.
Queued events of the tray's UI thread are delivered. In `CommandLine` the running
program and each supervisor go on: the download, the startup window, the five
seconds of Stop and the two of the supervisor are limits in the code, and the
program's failing steps and time-outs are steps of it too. One step has no limit in
the code: `Manager.Check` (`manager.go:99`) runs `sing-box check` without a time-out or
a context, so that `SignalEnds` assumes that this command, which only reads the
generated file, ends. Nothing is assumed of users,
of a core whose handle is open, of the network, of readers of `Done()` in
`Manager` or of the time of day.

### Mutants

Each property is broken by a change of one definition that a plausible slip in
the code would make; the mutated forms stand before the definitions they replace
(`\* Mutant: ...`).

## 4. Proofs

`ManagerProofs` proves, for any set of callers, any set of pids and any positive
number of attempts (`ManagerAssumption`: these, and that `None` is neither a
caller nor a pid):

* `TypeCorrect`, `AtMostOneCore`, `NoForgottenCore`, `StopIsQuiet`,
  `StopChanClosedOnce`, `SendHasRoom`: the state invariants;
* `StopLeavesNothing`, `StartTellsTheTruth`, `StopEndsLaunching`: the action
  properties;
* `ManagerImplementsLifecycle`: `Spec => Abstract!CoreSafeSpec`, the refinement
  `Session` rests on.

The argument. None of the safety properties is inductive: `SingleCore`, say, is
kept by a launch only because a launch happens when no child is left, which
depends on where the monitor stands. The inductive invariant is

    IndInv == TypeOK /\ LifecycleInv /\ ChildInv /\ CallerInv /\ StartupInv /\ QuietInv

`LifecycleInv` ties the flags and channels to the place of the monitor (among
others: `stopping` is the closed `stopChan` of a running lifecycle, which gives
`StopChanClosedOnce`; a running lifecycle has an empty `done`, which gives
`SendHasRoom`). `ChildInv` says that only the child the monitor watches is
anything but free. `CallerInv` says who holds `operations`. `StartupInv` says
that a lifecycle that has not reported its startup has its Start waiting, so
that nobody can have stopped it: this gives the "starting cannot be claimed"
of the refinement. `QuietInv` follows a stop that found a core alive to the end
of the lifecycle. `InitInd` is the base case; the step is one lemma per actor
(`CallerKeeps`, `MonitorKeeps`, `ChildKeeps`, `ReceiveKeeps`), one step per
action, one per conjunct that the action can disturb; `Inductive` combines them.
TLC confirmed `IndInv` on the instance of `manager` before it was proved. The
refinement maps every action to a `CoreLifecycle` action or to a stutter
(`CallerView`, `MonitorView`; `Invisible` for actions that leave `Phase` and
`done` alone). `StartHonest` uses `StartupInv` (`started = "ok"` implies
`startupReported`), `StopReaps` uses `ChildInv` at the return of Stop.

`CommandLineProofs` proves, for any configurations and any number of runs
(`RunsAssumption`; `ConfigsAssumption`: edits are among the inputs, inputs pass
the decoder and `Validate`, `Nil` and `Torn` are two values and no
configurations):

* `TypeCorrect`: types, and that the file given with `--config` is never torn;
* `NeverOldNodes`: `ConnectsFresh`, the promise of README.md:94;
* `NoCoreBehind`: `ExitClean`;
* `CoreIsSupervised`: a live core has a supervisor that watches or ends it, or had
  one that was killed;
* `CoresAccept` and `RoutesAsPromised`: what a core that is up has read is a whole
  file which it accepts, and so it routes as README.md's tables say (`Routed`).

The argument. `ConnectsFresh` speaks of what the core has read, which it reads on
its own between any two steps of the program; it holds because the generated file
is what is in memory from the check on (`GeneratedInv`), what is in memory is on
disk and downloaded from the end of Save on (`StoredInv`), and a run has no
supervisor before it launches one (`FreshInv`), so that no core of this run can
have read an earlier file. `ExitClean` needs that a run which ended in order has no
supervisor that is about to start a core (`EndedInv`), which comes from `FreshInv`
for the exits before the launch and from the wait for the supervisor for the
others. The step is one lemma for each actor (program, supervisors and cores, user)
and each of flags, other types and `Connected`: Boolean flags are Zenon's, everything
else is the SMT solver's.

It also proves, of `CoreConfig`, that for every configuration that the decoder,
`Validate` and the core accept (`Runnable`), with any number of nodes, any names and ports,
node ports are pinned (`PortsPinned`), the unified port is routed by the table of
modes (`ModesRoute`), and every enabled node that is not named "auto" can be selected by
its name, while "auto" chooses among all enabled nodes, one of that name included
(`NodesSelectable`; section 5 has the exception). The argument. `InboundsAt`, `OutboundsAt`, `RulesAt` say what is
at which place. The first rule that fits is the least place of a set of numbers,
which exists because < is well-founded on them (`First`). For a node's port it is the
node's own rule, since `Validate` keeps ports apart (`PinDecides`); for the unified
port it is none of the node rules, and then the mode's table is gone through
(`UnifiedDecides`). That the core accepts the file is used for one thing: a tag
names one outbound (`OutboundOf`), without which names that `sanitizeTag` makes
equal would refute all three. `Runnable` holds of configurations in every mode;
without a unified port only in mode `direct` (section 5).

`SessionProofs` proves, for any threads, configurations and managers and any subset
of the calls (`SessionAssumption`: `Nil` is none of them):

* `Types`, with the holder of each lock; `NothingBelongsToThePast`
  (`SessionBelongs`); `StopEndsWhatItOvertakes` (`StopOvertakes`);
* `StopLeavesNothing` (`StopClean`), `CoresForgottenByWatchersOnly`
  (`OnlyWatcherForgets`), both as action properties;
* `UsesManagersAsPromised`: `Spec => CoreSafeSpec`. Every behaviour of the session
  is one of `CoreLifecycle` for each manager. With `ManagerImplementsLifecycle`
  this closes the composition: the session asks of a manager no more than what
  the manager has been proved to do.

The argument. What makes a late caller harmless is a comparison of something it
captured with a global. `OvertakenInv` says why the comparison fails from the Stop
on: a captured manager is never the identity of a later session while somebody
still holds it. `HolderInv` is what the holder of `gMu` knows after it has disposed
of a session (nothing runs, nothing is registered, its manager is down when it goes
on), `StartupInv` that a download under way excludes a published manager, `CapturedInv`
that an update has a configuration to go back to, `CallsInv` which call can be where.
The step has one lemma for each group of actions.

`HealthCheckerProofs` proves, for any nodes, schedulers and callers of CheckAll, and
any bound of the counter from 3 on (`HealthAssumption`), `Types` (at most one
scheduler, the holder of `checkMux`), `StopJoinsAll` and `WaitGroupNotReused`. The
argument: the WaitGroup is the number of living schedulers plus the number of
rounds, and both sets are finite (`CountInv`), so that a counter of zero means both
are empty (`CountZero`); `isRunning`, `owner` and `current` say which scheduler can live
(`SchedulerInv`); a waiting Stop has set `stopped`, after which nothing registers
(`StopInv`).

`ConfigFilesProofs` proves, for any modes, feeds and user configurations
(`ContentsAssumption`: the placeholder is a configuration without a subscription, and
the values for no, an absent and a torn file are not configurations), `Types`,
`NothingUnsaved` (`SavedIsCurrent`), `CoreHasCurrent` (`CoreCurrent`) and
`FailuresKeepFiles` (`FailureKeepsFiles`). The properties speak of calls that have
ended; the invariant says at every step of a call what each copy holds: which
of the previous and the next configuration is in memory (`UpdateInv`) and on disk
(`SavedInv`), that what the core has read and will read is what is in memory
(`CoreInv`, from the moment the file is whole), and that a call which may still report
a failed update has changed no file (`BeforeInv`). The hard case is an undo that
itself fails, which is what `stale` and `unsaved` are for.

`LogRotationProofs` proves, for any size limit, any number of volumes, days to keep
and dates (`LogAssumption`), `Types` (no file over the limit), `LogInOrder` (`InOrder`)
and `OnlyOldestLost` (`LosesOnlyOldest`). Every file is a run of consecutive bytes, a
volume a full one; the place of a volume's run is `MaxSize` times the number of
occupied slots before it away from the current file (`Placed`). Stated so, a
rotation is a fact about one slot and its neighbour, and that `MaxFiles` full files
are left needs neither a sum over the volumes nor induction. `Moved` and `Dropped`
say what a rename and a removal do to the files of one date.

`TrayProofs` proves `Types`, `ReplacedQuietly` (`ReplaceQuietly`) and `StopIsHonest`
(`StopHonest`). `Tray` has no constants, so that TLC covers the whole model; the proofs
say why it holds. `StartInv` relates the start mark, the worker and the queued
completions: outside of stopStartupWorker a start is marked exactly while one of
them is there, inside of it every completion is of the past. `JoinInv` says that
nothing can launch between `pStop` and the end of the join, `LingerInv` that a core
without its tray is the result of a kill or a failed Stop, `LockInv` and `FilesInv`
who may touch the application and where it is.

`SubscriptionMergeProofs` proves, for any endpoints, feeds, stored nodes, URLs and
ports and any number of calls (`MergeAssumption`: lines are entries or not, initial
configurations are valid and were not merged into, imported entries are entries),
`Types` (names and ports stay unique and stored nodes usable; of the checks at the end
of MergeSubscription the one of names never fails, and `Validate` fails only for a
node that came with the feed and that it refuses by itself, as in
`TestMergeSubscriptionInvalidImportKeepsExample`), `StoredFollowsFeeds` (`FollowsFeeds`), and as action
properties `IdentitiesStable` (`StableIdentity`: also that a node stays which is
missing for the first time; that it goes the second time is in `FollowsFeeds`) and `RuntimeToldTruly` (`RuntimeTold`:
no change goes untold, and an update that brings what the last one brought asks for
no restart). `KnownFeedMerges` (`MergesAgain`) says that a feed without a new key is
never refused if all its nodes can be used; that one with a new key may be is the
ambiguity of section 5.
The argument has four parts.

* The loops. What a recursive function over 0..n is at each of its arguments needs
  that such a function exists. The set of the n for which it does contains 0 and
  is closed under successor, hence is all of Nat: `Upwards` says this of a set, and
  follows from < being well-founded. (The library's induction takes a predicate as a
  parameter.) Every later statement about a loop is an instance of `Upwards` too:
  `PassedIs` and `PassedKeeps` for a pass, `AddingIs` for the additions.
* The matching. `MatchOK` says that no two entries have the same node and none has
  one added by hand; it is kept by each entry that is tried (`TriedKeeps`). `Complete`
  says that an entry has the node that is stored under its key, when there is one.
  The first pass establishes it (`FirstPassed`), because no entry before can have
  taken that node: it would have to have the same key (`ByKey`), and the keys of the
  feed differ. The later passes keep it, since they touch what has no match only.
  It is why a node stays with its identity whatever the names in the feed say, and
  the mutant that tries names first breaks it.
* The additions. Of one more candidate name than there are nodes one is free, by
  counting (`FreshNameIs`), so that the loop over suffixes ends; the free port is
  not the unified one (`PortIs`). A node added has all its properties in the state
  in which it is added, and no later one changes it (`Grown`, `GrownStep`).
* The invariant. `FollowsFeeds` speaks of sets of keys. Its inductive form
  `Followed` says it node by node: a node of the subscription misses 0 updates and
  is in the last feed, or misses one and was in the feed before it from the same
  URL; each key is stored once. `OthersOK` adds that nothing is stored of a
  subscription that was never merged, without which the first merge would meet
  keys of no feed. `ListOK` is the uniqueness of names and ports, `AllUsable` what
  `Validate` asks of each node; every entry of the feed is stored with its own
  credentials, so that the new list is usable exactly when the feed is (`Outcome`
  carries this, and `Refused` says which outcomes a merge can have). A merge is
  described by its outcome (`Outcome`: what each node of the new list is, and where
  each entry went), from which the invariant and both action properties follow.

In each module `IndInv` is the conjunction of these parts (`Inductive`: it holds in
every reachable state). TLC checked it as an invariant of the module's run before it
was proved, and `AcceptedInv` of `CommandLineProofs` too. The assumptions on the
constants are evaluated by TLC in every run.

### Only model-checked

* Liveness and everything under fairness: `CallsReturn` (both), `ImplementsFairly`,
  `StopCompletes`, `KeepsProbing`, `TerminalExitIsPublished`, `StartingEnds`,
  `OwnerEndsCore`, `SignalEnds`. Fairness and ENABLED are out of the prover's reach.

Every state invariant and every action property of the passing runs is stated by a
theorem.

## 5. What the runs found

* **`NoOrphan` with FlushDNS** (`session_orphan`, `main.go:283`). The watcher of a
  lifecycle compares identities, but the manager it compares may have been
  relaunched: FlushDNS or a reload has passed `Manager.Restart`'s `IsRunning` when
  the core ends for good; the watcher takes the result and waits for `gMu`; the
  manager is started again; the watcher then clears the globals of a running
  core. It is the only way: `OnlyWatcherForgets` holds with all eight calls.
* **`HealthKept`** (`session_health`, `main.go:448`). A reload while the core is
  between a crash and its automatic restart stops the checker and returns early:
  after the restart the session is not probed.
* **`StaysUsable`** (`cli_input`, `config.go:121`). The command line program saves
  the merged configuration over the file it was given, with mode 0644, and
  refuses that file at its next run, because others may read it.

Observations that no run states as a property:

* An update without an updater session (after a failed start) compares `nil` with
  `nil` when it ends and may switch off `subscriptionUpdating` of a startup that
  is downloading (`subscription.go:119`). `SessionBelongs` speaks of the other
  direction, which holds.
* Two domain entries of one name over a stored address entry: the first in the
  feed gets its identity (`subscription_merge.go:322`), although feeds are sorted
  where new nodes are added (`subscription_merge.go:148`).
* An entry without a name is called by its place in the feed (`Server%d`), so that
  its key moves when the feed is reordered.
* Two accounts stored on one endpoint and a feed with one new name there: the
  match is ambiguous, and every later update with this feed fails too, until
  the URL changes (`subscription_merge.go:308`).
* A relaunch that fails inside a call (FlushDNS, a reload) is reported to the caller
  and leaves nothing in `Done()`, so that the watcher does not learn of it: the
  session stays published, with its core down, until the next Start or Stop.
  `TerminalExitIsPublished` speaks of the results of `Done()`.
* A Stop of the DLL that succeeds leaves the core of the published session down
  (`StopClean`); a core that the watcher has forgotten (`NoOrphan`, above) it does not
  reach. `StopHonest` of the tray takes the former for granted.
* A routing change while a start is marked makes the later `doStart` return
  (`trayapp/main.cpp:463`): the application stays disconnected.
* A reload in the startup window of an automatic restart stores and reports a
  configuration that the core has not read (`main.go:449`); an undo whose own
  generation fails leaves the core with the new one. `stale` marks both, and
  `CoreCurrent` holds otherwise.
* A reload truncates the generated file in place; a core that the Manager restarts
  at that moment reads a torn file and uses up an attempt.
* The routing override of Windows is written into the configuration object, so
  that a later update stores it in `config.json` (`main.go:193`). `SavedIsCurrent`
  leaves the mode out for this reason.
* The copy of the placeholder is written in place (`main.go:143`): torn by a crash,
  it makes every later Start fail until the file is removed. `TypeOK` of
  `ConfigFiles` says that no other file of the user's can be torn, and allows this.
* Import and update save to the data directory, Start prefers a `config.json` in
  the working directory or beside the program: an import there is lost at the next
  Restart.
* `port: 0` disables the unified port (`config.go:29`), but the rules and the final
  outbound still name `proxy`, which then does not exist; the same for a unified
  tag other than `proxy` (`singbox.go:335`). The core refuses both, except in mode
  `direct`. It refuses two nodes whose names `sanitizeTag` makes equal ("a b" and
  "a-b"), and the group `auto` when no node is enabled, too.
* A node that is named "auto" cannot be selected. The menu selects a node by its name
  (`main.cpp:284`) and the automatic choice by the name "auto" (`main.cpp:253`), which
  `selectionOutboundTag` takes before it looks at the nodes (`selector.go:76`), and
  `Validate` accepts a node of that name: clicking it returns to the automatic choice,
  where README.md:251 says "switch the unified port to that node immediately".
  `Routed` excepts this node and says what "auto" does instead.
* Import resets a selection made by hand, since it restarts the core.
* The program and the tray, and two runs of the program, share
  `~/.oneproxy/singbox_generated.json`.

## 6. Not modelled, and what could come next

Not modelled: how one URL is parsed and how HTTP and base64 fail, which are
outcomes here; status calls and the selector's HTTP calls, with the retries that
restore a selection after an update; formatting and redaction of logs; the platform
layer of the tray; the Windows job object; scripts. Of the Windows upgrade
(`trayapp/platform/upgrade_windows.cpp`) the message that asks the tray to quit is in
`Tray`; its safety rests on file sharing modes (`guardBinaries` fails while anything
of the installation is loaded, and keeps anything from being loaded afterwards),
which a model could only repeat. Flush and import in the tray run on the UI thread
and do to the core what `Session` shows; health checks, selections and updates run
in detached threads of `runAsync` that nothing waits for: what such an update may do
after a Stop is the subject of `StopOvertakes`.

What could come next is an abstract specification of the session (stopped, starting,
running, with the starts that a Stop has not overtaken) that `Session` implements but
for the watcher's step of section 5, and a `Tray` that is built on it: now the two
agree by what `StopOvertakes` and `StopClean` say.
