---------------------------- MODULE CommandLine ----------------------------
(***************************************************************************)
(* The command line program (cmd/oneproxy/main.go) with its foreground     *)
(* Manager, the supervisor it runs itself as                               *)
(* (internal/supervisor/supervisor_unix.go), the core, and the user, on    *)
(* Unix.                                                                   *)
(*                                                                         *)
(* Runs follow one another, but what an earlier run left behind may still  *)
(* be there: owner[i], sup[i] and core[i] belong to run i.  The generated  *)
(* file is at one place for all.                                           *)
(***************************************************************************)
EXTENDS CoreConfig

CONSTANTS
  Inputs,    \* configurations the file may hold at first
  Edits,     \* configurations a user or an update may write to it
  MaxRuns,   \* bound: times the program is started
  Nil,       \* no configuration
  Torn       \* a file that was not written to its end

ASSUME RunsAssumption == MaxRuns \in Nat \ {0}

ASSUME ConfigsAssumption ==
  /\ Edits \subseteq Inputs
  /\ \A c \in Inputs : Decodes(c) /\ Valid(c)
  /\ Nil \notin Inputs /\ Torn \notin Inputs /\ Nil # Torn

VARIABLES
  file,       \* what --config names: its content, and whether only its owner can read it
  gen,        \* ~/.oneproxy/singbox_generated.json: what it was generated from
  pc,         \* where run is
  run,        \* the current run, or the last
  cfg,        \* run's cfg
  fetched,    \* history: this run has downloaded the subscription
  signalled,  \* SIGINT or SIGTERM has cancelled ctx
  exit,       \* how the last run ended
  owner,      \* the program's end of the supervisor's pipe is open
  sup,        \* the supervisor
  core,       \* the core
  reads       \* the configuration the core runs with

files == <<file, gen>>
program == <<pc, run, cfg, fetched, signalled, exit>>
children == <<sup, core, reads>>
vars == <<files, program, owner, children>>

Runs == 1..MaxRuns

Alive == {"starting", "up"}

FlagsOK ==
  /\ fetched \in BOOLEAN /\ signalled \in BOOLEAN
  /\ owner \in [Runs -> BOOLEAN]

PlacesOK ==
  /\ gen \in Inputs \cup {Nil, Torn}
  /\ pc \in {"off", "loaded", "save", "rename", "generate", "generating",
             "check", "launch", "window", "running", "stopping"}
  /\ run \in 0..MaxRuns
  /\ cfg \in Inputs \cup {Nil}
  /\ exit \in {Nil, "stopped", "failed", "timeout", "killed"}
  /\ sup \in [Runs -> {"none", "spawning", "watching", "terminating", "gone", "killed"}]
  /\ core \in [Runs -> {"none", "gone"} \cup Alive]
  /\ reads \in [Runs -> Inputs \cup {Nil}]

(* The file is whole, wherever a run was killed.                           *)
TypeOK == FlagsOK /\ PlacesOK /\ file \in [cfg : Inputs, private : BOOLEAN]

Init ==
  /\ \E c \in Inputs : file = [cfg |-> c, private |-> TRUE]
  /\ gen = Nil
  /\ pc = "off" /\ run = 0 /\ cfg = Nil /\ fetched = FALSE
  /\ signalled = FALSE /\ exit = Nil
  /\ owner = [i \in Runs |-> FALSE]
  /\ sup = [i \in Runs |-> "none"]
  /\ core = [i \in Runs |-> "none"]
  /\ reads = [i \in Runs |-> Nil]

-----------------------------------------------------------------------------
(* The program *)

Go(from, to) == pc = from /\ pc' = to

(* The process ends; the kernel closes its end of the pipe.                *)
Ends(how) ==
  /\ pc' = "off" /\ cfg' = Nil /\ fetched' = FALSE /\ signalled' = FALSE
  /\ exit' = how
  /\ owner' = [i \in Runs |-> FALSE]
  /\ UNCHANGED run

(* An error that run returns: exit code 1.                                 *)
Fails(at) == pc \in at /\ Ends("failed") /\ UNCHANGED <<files, children>>

(* cmd.Wait returns: the supervisor has ended, and its output is closed,   *)
(* which the core inherited.                                               *)
Reaped(i) == sup[i] \in {"gone", "killed"} /\ core[i] \notin Alive

(* validateInputConfig and config.Load                                     *)
Usable == file.private /\ file.cfg # Torn

Begin ==
  /\ pc = "off" /\ run < MaxRuns
  /\ run' = run + 1
  /\ IF Usable
     THEN pc' = "loaded" /\ cfg' = file.cfg /\ exit' = Nil
     ELSE exit' = "failed" /\ UNCHANGED <<pc, cfg>>
  /\ UNCHANGED <<files, fetched, signalled, owner, children>>

(* signal.NotifyContext has been called by the time a signal is not fatal. *)
Signal ==
  /\ pc # "off"
  /\ signalled' = TRUE
  /\ UNCHANGED <<files, pc, run, cfg, fetched, exit, owner, children>>

NoSubscription ==
  /\ Go("loaded", "generate")
  /\ ~cfg.subscribed
  /\ UNCHANGED <<files, run, cfg, fetched, signalled, exit, owner, children>>

(* PrepareStartupSubscription: what the feed makes of c.                   *)
Updates(c) ==
  {d \in Edits : d.subscribed /\ d.unified = c.unified /\ d.tag = c.tag /\ d.mode = c.mode}

Downloads ==
  /\ Go("loaded", "save")
  /\ cfg.subscribed /\ ~signalled
  /\ cfg' \in Updates(cfg)
  /\ fetched' = TRUE
  /\ UNCHANGED <<files, run, signalled, exit, owner, children>>

\* Mutant: a failed download is no reason not to connect.
DownloadIgnored ==
  /\ Go("loaded", "generate")
  /\ cfg.subscribed
  /\ UNCHANGED <<files, run, cfg, fetched, signalled, exit, owner, children>>

(* The download or the merge fails, or a signal ends it.                   *)
DownloadFails == pc = "loaded" /\ cfg.subscribed /\ Fails({"loaded"})

\* Mutant: Save writes to the file itself.
TemporaryNone(f) == [f EXCEPT !.cfg = Torn]

(* Save: the whole configuration goes to a temporary file, with mode 0644, *)
(* which then takes the place of the old one.                              *)
Temporary(f) == f

SaveWrites ==
  /\ Go("save", "rename")
  /\ file' = Temporary(file)
  /\ UNCHANGED <<gen, run, cfg, fetched, signalled, exit, owner, children>>

SaveRenames ==
  /\ Go("rename", "generate")
  /\ file' = [cfg |-> cfg, private |-> FALSE]
  /\ UNCHANGED <<gen, run, cfg, fetched, signalled, exit, owner, children>>

(* SaveToFile truncates the generated file, and writes it.                 *)
Truncate ==
  /\ Go("generate", "generating")
  /\ gen' = Torn
  /\ UNCHANGED <<file, run, cfg, fetched, signalled, exit, owner, children>>

Write ==
  /\ Go("generating", "check")
  /\ gen' = cfg
  /\ UNCHANGED <<file, run, cfg, fetched, signalled, exit, owner, children>>

(* manager.Check runs sing-box check.                                      *)
Check ==
  /\ Go("check", "launch")
  /\ gen # Torn /\ Accepts(Generate(gen))
  /\ UNCHANGED <<files, run, cfg, fetched, signalled, exit, owner, children>>

Refused == pc = "check" /\ ~Accepts(Generate(gen)) /\ Fails({"check"})

(* ctx.Err is looked at once more; then Start runs supervisor.Wrap.        *)
Launch ==
  /\ ~signalled
  /\ Go("launch", "window")
  /\ owner' = [owner EXCEPT ![run] = TRUE]
  /\ sup' = [sup EXCEPT ![run] = "spawning"]
  /\ UNCHANGED <<files, run, cfg, fetched, signalled, exit, core, reads>>

(* Any of these steps may return an error, the last because of a signal.   *)
StepFails == Fails({"save", "rename", "generate", "generating", "check", "launch"})

(* The startup window passes; Start may not have noticed an exit yet.      *)
WindowPasses ==
  /\ Go("window", "running")
  /\ UNCHANGED <<files, run, cfg, fetched, signalled, exit, owner, children>>

(* The core exits within the window, and Start fails; or later, and Done   *)
(* has a result: a foreground Manager does not restart it.                 *)
CoreLost == pc \in {"window", "running"} /\ Reaped(run) /\ Fails({"window", "running"})

(* Stop closes the pipe and waits.                                         *)
Stop ==
  /\ signalled
  /\ Go("running", "stopping")
  /\ owner' = [owner EXCEPT ![run] = FALSE]
  /\ UNCHANGED <<files, run, cfg, fetched, signalled, exit, children>>

\* Mutant: Stop does not wait for the lifecycle to end.
StopReturnsEarly ==
  /\ pc = "stopping"
  /\ Ends("stopped")
  /\ UNCHANGED <<files, children>>

StopReturns ==
  /\ pc = "stopping" /\ Reaped(run)
  /\ Ends("stopped")
  /\ UNCHANGED <<files, children>>

\* Mutant: Stop waits for the supervisor without limit.
StopWaitsForever == StopReturns

(* The supervisor did not finish within five seconds.                      *)
StopTimesOut ==
  /\ pc = "stopping"
  /\ Ends("timeout")
  /\ UNCHANGED <<files, children>>

(* The program is killed, or gets a signal before NotifyContext.           *)
Killed ==
  /\ pc # "off"
  /\ Ends("killed")
  /\ UNCHANGED <<files, children>>

(* A user edits the file, or gives it back to its owner alone, between     *)
(* runs.                                                                   *)
Edit ==
  /\ pc = "off" /\ run < MaxRuns
  /\ \E c \in Edits \cup {file.cfg} : file' = [cfg |-> c, private |-> TRUE]
  /\ UNCHANGED <<gen, program, owner, children>>

-----------------------------------------------------------------------------
(* The supervisor and the core of run i *)

SupervisorGoes(i, from, to) == sup[i] = from /\ sup' = [sup EXCEPT ![i] = to]

CoreGone(i) ==
  /\ core' = [core EXCEPT ![i] = "gone"]
  /\ reads' = [reads EXCEPT ![i] = Nil]

(* Main starts the core in a process group of its own.                     *)
StartsCore(i) ==
  /\ SupervisorGoes(i, "spawning", "watching")
  /\ core' = [core EXCEPT ![i] = "starting"]
  /\ UNCHANGED <<files, program, owner, reads>>

StartFails(i) ==
  /\ SupervisorGoes(i, "spawning", "gone")
  /\ UNCHANGED <<files, program, owner, core, reads>>

\* Mutant: only a signal tells the supervisor to end the core.
OwnerGoneUnseen(i) == FALSE

(* What the select after child.Start can receive besides a signal.         *)
OwnerGone(i) == ~owner[i]

Notices(i) ==
  /\ OwnerGone(i)
  /\ SupervisorGoes(i, "watching", "terminating")
  /\ UNCHANGED <<files, program, owner, core, reads>>

(* SIGTERM, SIGINT or SIGHUP to the supervisor itself.                     *)
ToldToEnd(i) ==
  /\ SupervisorGoes(i, "watching", "terminating")
  /\ UNCHANGED <<files, program, owner, core, reads>>

(* Two seconds after SIGTERM, SIGKILL.                                     *)
Kills(i) ==
  /\ sup[i] = "terminating" /\ core[i] \in Alive
  /\ CoreGone(i)
  /\ UNCHANGED <<files, program, owner, sup>>

(* <-done: the core has been waited for, and Main returns.                 *)
Reaps(i) ==
  /\ core[i] = "gone"
  /\ \E from \in {"watching", "terminating"} : SupervisorGoes(i, from, "gone")
  /\ UNCHANGED <<files, program, owner, core, reads>>

SupervisorKilled(i) ==
  /\ \E from \in {"spawning", "watching", "terminating"} : SupervisorGoes(i, from, "killed")
  /\ UNCHANGED <<files, program, owner, core, reads>>

(* Another core has one of the ports.                                      *)
Bound(i, c) ==
  \E j \in Runs \ {i} : core[j] = "up" /\ Listens(reads[j]) \cap Listens(c) # {}

(* sing-box reads the generated file when it starts.                       *)
ComesUp(i) ==
  /\ core[i] = "starting"
  /\ gen # Torn /\ Accepts(Generate(gen)) /\ ~Bound(i, gen)
  /\ core' = [core EXCEPT ![i] = "up"]
  /\ reads' = [reads EXCEPT ![i] = gen]
  /\ UNCHANGED <<files, program, owner, sup>>

(* It ends: it cannot start, it crashes, or SIGTERM has its effect.        *)
CoreExits(i) ==
  /\ core[i] \in Alive
  /\ CoreGone(i)
  /\ UNCHANGED <<files, program, owner, sup>>

-----------------------------------------------------------------------------
Program ==
  \/ Begin \/ NoSubscription \/ Downloads \/ DownloadFails
  \/ SaveWrites \/ SaveRenames \/ Truncate \/ Write \/ Check \/ Refused \/ Launch
  \/ StepFails \/ WindowPasses \/ CoreLost \/ Stop \/ StopReturns \/ StopTimesOut

Supervisor(i) ==
  StartsCore(i) \/ StartFails(i) \/ Notices(i) \/ Kills(i) \/ Reaps(i)

Environment ==
  \/ Signal \/ Killed \/ Edit
  \/ \E i \in Runs :
       ToldToEnd(i) \/ SupervisorKilled(i) \/ ComesUp(i) \/ CoreExits(i)

Next == Program \/ (\E i \in Runs : Supervisor(i)) \/ Environment

(* The program that is running goes on: its download, its startup window   *)
(* and its Stop have limits.  `sing-box check` has none (manager.go:99): it*)
(* is assumed to end, as it only reads the generated file.  A supervisor   *)
(* goes on too.  Nobody else has to do anything.                           *)
Fairness ==
  /\ WF_vars(pc # "off" /\ Program)
  /\ \A i \in Runs : WF_vars(Supervisor(i))

Spec == Init /\ [][Next]_vars /\ Fairness

-----------------------------------------------------------------------------
(* A core, whichever run's file it has read, sends every connection where  *)
(* README.md's tables say, and its selector understands what the selection *)
(* menu makes of the names, all but that of a node that is named "auto".   *)
Routed ==
  \A i \in Runs : core[i] = "up" =>
    Pinned(reads[i]) /\ ByMode(reads[i]) /\ Selectable(reads[i])

(* The core of the current run works with the configuration that is on     *)
(* disk, and with one that was downloaded by this run if it has a          *)
(* subscription: "It never falls back to connecting old nodes"             *)
(* (README.md:94).                                                         *)
ConnectsFresh ==
  pc # "off" /\ core[run] = "up" =>
    /\ reads[run] = cfg /\ cfg = file.cfg
    /\ cfg.subscribed => fetched

(* A run that ended with code 0, or with an error that is not a Stop which *)
(* ran out of time, has left no core behind, even if someone killed the    *)
(* supervisor (README.md:173).                                             *)
ExitClean ==
  pc = "off" /\ exit \in {"stopped", "failed"} => run = 0 \/ core[run] \notin Alive

(* Whatever ends the program, its supervisor ends the core                 *)
(* (supervisor_unix.go:62).                                                *)
OwnerEndsCore ==
  \A i \in Runs : sup[i] # "none" /\ ~owner[i]
                    ~> sup[i] = "killed" \/ (sup[i] = "gone" /\ core[i] \notin Alive)

(* A signal ends the program, whatever the core and the supervisor do.     *)
SignalEnds == signalled ~> ~signalled

(* A file that the program was given and took can be given to it again     *)
(* after an ordinary end: "rerun the command to retry" (README.md:94), and *)
(* the file "is never modified by OneProxy" (README.md:171).               *)
StaysUsable == exit \in {"stopped", "failed"} => Usable
=============================================================================
