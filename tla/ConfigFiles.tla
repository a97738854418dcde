----------------------------- MODULE ConfigFiles -----------------------------
(***************************************************************************)
(* The copies of the configuration that the DLL keeps: config.json beside  *)
(* the program or in the data directory, gConfig in memory, the generated  *)
(* singbox_generated.json, and what the core has read of it.  The calls    *)
(* that move it from one to the other (Start and Restart, a subscription   *)
(* update, the import of a node: cmd/oneproxy-dll/main.go and              *)
(* subscription.go) are here one at a time, with every step of theirs that *)
(* may fail, and with crashes of the core and of the process.  Session.tla *)
(* has their interleavings.                                                *)
(*                                                                         *)
(* A configuration is [mode, sub, feed, imported, absent]: RouteMode,      *)
(* whether it has a subscription, which version of its feed its nodes are  *)
(* from, whether it has the imported node, and a missing count, which only *)
(* the next update reads.                                                  *)
(***************************************************************************)
EXTENDS Integers

CONSTANTS
  Modes,        \* routing modes
  Feeds,        \* versions of the subscription's feed
  Placeholder,  \* config-placeholder.json
  UserConfigs,  \* configurations a user writes
  Nil, Absent, Torn

Configs == [mode : Modes, sub : BOOLEAN, feed : Feeds, imported : BOOLEAN, absent : 0..1]

\* The placeholder has no subscription (config-placeholder.json); Nil, Absent and
\* Torn are no configurations, and Nil no result.
ASSUME ContentsAssumption ==
  /\ Placeholder \in Configs /\ ~Placeholder.sub
  /\ UserConfigs \subseteq Configs
  /\ {Nil, Absent, Torn} \cap Configs = {} /\ Nil # "update_failed"

(* "here" stands for the working directory and the program's own.          *)
Places == {"here", "data"}

VARIABLES
  disk,         \* config.json in each place
  gen,          \* what singbox_generated.json was made from
  override,     \* RouteMode in the registry (Windows)
  gConfigPath,
  gConfig,
  core,         \* the core, as its Manager sees it
  reads,        \* what the core was started with
  ended,        \* the watcher has the Manager's last result
  stale,        \* history: a reload has left the core, or its file, with another one
  unsaved,      \* history: an import has failed, and could not put the old file back
  pc, call,     \* where the call is; its locals
  result        \* of the last call

files == <<disk, gen, unsaved>>
runtime == <<core, reads, ended, stale>>
where == <<override, gConfigPath>>
vars == <<files, where, gConfig, runtime, pc, call, result>>

(* What sing-box sees of a configuration.                                  *)
Made(c) == [mode |-> c.mode, feed |-> c.feed, imported |-> c.imported]

NoCall == [kind |-> "none", prev |-> Nil, next |-> Nil, undo |-> FALSE, before |-> Nil]

(* Files are whole, but for the placeholder's copy and the generated file. *)
TypeOK ==
  /\ disk["here"] \in Configs \cup {Absent}
  /\ disk["data"] \in Configs \cup {Absent, Torn}
  /\ gen \in {Made(c) : c \in Configs} \cup {Nil, Torn}
  /\ override \in Modes \cup {Nil} /\ gConfigPath \in Places
  /\ gConfig \in Configs \cup {Nil}
  /\ core \in {"down", "starting", "up", "recovering", "relaunching"}
  /\ reads \in {Made(c) : c \in Configs} \cup {Nil}
  /\ ended \in BOOLEAN /\ stale \in BOOLEAN /\ unsaved \in BOOLEAN
  /\ pc \in {"off", "idle", "place", "load", "download", "fetch", "temp", "rename",
             "override", "truncate", "write", "apply", "window"}
  /\ call.kind \in {"none", "start", "update", "import"}
  /\ call.prev \in Configs \cup {Nil} /\ call.next \in Configs \cup {Nil}
  /\ result \in {Nil, "ok", "failed", "update_failed"}

Init ==
  /\ disk \in [Places -> UserConfigs \cup {Absent}]
  /\ gen = Nil
  /\ override = Nil /\ gConfigPath = "data" /\ gConfig = Nil
  /\ core = "down" /\ reads = Nil /\ ended = FALSE /\ stale = FALSE
  /\ unsaved = FALSE
  /\ pc = "off" /\ call = NoCall /\ result = Nil

-----------------------------------------------------------------------------
Go(from, to) == pc = from /\ pc' = to

Return(r) == pc' = "idle" /\ call' = NoCall /\ result' = r

(* The core is up: Manager.IsRunning.                                      *)
Running == core = "up"

(* A new phase in which the core has not read its file.                    *)
CoreBecomes(phase) ==
  /\ core' = phase /\ reads' = Nil
  /\ stale' = /\ stale /\ phase \in {"recovering", "relaunching"}
              /\ gen \notin {Torn, Made(gConfig)}

(* startProxyInDataDir, with the path of the file resolveConfig finds.     *)
Begin(path) ==
  /\ CoreBecomes("down") /\ ended' = FALSE
  /\ gConfig' = Nil
  /\ gConfigPath' = path
  /\ pc' = IF disk[path] = Absent THEN "place" ELSE "load"
  /\ call' = [NoCall EXCEPT !.kind = "start", !.before = disk]
  /\ unsaved' = FALSE
  /\ result' = Nil
  /\ UNCHANGED <<disk, gen, override>>

Start ==
  /\ pc = "idle" /\ ~Running
  /\ Begin(IF disk["here"] # Absent THEN "here" ELSE "data")

Restart == pc = "idle" /\ core # "down" /\ Begin(gConfigPath)

Stop ==
  /\ pc = "idle"
  /\ CoreBecomes("down") /\ ended' = FALSE
  /\ gConfig' = Nil /\ result' = Nil
  /\ UNCHANGED <<files, where, pc, call>>

(* os.WriteFile copies the placeholder: it may not get to the end.         *)
PlaceBegins ==
  /\ pc = "place" /\ disk["data"] = Absent
  /\ disk' = [disk EXCEPT !["data"] = Torn]
  /\ UNCHANGED <<gen, unsaved, where, gConfig, runtime, pc, call, result>>

PlaceEnds ==
  /\ disk["data"] = Torn
  /\ Go("place", "load")
  /\ disk' = [disk EXCEPT !["data"] = Placeholder]
  /\ UNCHANGED <<gen, unsaved, where, gConfig, runtime, call, result>>

PlaceFails ==
  /\ pc = "place"
  /\ Return("failed")
  /\ UNCHANGED <<files, where, gConfig, runtime>>

(* config.Load.  A configuration with a subscription is published while it *)
(* is downloaded.                                                          *)
Load ==
  /\ pc = "load" /\ disk[gConfigPath] # Torn
  /\ LET c == disk[gConfigPath]
     IN  /\ call' = [call EXCEPT !.next = c]
         /\ IF c.sub THEN pc' = "download" /\ gConfig' = c
            ELSE pc' = "override" /\ UNCHANGED gConfig
  /\ UNCHANGED <<files, where, runtime, result>>

LoadFails ==
  /\ pc = "load" /\ disk[gConfigPath] = Torn
  /\ Return("failed")
  /\ UNCHANGED <<files, where, gConfig, runtime>>

(* MergeSubscription: other nodes from the feed, or other missing counts.  *)
Merged(c) ==
  {d \in Configs : d = [c EXCEPT !.sub = TRUE, !.feed = d.feed, !.absent = d.absent]}

Downloaded ==
  /\ Go("download", "temp")
  /\ \E d \in Merged(call.next) : call' = [call EXCEPT !.next = d]
  /\ UNCHANGED <<files, where, gConfig, runtime, result>>

DownloadFails ==
  /\ pc = "download"
  /\ Return("update_failed")
  /\ UNCHANGED <<files, where, gConfig, runtime>>

(* The registry's mode takes the place of the file's.                      *)
Override ==
  /\ Go("override", "truncate")
  /\ gConfig' = IF override = Nil THEN call.next ELSE [call.next EXCEPT !.mode = override]
  /\ UNCHANGED <<files, where, runtime, call, result>>

-----------------------------------------------------------------------------
(* updateSubscriptionLocked and importManualProxy                          *)

Update ==
  /\ Go("idle", "fetch")
  /\ gConfig # Nil
  /\ call' = [NoCall EXCEPT !.kind = "update", !.prev = gConfig, !.before = disk]
  /\ result' = Nil
  /\ UNCHANGED <<files, where, gConfig, runtime>>

(* The download failed, or the session changed under it.                   *)
FetchFails ==
  /\ pc = "fetch"
  /\ Return("update_failed")
  /\ UNCHANGED <<files, where, gConfig, runtime>>

FetchUnchanged ==
  /\ pc = "fetch" /\ gConfig = call.prev /\ gConfig \in Merged(gConfig)
  /\ Return("ok")
  /\ UNCHANGED <<files, where, gConfig, runtime>>

(* A change the core does not see is only saved; another goes to the core  *)
(* first.                                                                  *)
ForCore == Made(call.next) # Made(call.prev)

\* Mutant: an update saves first, too.
SavesAlways(kind) == TRUE

SavesFirst(kind) == kind = "import"

Fetched ==
  /\ pc = "fetch" /\ gConfig = call.prev
  /\ \E next \in Merged(gConfig) \ {gConfig} :
       /\ call' = [call EXCEPT !.next = next]
       /\ IF Made(next) = Made(gConfig) \/ SavesFirst("update")
          THEN pc' = "temp" /\ UNCHANGED gConfig
          ELSE pc' = "truncate" /\ gConfig' = next
  /\ UNCHANGED <<files, where, runtime, result>>

(* MergeManualProxy refuses a node that is there already.                  *)
Import ==
  /\ Go("idle", "temp")
  /\ gConfig # Nil /\ ~gConfig.imported
  /\ call' = [NoCall EXCEPT !.kind = "import", !.prev = gConfig, !.before = disk,
                            !.next = [gConfig EXCEPT !.imported = TRUE]]
  /\ result' = Nil
  /\ UNCHANGED <<files, where, gConfig, runtime>>

Publish(c) == gConfig' = c /\ UNCHANGED <<call, result>>

Onward(to) == pc' = to /\ UNCHANGED <<gConfig, call, result>>

Finish(r) == Return(r) /\ UNCHANGED gConfig

\* Mutant: the old configuration is not given to the core again.
UndoUnloaded ==
  /\ ~call.undo
  /\ gConfig' = call.prev
  /\ Return(IF call.kind = "update" THEN "update_failed" ELSE "failed")

(* Back to the configuration from before the call.                         *)
Undo ==
  /\ ~call.undo
  /\ gConfig' = call.prev
  /\ call' = [call EXCEPT !.undo = TRUE]
  /\ pc' = IF SavesFirst(call.kind) THEN "temp" ELSE "truncate"
  /\ UNCHANGED result

(* The result that a call reports when it fails.                           *)
Failure == IF call.kind = "update" THEN "update_failed" ELSE "failed"

-----------------------------------------------------------------------------
(* Save, to the file Start has found, or to the one in the data directory. *)

Target == IF call.kind = "start" THEN gConfigPath ELSE "data"

\* Mutant: Save writes to the file itself.
SaveWritesInPlace ==
  /\ Go("temp", "rename")
  /\ disk' = [disk EXCEPT ![Target] = Torn]
  /\ UNCHANGED <<gen, unsaved, where, gConfig, runtime, call, result>>

SaveWrites == Go("temp", "rename") /\ UNCHANGED <<files, where, gConfig, runtime, call, result>>

Saved ==
  \/ call.kind = "start" /\ Onward("override")
  \/ call.undo /\ Onward("truncate")
  \/ SavesFirst(call.kind) /\ ~call.undo /\ pc' = "truncate" /\ Publish(call.next)
  \/ /\ call.kind = "update" /\ ~SavesFirst("update")
     /\ Return("ok") /\ gConfig' = call.next

SaveRenames ==
  /\ pc = "rename"
  /\ disk' = [disk EXCEPT ![Target] = IF call.undo THEN call.prev ELSE call.next]
  /\ unsaved' = FALSE
  /\ Saved
  /\ UNCHANGED <<gen, where, runtime>>

\* Mutant: an update does not look at Save's error.
SaveFailsUnseen ==
  /\ pc \in {"temp", "rename"}
  /\ call.kind = "update" /\ Return("ok") /\ gConfig' = call.next
  /\ UNCHANGED <<files, where, runtime>>

(* An import that cannot even put the old file back goes on.               *)
SaveFails ==
  /\ pc \in {"temp", "rename"}
  /\ \/ call.kind = "start" /\ Finish("update_failed")
     \/ call.undo /\ Onward("truncate")
     \/ SavesFirst(call.kind) /\ ~call.undo /\ Finish(Failure)
     \/ call.kind = "update" /\ ~SavesFirst("update") /\ IF ForCore THEN Undo ELSE Finish(Failure)
  /\ unsaved' = (unsaved \/ call.undo)
  /\ UNCHANGED <<disk, gen, where, runtime>>

-----------------------------------------------------------------------------
(* SaveToFile and the launch of the core, in Start and in reloadAndRestart *)

Truncate ==
  /\ Go("truncate", "write")
  /\ gen' = Torn
  /\ UNCHANGED <<disk, unsaved, where, gConfig, runtime, call, result>>

Write ==
  /\ Go("write", "apply")
  /\ gen' = Made(gConfig)
  /\ UNCHANGED <<disk, unsaved, where, gConfig, runtime, call, result>>

Applied ==
  IF call.undo THEN Finish(Failure)
  ELSE IF call.kind = "update" /\ ~SavesFirst("update") THEN Onward("temp")
  ELSE Finish("ok")

NotApplied == IF call.kind = "start" \/ call.undo THEN Finish(Failure) ELSE Undo

(* The core has something else than gConfig, or will when it is restarted. *)
LeftBehind ==
  /\ stale' = (reads \notin {Nil, Made(gConfig')} \/ gen \notin {Torn, Made(gConfig')})
  /\ UNCHANGED <<core, reads, ended>>

GenerateFails ==
  /\ pc \in {"truncate", "write"}
  /\ NotApplied
  /\ IF call.undo THEN LeftBehind ELSE UNCHANGED runtime
  /\ UNCHANGED <<files, where>>

(* Start, or Manager.Restart of a core that is up.                         *)
Launch ==
  /\ call.kind = "start" \/ Running
  /\ Go("apply", "window")
  /\ CoreBecomes("starting")
  /\ UNCHANGED <<files, where, gConfig, ended, call, result>>

(* A core that is not running is passed by: it will read the file when it  *)
(* starts.  One that is in its startup window may have read it already.    *)
PassBy ==
  /\ pc = "apply" /\ call.kind # "start" /\ ~Running
  /\ Applied
  /\ LeftBehind
  /\ UNCHANGED <<files, where>>

(* It crashed after it had been seen running: Restart refuses.             *)
RestartRefused ==
  /\ pc = "apply" /\ call.kind # "start"
  /\ core \in {"recovering", "relaunching"} \/ ended
  /\ NotApplied
  /\ IF call.undo THEN LeftBehind ELSE UNCHANGED runtime
  /\ UNCHANGED <<files, where>>

WindowPasses ==
  /\ pc = "window"
  /\ core' = "up"
  /\ Applied
  /\ UNCHANGED <<files, where, reads, ended, stale>>

WindowFails ==
  /\ pc = "window"
  /\ CoreBecomes("down")
  /\ NotApplied
  /\ UNCHANGED <<files, where, ended>>

-----------------------------------------------------------------------------
(* The core and its Manager's monitor *)

Background == <<files, where, gConfig, pc, call, result>>

CoreReads ==
  /\ core \in {"starting", "up", "relaunching"} /\ reads = Nil
  /\ gen \notin {Nil, Torn}
  /\ reads' = gen
  /\ UNCHANGED <<Background, core, ended, stale>>

CoreCrashes == core = "up" /\ CoreBecomes("recovering") /\ UNCHANGED <<Background, ended>>

Relaunch == core = "recovering" /\ CoreBecomes("relaunching") /\ UNCHANGED <<Background, ended>>

Relaunched ==
  /\ core = "relaunching"
  /\ core' = "up"
  /\ UNCHANGED <<Background, reads, ended, stale>>

GiveUp ==
  /\ core \in {"up", "recovering", "relaunching"}
  /\ CoreBecomes("down") /\ ended' = TRUE
  /\ UNCHANGED Background

(* watchManagerLifecycle, when it gets gMu.                                *)
Watch ==
  /\ ended /\ pc \in {"idle", "fetch"}
  /\ ended' = FALSE
  /\ gConfig' = Nil
  /\ UNCHANGED <<files, where, core, reads, stale, pc, call, result>>

-----------------------------------------------------------------------------
(* The process and its user *)

Boot == Go("off", "idle") /\ UNCHANGED <<files, where, gConfig, runtime, call, result>>

(* Killed at any point.  Its core goes with it.                            *)
Die ==
  /\ pc # "off"
  /\ pc' = "off" /\ call' = NoCall /\ result' = Nil /\ gConfig' = Nil
  /\ CoreBecomes("down") /\ ended' = FALSE
  /\ UNCHANGED <<files, where>>

Edit ==
  /\ pc = "off"
  /\ \E p \in Places, c \in UserConfigs \cup {Absent} : disk' = [disk EXCEPT ![p] = c]
  /\ UNCHANGED <<gen, unsaved, where, gConfig, runtime, pc, call, result>>

(* The tray's menu.                                                        *)
SetOverride ==
  /\ pc = "idle"
  /\ override' \in Modes
  /\ UNCHANGED <<files, gConfigPath, gConfig, runtime, pc, call, result>>

Calls ==
  \/ Start \/ Restart \/ Stop
  \/ PlaceBegins \/ PlaceEnds \/ PlaceFails \/ Load \/ LoadFails
  \/ Downloaded \/ DownloadFails \/ Override
  \/ Update \/ FetchFails \/ FetchUnchanged \/ Fetched \/ Import
  \/ SaveWrites \/ SaveRenames \/ SaveFails
  \/ Truncate \/ Write \/ GenerateFails
  \/ Launch \/ PassBy \/ RestartRefused \/ WindowPasses \/ WindowFails

Next ==
  \/ Calls
  \/ CoreReads \/ CoreCrashes \/ Relaunch \/ Relaunched \/ GiveUp \/ Watch
  \/ Boot \/ Die \/ Edit \/ SetOverride

Spec == Init /\ [][Next]_vars

-----------------------------------------------------------------------------
(* A Start or an update that reports "Subscription update failed" has left *)
(* every file as it was: "a restart failure must not rewrite even the      *)
(* formatting of the original config file" (subscription.go:155).          *)
FailureKeepsFiles ==
  [][result' = "update_failed" /\ call.before # Nil /\ call' = NoCall => disk' = call.before]_vars

(* Between calls the core runs with gConfig, unless a reload had to leave  *)
(* it with something else.                                                 *)
CoreCurrent ==
  pc = "idle" /\ core # "down" /\ gConfig # Nil /\ reads # Nil =>
    stale \/ reads = Made(gConfig)

(* Between calls the file in the data directory, if Start has read that    *)
(* one, is gConfig but for the routing mode, so that the next Start begins *)
(* with what this one has imported and downloaded.                         *)
SavedIsCurrent ==
  pc = "idle" /\ gConfig # Nil /\ gConfigPath = "data" =>
    unsaved \/ \E m \in Modes : disk["data"] = [gConfig EXCEPT !.mode = m]
=============================================================================
