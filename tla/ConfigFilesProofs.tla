-------------------------- MODULE ConfigFilesProofs --------------------------
(***************************************************************************)
(* Theorems about ConfigFiles, for any modes, any versions of the feed and *)
(* any configurations a user writes.                                       *)
(*                                                                         *)
(* The three properties speak of calls that have ended.  IndInv says what  *)
(* each copy holds while a call is under way: which of prev and next is    *)
(* in memory, which of them the file has, whether what the core has read   *)
(* is what is in memory, and that no file has changed yet where a call can *)
(* still report "Subscription update failed".                              *)
(***************************************************************************)
EXTENDS ConfigFiles, TLAPS

(* What sing-box can see.                                                  *)
Views == {Made(c) : c \in Configs}

\* TypeOK in two parts: what is not a truth value, and what is.
PlacesOK ==
  /\ disk["here"] \in Configs \cup {Absent}
  /\ disk["data"] \in Configs \cup {Absent, Torn}
  /\ gen \in Views \cup {Nil, Torn}
  /\ override \in Modes \cup {Nil} /\ gConfigPath \in Places
  /\ gConfig \in Configs \cup {Nil}
  /\ core \in {"down", "starting", "up", "recovering", "relaunching"}
  /\ reads \in Views \cup {Nil}
  /\ pc \in {"off", "idle", "place", "load", "download", "fetch", "temp", "rename",
             "override", "truncate", "write", "apply", "window"}
  /\ call.kind \in {"none", "start", "update", "import"}
  /\ call.prev \in Configs \cup {Nil} /\ call.next \in Configs \cup {Nil}
  /\ result \in {Nil, "ok", "failed", "update_failed"}

FlagsOK == ended \in BOOLEAN /\ stale \in BOOLEAN /\ unsaved \in BOOLEAN

Saving == {"temp", "rename"}

Loading == {"truncate", "write", "apply", "window"}

(* The files by their places, the call's locals by their names.            *)
ShapeInv ==
  /\ disk \in [Places -> Configs \cup {Absent, Torn}]
  /\ DOMAIN call = {"kind", "prev", "next", "undo", "before"}

(* Which call can be where, and what it has captured.                      *)
CallInv ==
  /\ pc \in {"off", "idle"} <=> call.kind = "none"
  /\ call.kind = "none" => call = NoCall
  /\ pc \in {"place", "load", "download", "override"} => call.kind = "start"
  /\ pc = "fetch" => call.kind = "update"
  /\ call.kind \in {"update", "import"} => call.prev \in Configs
  /\ call.kind # "none" /\ pc \notin {"place", "load", "fetch"} => call.next \in Configs
  /\ call.undo => call.kind \in {"update", "import"} /\ pc # "fetch"
  /\ call.undo /\ call.kind = "update" => pc \notin Saving

(* What a Start has in memory, and the file it works on.                   *)
StartInv ==
  /\ pc = "place" => gConfigPath = "data" /\ disk["data"] \in {Absent, Torn}
  /\ (call.kind = "start" /\ pc # "place") \/ core # "down" => disk[gConfigPath] # Absent
  /\ pc \in {"off", "place", "load"} => gConfig = Nil
  /\ call.kind = "start" /\ pc \in {"download"} \cup Saving => gConfig = disk[gConfigPath]
  /\ pc = "override" => call.next = disk[gConfigPath]

(* What an update or an import has in memory.                              *)
UpdateInv ==
  /\ pc \in Loading => gConfig \in Configs
  /\ call.kind \in {"update", "import"} /\ call.undo => gConfig = call.prev
  /\ call.kind = "update" /\ ~call.undo =>
       /\ pc = "fetch" => gConfig \in {call.prev, Nil}
       /\ pc \in Saving => gConfig = IF ForCore THEN call.next ELSE call.prev
       /\ pc \in Loading => gConfig = call.next /\ ForCore
  /\ call.kind = "import" /\ ~call.undo =>
       gConfig = IF pc \in Saving THEN call.prev ELSE call.next

(* The data directory's file is c, but for the mode.                       *)
Kept(c) ==
  gConfigPath = "data" => unsaved \/ \E m \in Modes : disk["data"] = [c EXCEPT !.mode = m]

SavedInv ==
  /\ pc = "idle" /\ gConfig # Nil => Kept(gConfig)
  /\ call.kind = "start" /\ pc \in Loading => Kept(gConfig)
  /\ call.kind = "update" => Kept(call.prev)
  /\ call.kind = "import" =>
       IF call.undo THEN pc \in Loading => Kept(call.prev)
       ELSE Kept(IF pc \in Saving THEN call.prev ELSE call.next)

(* The core has read c or will read it, as far as anybody knows.           *)
Match(c) ==
  core = "down" \/ stale \/ (gen \in {Torn, Made(c)} /\ reads \in {Nil, Made(c)})

CoreInv ==
  /\ pc = "off" \/ (call.kind = "start" /\ pc # "window") => core = "down"
  /\ pc \in {"idle", "fetch"} /\ gConfig # Nil => Match(gConfig)
  /\ pc \in Saving /\ ~call.undo => Match(gConfig)
  /\ pc = "apply" => gen = Made(gConfig)
  /\ pc = "window" =>
       core = "starting" /\ gen = Made(gConfig) /\ reads \in {Nil, Made(gConfig)}

(* A call that can still report a failed update has changed no file; one   *)
(* that has placed the placeholder has no subscription to update.          *)
BeforeInv ==
  /\ call.kind = "start" /\ pc = "load" =>
       disk = call.before \/ disk[gConfigPath] \in {Placeholder, Torn}
  /\ call.kind = "start" /\ pc \in {"download"} \cup Saving => disk = call.before
  /\ call.kind = "update" => disk = call.before

Connected ==
  /\ PlacesOK /\ ShapeInv /\ CallInv /\ StartInv /\ UpdateInv /\ SavedInv /\ CoreInv
  /\ BeforeInv

IndInv == Connected /\ FlagsOK
-----------------------------------------------------------------------------
(* Configurations with one field changed, and what sing-box sees of them.  *)
LEMMA Edits ==
  ASSUME NEW c \in Configs
  PROVE  /\ \A m \in Modes : [c EXCEPT !.mode = m] \in Configs
         /\ \E m \in Modes : c = [c EXCEPT !.mode = m]
         /\ [c EXCEPT !.imported = TRUE] \in Configs
         /\ \A d \in Merged(c) : d \in Configs
         /\ Made(c) \in Views
<1>1. \A m \in Modes : [c EXCEPT !.mode = m] \in Configs
  BY DEF Configs
<1>2. \E m \in Modes : c = [c EXCEPT !.mode = m]
  <2>1. c.mode \in Modes /\ [c EXCEPT !.mode = c.mode] = c
    BY DEF Configs
  <2> QED
    BY <2>1, Zenon
<1>3. [c EXCEPT !.imported = TRUE] \in Configs
  BY DEF Configs
<1>4. ASSUME NEW d \in Merged(c) PROVE d \in Configs
  BY <1>4, Zenon DEF Merged
<1>5. Made(c) \in Views
  BY Zenon DEF Views
<1> QED
  BY <1>1, <1>2, <1>3, <1>4, <1>5, Zenon

(* The mode that the registry's has replaced can be put back.              *)
LEMMA ModeBack ==
  ASSUME NEW c \in Configs, NEW m \in Modes
  PROVE  [[c EXCEPT !.mode = m] EXCEPT !.mode = c.mode] = c
BY DEF Configs

(* What stands for no configuration is none.                               *)
LEMMA Values == Nil \notin Configs /\ Absent \notin Configs /\ Torn \notin Configs
BY ContentsAssumption

(* A file that is the configuration is kept.                               *)
LEMMA Same ==
  \A c \in Configs :
    disk'["data"] = c => \E m \in Modes : disk'["data"] = [c EXCEPT !.mode = m]
BY Edits, Zenon

(* Nothing is in memory, and the core is down.                             *)
LEMMA InitInd == Init => IndInv
<1> SUFFICES ASSUME Init PROVE IndInv
  OBVIOUS
<1> USE Values, ContentsAssumption, Edits DEF files, runtime, where, Background,
     NoCall, Places, Saving, Loading, ForCore, Connected, PlacesOK, ShapeInv, CallInv,
     StartInv, UpdateInv, SavedInv, Kept, CoreInv, Match, BeforeInv
<1>1. disk \in [Places -> Configs \cup {Absent, Torn}]
  BY SMT DEF Init
<1>2. Connected
  BY <1>1, SMT DEF Init
<1>3. FlagsOK
  BY Zenon DEF Init, FlagsOK
<1> QED
  BY <1>2, <1>3, Zenon DEF IndInv

(* TypeOK is part of the inductive invariant.                              *)
LEMMA IndTypes == IndInv => TypeOK
<1>1. Connected => PlacesOK
  BY Zenon DEF Connected
<1> QED
  BY <1>1, Zenon DEF IndInv, PlacesOK, FlagsOK, TypeOK, Views

-----------------------------------------------------------------------------
(* The steps that need more than their definition                          *)

(* An update that a Start makes puts new nodes in the same configuration.  *)
LEMMA DownloadedKeeps ==
  ASSUME Connected, Downloaded
  PROVE  Connected'
<1> USE Values, ContentsAssumption DEF files, runtime, where, Background, NoCall,
     Places, Saving, Loading, ForCore, Connected, PlacesOK, ShapeInv, CallInv,
     StartInv, UpdateInv, SavedInv, Kept, CoreInv, Match, BeforeInv
<1>1. PICK d \in Merged(call.next) : call' = [call EXCEPT !.next = d]
  BY Zenon DEF Downloaded
<1>2. call.next \in Configs
  BY SMT DEF Downloaded, Go
<1>3. d \in Configs
  BY <1>2, Edits, Zenon
<1>4. Go("download", "temp") /\ UNCHANGED <<files, where, gConfig, runtime, result>>
  BY Zenon DEF Downloaded
<1> QED
  BY <1>1, <1>3, <1>4, SMT DEF Go

(* A Start that fails leaves in memory the configuration it has read.      *)
LEMMA DownloadFailsKeeps ==
  ASSUME Connected, DownloadFails
  PROVE  Connected'
<1> USE Values, ContentsAssumption DEF files, runtime, where, Background, NoCall,
     Places, Saving, Loading, ForCore
<1>1. gConfig \in Configs => Kept(gConfig)
  <2> SUFFICES ASSUME gConfig \in Configs, gConfigPath = "data"
               PROVE  \E m \in Modes : disk["data"] = [gConfig EXCEPT !.mode = m]
    BY Zenon DEF Kept
  <2>1. disk["data"] = gConfig
    BY SMT DEF Connected, StartInv, CallInv, DownloadFails
  <2> QED
    BY <2>1, Edits, Zenon
<1> QED
  BY <1>1, SMT DEF DownloadFails, Return, Connected, PlacesOK, ShapeInv, CallInv,
       StartInv, UpdateInv, SavedInv, Kept, CoreInv, Match, BeforeInv

(* The file has the configuration but for the mode.                        *)
LEMMA OverrideKeeps ==
  ASSUME Connected, Override
  PROVE  Connected'
<1> USE Values, ContentsAssumption DEF files, runtime, where, Background, NoCall,
     Places, Saving, Loading, ForCore, Connected, PlacesOK, ShapeInv, CallInv,
     StartInv, UpdateInv, SavedInv, Kept, CoreInv, Match, BeforeInv
<1>1. call.next \in Configs /\ override \in Modes \cup {Nil}
  BY SMT DEF Override, Go
<1>2. /\ Go("override", "truncate") /\ UNCHANGED <<files, where, runtime, call, result>>
      /\ gConfig' = IF override = Nil THEN call.next
                    ELSE [call.next EXCEPT !.mode = override]
  BY Zenon DEF Override
<1>3. gConfig' \in Configs /\ \E m \in Modes : call.next = [gConfig' EXCEPT !.mode = m]
  <2>1. CASE override = Nil
    <3>1. gConfig' = call.next
      BY <1>2, <2>1, Zenon
    <3> QED
      BY <1>1, <3>1, Edits, Zenon
  <2>2. CASE override # Nil
    <3>1. override \in Modes /\ gConfig' = [call.next EXCEPT !.mode = override]
      BY <1>1, <1>2, <2>2, Zenon
    <3>2. [gConfig' EXCEPT !.mode = call.next.mode] = call.next
      BY <1>1, <3>1, ModeBack, Zenon
    <3>3. call.next.mode \in Modes
      BY <1>1 DEF Configs
    <3> QED
      BY <1>1, <3>1, <3>2, <3>3, Edits, Zenon
  <2> QED
    BY <2>1, <2>2, Zenon
<1>4. Go("override", "truncate") /\ UNCHANGED <<files, where, runtime, call, result>>
  BY <1>2, Zenon
<1>5. gConfig' \in Configs
  BY <1>3, Zenon
<1>6. PlacesOK' /\ ShapeInv' /\ CallInv'
  BY <1>1, <1>4, <1>5, SMT DEF Go
<1>7. StartInv' /\ UpdateInv'
  BY <1>1, <1>4, <1>5, SMT DEF Go
<1>8. CoreInv' /\ BeforeInv'
  BY <1>1, <1>4, <1>5, SMT DEF Go
<1>9. SavedInv'
  <2>1. call.kind = "start" /\ (gConfigPath = "data" => call.next = disk["data"])
    BY <1>4, SMT DEF Go
  <2>2. call'.kind = "start" /\ pc' = "truncate"
    BY <1>4, <2>1, SMT DEF Go
  <2>3. Kept(gConfig)'
    BY <1>3, <1>4, <2>1, Zenon DEF Go
  <2> QED
    BY <2>2, <2>3, Zenon
<1> QED
  BY <1>6, <1>7, <1>8, <1>9, Zenon

(* An update goes on with another configuration.                           *)
LEMMA FetchedKeeps ==
  ASSUME Connected, Fetched
  PROVE  Connected'
<1> USE Values, ContentsAssumption DEF files, runtime, where, Background, NoCall,
     Places, Saving, Loading, ForCore, Connected, PlacesOK, ShapeInv, CallInv,
     StartInv, UpdateInv, SavedInv, Kept, CoreInv, Match, BeforeInv
<1>1. PICK next \in Merged(gConfig) \ {gConfig} :
        /\ call' = [call EXCEPT !.next = next]
        /\ IF Made(next) = Made(gConfig) \/ SavesFirst("update")
           THEN pc' = "temp" /\ UNCHANGED gConfig
           ELSE pc' = "truncate" /\ gConfig' = next
  BY Zenon DEF Fetched
<1>2. gConfig \in Configs
  BY SMT DEF Fetched
<1>3. next \in Configs
  BY <1>1, <1>2, Edits, Zenon
<1>4. pc = "fetch" /\ gConfig = call.prev /\ UNCHANGED <<files, where, runtime, result>>
  BY Zenon DEF Fetched
<1> QED
  BY <1>1, <1>2, <1>3, <1>4, SMT DEF SavesFirst

(* The generated file is made from what is in memory.                      *)
LEMMA WriteKeeps ==
  ASSUME Connected, Write
  PROVE  Connected'
<1> USE Values, ContentsAssumption DEF files, runtime, where, Background, NoCall,
     Places, Saving, Loading, ForCore, Connected, PlacesOK, ShapeInv, CallInv,
     StartInv, UpdateInv, SavedInv, Kept, CoreInv, Match, BeforeInv
<1>1. gConfig \in Configs
  BY SMT DEF Write, Go
<1>2. Made(gConfig) \in Views
  BY <1>1, Edits, Zenon
<1> QED
  BY <1>1, <1>2, SMT DEF Write, Go

(* The file is replaced: it has what will be in memory, or what is again.  *)
LEMMA SaveRenamesKeeps ==
  ASSUME Connected, SaveRenames
  PROVE  Connected'
<1> USE Values, ContentsAssumption DEF files, runtime, where, Background, NoCall,
     Places, Saving, Loading, ForCore, Connected, PlacesOK, ShapeInv, CallInv,
     StartInv, UpdateInv, SavedInv, Kept, CoreInv, Match, BeforeInv
<1>1. PlacesOK'
  BY Edits, SMT DEF SaveRenames, Target, Saved, Onward, SavesFirst, Publish, Return
<1>2. ShapeInv'
  BY Edits, SMT DEF SaveRenames, Target, Saved, Onward, SavesFirst, Publish, Return
<1>3. CallInv'
  BY Edits, SMT DEF SaveRenames, Target, Saved, Onward, SavesFirst, Publish, Return
<1>4. StartInv'
  BY Edits, SMT DEF SaveRenames, Target, Saved, Onward, SavesFirst, Publish, Return
<1>5. UpdateInv'
  BY Edits, SMT DEF SaveRenames, Target, Saved, Onward, SavesFirst, Publish, Return
<1>6. SavedInv'
  <2> USE DEF SaveRenames, Target, Saved, Onward, SavesFirst, Publish, Return
  <2>2. CASE call.kind = "start" /\ Onward("override")
    BY Same, <2>2, SMT
  <2>3. CASE call.undo /\ Onward("truncate")
    <3>1. disk'["data"] = call.prev /\ call.prev \in Configs
      BY <2>3, SMT
    <3>2. \E m \in Modes : disk'["data"] = [call.prev EXCEPT !.mode = m]
      BY <3>1, Edits, Zenon
    <3> QED
      BY <3>2, <2>3, SMT
  <2>4. CASE SavesFirst(call.kind) /\ ~call.undo /\ pc' = "truncate" /\ Publish(call.next)
    BY Same, <2>4, SMT
  <2>5. CASE /\ call.kind = "update" /\ ~SavesFirst("update")
             /\ Return("ok") /\ gConfig' = call.next
    <3>1. disk'["data"] = call.next /\ call.next \in Configs
      BY <2>5, SMT
    <3>2. \E m \in Modes : disk'["data"] = [call.next EXCEPT !.mode = m]
      BY <3>1, Edits, Zenon
    <3> QED
      BY <3>2, <2>5, SMT
  <2> QED
    BY <2>2, <2>3, <2>4, <2>5, Zenon
<1>7. CoreInv'
  BY Edits, SMT DEF SaveRenames, Target, Saved, Onward, SavesFirst, Publish, Return
<1>8. BeforeInv'
  BY Edits, SMT DEF SaveRenames, Target, Saved, Onward, SavesFirst, Publish, Return
<1> QED
  BY <1>1, <1>2, <1>3, <1>4, <1>5, <1>6, <1>7, <1>8, Zenon

(* It is not replaced: the call ends, undoes its work, or has undone it.   *)
LEMMA SaveFailsKeeps ==
  ASSUME Connected, SaveFails
  PROVE  Connected'
<1> USE Values, ContentsAssumption DEF files, runtime, where, Background, NoCall,
     Places, Saving, Loading, ForCore, Connected, PlacesOK, ShapeInv, CallInv,
     StartInv, UpdateInv, SavedInv, Kept, CoreInv, Match, BeforeInv
<1>1. PlacesOK'
  BY Edits, SMT DEF SaveFails, Finish, Onward, SavesFirst, Failure, Undo, Return
<1>2. ShapeInv'
  BY Edits, SMT DEF SaveFails, Finish, Onward, SavesFirst, Failure, Undo, Return
<1>3. CallInv'
  BY Edits, SMT DEF SaveFails, Finish, Onward, SavesFirst, Failure, Undo, Return
<1>4. StartInv'
  BY Edits, SMT DEF SaveFails, Finish, Onward, SavesFirst, Failure, Undo, Return
<1>5. UpdateInv'
  BY Edits, SMT DEF SaveFails, Finish, Onward, SavesFirst, Failure, Undo, Return
<1>6. SavedInv'
  <2>2. pc \in Saving /\ UNCHANGED <<disk, gen, where, runtime>>
    BY Zenon DEF SaveFails
  <2>3. unsaved' <=> unsaved \/ call.undo
    BY Zenon DEF SaveFails
  <2> USE DEF Finish, Onward, SavesFirst, Failure, Undo, Return
  <2>4. CASE call.kind = "start" /\ Finish("update_failed")
    BY Same, <2>2, <2>3, <2>4, SMT
  <2>5. CASE call.undo /\ Onward("truncate")
    BY Same, <2>2, <2>3, <2>5, SMT
  <2>6. CASE SavesFirst(call.kind) /\ ~call.undo /\ Finish(Failure)
    BY Same, <2>2, <2>3, <2>6, SMT
  <2>7. CASE call.kind = "update" /\ ~SavesFirst("update") /\ ForCore /\ Undo
    BY Same, <2>2, <2>3, <2>7, SMT
  <2>8. CASE /\ call.kind = "update" /\ ~SavesFirst("update")
             /\ ~ForCore /\ Finish(Failure)
    BY Same, <2>2, <2>3, <2>8, SMT
  <2> QED
    BY <2>4, <2>5, <2>6, <2>7, <2>8, Zenon DEF SaveFails
<1>7. CoreInv'
  BY Edits, SMT DEF SaveFails, Finish, Onward, SavesFirst, Failure, Undo, Return
<1>8. BeforeInv'
  BY Edits, SMT DEF SaveFails, Finish, Onward, SavesFirst, Failure, Undo, Return
<1> QED
  BY <1>1, <1>2, <1>3, <1>4, <1>5, <1>6, <1>7, <1>8, Zenon

(* A core that is left with another file is said to be.                    *)
LEMMA Behind ==
  ASSUME LeftBehind
  PROVE  /\ core' = core /\ reads' = reads
         /\ stale' \/ (reads \in {Nil, Made(gConfig')} /\ gen \in {Torn, Made(gConfig')})
BY Zenon DEF LeftBehind

-----------------------------------------------------------------------------
(* Start, Restart and Stop, until the file has been read.                  *)
LEMMA StartSteps ==
  ASSUME Connected,
         Start \/ Restart \/ Stop \/ PlaceBegins \/ PlaceEnds \/ PlaceFails \/
         Load \/ LoadFails \/ Downloaded \/ DownloadFails \/ Override
  PROVE  Connected'
<1> USE Values, ContentsAssumption, Edits DEF files, runtime, where, Background,
     NoCall, Places, Saving, Loading, ForCore, Connected, PlacesOK, ShapeInv, CallInv,
     StartInv, UpdateInv, SavedInv, Kept, CoreInv, Match, BeforeInv
<1>1. CASE Start
  BY <1>1, SMT DEF Start, Running, Begin, CoreBecomes
<1>2. CASE Restart
  BY <1>2, SMT DEF Restart, Begin, CoreBecomes
<1>3. CASE Stop
  BY <1>3, SMT DEF Stop, CoreBecomes
<1>4. CASE PlaceBegins
  BY <1>4, SMT DEF PlaceBegins
<1>5. CASE PlaceEnds
  BY <1>5, SMT DEF PlaceEnds, Go
<1>6. CASE PlaceFails
  BY <1>6, SMT DEF PlaceFails, Return
<1>7. CASE Load
  BY <1>7, SMT DEF Load
<1>8. CASE LoadFails
  BY <1>8, SMT DEF LoadFails, Return
<1>9. CASE Downloaded
  BY <1>9, DownloadedKeeps, Zenon
<1>10. CASE DownloadFails
  BY <1>10, DownloadFailsKeeps, Zenon
<1>11. CASE Override
  BY <1>11, OverrideKeeps, Zenon
<1> QED
  BY <1>1, <1>2, <1>3, <1>4, <1>5, <1>6, <1>7, <1>8, <1>9, <1>10, <1>11, Zenon

(* An update until it has new nodes; an import.                            *)
LEMMA UpdateSteps ==
  ASSUME Connected,
         Update \/ FetchFails \/ FetchUnchanged \/ Fetched \/ Import
  PROVE  Connected'
<1> USE Values, ContentsAssumption, Edits DEF files, runtime, where, Background,
     NoCall, Places, Saving, Loading, ForCore, Connected, PlacesOK, ShapeInv, CallInv,
     StartInv, UpdateInv, SavedInv, Kept, CoreInv, Match, BeforeInv
<1>1. CASE Update
  BY <1>1, SMT DEF Update, Go
<1>2. CASE FetchFails
  BY <1>2, SMT DEF FetchFails, Return
<1>3. CASE FetchUnchanged
  BY <1>3, SMT DEF FetchUnchanged, Return
<1>4. CASE Fetched
  BY <1>4, FetchedKeeps, Zenon
<1>5. CASE Import
  BY <1>5, SMT DEF Import, Go
<1> QED
  BY <1>1, <1>2, <1>3, <1>4, <1>5, Zenon

(* Save.                                                                   *)
LEMMA SaveSteps ==
  ASSUME Connected,
         SaveWrites \/ SaveRenames \/ SaveFails
  PROVE  Connected'
<1> USE Values, ContentsAssumption, Edits DEF files, runtime, where, Background,
     NoCall, Places, Saving, Loading, ForCore, Connected, PlacesOK, ShapeInv, CallInv,
     StartInv, UpdateInv, SavedInv, Kept, CoreInv, Match, BeforeInv
<1>1. CASE SaveWrites
  BY <1>1, SMT DEF SaveWrites, Go
<1>2. CASE SaveRenames
  BY <1>2, SaveRenamesKeeps, Zenon
<1>3. CASE SaveFails
  BY <1>3, SaveFailsKeeps, Zenon
<1> QED
  BY <1>1, <1>2, <1>3, Zenon

(* The generated file and the launch of the core.                          *)
LEMMA ApplySteps ==
  ASSUME Connected,
         Truncate \/ Write \/ GenerateFails \/ Launch \/ PassBy \/
         RestartRefused \/ WindowPasses \/ WindowFails
  PROVE  Connected'
<1> USE Values, ContentsAssumption, Edits DEF files, runtime, where, Background,
     NoCall, Places, Saving, Loading, ForCore, Connected, PlacesOK, ShapeInv, CallInv,
     StartInv, UpdateInv, SavedInv, Kept, CoreInv, Match, BeforeInv
<1>1. CASE Truncate
  BY <1>1, SMT DEF Truncate, Go
<1>2. CASE Write
  BY <1>2, WriteKeeps, Zenon
<1>3. CASE GenerateFails
  BY <1>3, Behind, SMT DEF GenerateFails, NotApplied, Finish, Failure, Undo, Return,
       SavesFirst
<1>4. CASE Launch
  BY <1>4, SMT DEF Launch, Running, Go, CoreBecomes
<1>5. CASE PassBy
  BY <1>5, Behind, SMT DEF PassBy, Running, Applied, Finish, Failure, SavesFirst,
       Onward, Return
<1>6. CASE RestartRefused
  BY <1>6, Behind, SMT DEF RestartRefused, NotApplied, Finish, Failure, Undo, Return,
       SavesFirst
<1>7. CASE WindowPasses
  BY <1>7, SMT DEF WindowPasses, Applied, Finish, Failure, SavesFirst, Onward, Return
<1>8. CASE WindowFails
  BY <1>8, SMT DEF WindowFails, CoreBecomes, NotApplied, Finish, Failure, Undo,
       Return, SavesFirst
<1> QED
  BY <1>1, <1>2, <1>3, <1>4, <1>5, <1>6, <1>7, <1>8, Zenon

(* The core, its monitor, the watcher.                                     *)
LEMMA CoreSteps ==
  ASSUME Connected,
         CoreReads \/ CoreCrashes \/ Relaunch \/ Relaunched \/ GiveUp \/ Watch
  PROVE  Connected'
<1> USE Values, ContentsAssumption, Edits DEF files, runtime, where, Background,
     NoCall, Places, Saving, Loading, ForCore, Connected, PlacesOK, ShapeInv, CallInv,
     StartInv, UpdateInv, SavedInv, Kept, CoreInv, Match, BeforeInv
<1>1. CASE CoreReads
  BY <1>1, SMT DEF CoreReads
<1>2. CASE CoreCrashes
  BY <1>2, SMT DEF CoreCrashes, CoreBecomes
<1>3. CASE Relaunch
  BY <1>3, SMT DEF Relaunch, CoreBecomes
<1>4. CASE Relaunched
  BY <1>4, SMT DEF Relaunched
<1>5. CASE GiveUp
  BY <1>5, SMT DEF GiveUp, CoreBecomes
<1>6. CASE Watch
  BY <1>6, SMT DEF Watch
<1> QED
  BY <1>1, <1>2, <1>3, <1>4, <1>5, <1>6, Zenon

(* The process and its user.                                               *)
LEMMA ProcessSteps ==
  ASSUME Connected,
         Boot \/ Die \/ Edit \/ SetOverride
  PROVE  Connected'
<1> USE Values, ContentsAssumption, Edits DEF files, runtime, where, Background,
     NoCall, Places, Saving, Loading, ForCore, Connected, PlacesOK, ShapeInv, CallInv,
     StartInv, UpdateInv, SavedInv, Kept, CoreInv, Match, BeforeInv
<1>1. CASE Boot
  BY <1>1, SMT DEF Boot, Go
<1>2. CASE Die
  BY <1>2, SMT DEF Die, CoreBecomes
<1>3. CASE Edit
  BY <1>3, SMT DEF Edit
<1>4. CASE SetOverride
  BY <1>4, SMT DEF SetOverride
<1> QED
  BY <1>1, <1>2, <1>3, <1>4, Zenon

(* The truth values of the state remain so.                                *)
LEMMA FlagStep ==
  ASSUME FlagsOK, [Next]_vars
  PROVE  FlagsOK'
<1> USE DEF FlagsOK, files, runtime, Background
<1>1. CASE Start \/ Restart \/ Stop
  BY <1>1, Zenon DEF Start, Restart, Stop, Begin, CoreBecomes
<1>2. CASE PlaceBegins \/ PlaceEnds \/ PlaceFails \/ Load \/ LoadFails
  BY <1>2, Zenon DEF PlaceBegins, PlaceEnds, PlaceFails, Load, LoadFails
<1>3. CASE Downloaded \/ DownloadFails \/ Override
  BY <1>3, Zenon DEF Downloaded, DownloadFails, Override
<1>4. CASE Update \/ FetchFails \/ FetchUnchanged \/ Fetched \/ Import
  BY <1>4, Zenon DEF Update, FetchFails, FetchUnchanged, Fetched, Import
<1>5. CASE SaveWrites \/ SaveRenames \/ SaveFails
  BY <1>5, Zenon DEF SaveWrites, SaveRenames, SaveFails
<1>6. CASE Truncate \/ Write
  BY <1>6, Zenon DEF Truncate, Write
<1>7. CASE GenerateFails \/ RestartRefused
  BY <1>7, Zenon DEF GenerateFails, RestartRefused, LeftBehind
<1>8. CASE Launch \/ PassBy
  BY <1>8, Zenon DEF Launch, PassBy, CoreBecomes, LeftBehind
<1>9. CASE WindowPasses \/ WindowFails
  BY <1>9, Zenon DEF WindowPasses, WindowFails, CoreBecomes
<1>10. CASE CoreReads \/ CoreCrashes \/ Relaunch
  BY <1>10, Zenon DEF CoreReads, CoreCrashes, Relaunch, CoreBecomes
<1>11. CASE Relaunched \/ GiveUp \/ Watch
  BY <1>11, Zenon DEF Relaunched, GiveUp, Watch, CoreBecomes
<1>12. CASE Boot \/ Die \/ Edit \/ SetOverride
  BY <1>12, Zenon DEF Boot, Die, Edit, SetOverride, CoreBecomes
<1>13. CASE UNCHANGED vars
  BY <1>13, Zenon DEF vars
<1> QED
  BY <1>1, <1>2, <1>3, <1>4, <1>5, <1>6, <1>7, <1>8, <1>9, <1>10, <1>11, <1>12, <1>13,
     Zenon DEF Next, Calls

(* Every step preserves IndInv.                                            *)
LEMMA StepInd ==
  ASSUME IndInv, [Next]_vars
  PROVE  IndInv'
<1>1. Connected /\ FlagsOK
  BY Zenon DEF IndInv
<1>2. ASSUME UNCHANGED vars PROVE Connected'
  <2> USE DEF vars, files, runtime, where, ForCore, Kept, Match, Connected
  <2>1. PlacesOK' /\ ShapeInv'
    BY <1>1, <1>2, SMT DEF PlacesOK, ShapeInv
  <2>2. CallInv' /\ StartInv' /\ UpdateInv'
    BY <1>1, <1>2, SMT DEF CallInv, StartInv, UpdateInv
  <2>3. SavedInv'
    BY <1>1, <1>2, Zenon DEF SavedInv
  <2>4. CoreInv'
    BY <1>1, <1>2, Zenon DEF CoreInv
  <2>5. BeforeInv'
    BY <1>1, <1>2, SMT DEF BeforeInv
  <2> QED
    BY <2>1, <2>2, <2>3, <2>4, <2>5
<1>3. Connected'
  BY <1>1, <1>2, StartSteps, UpdateSteps, SaveSteps, ApplySteps, CoreSteps, ProcessSteps,
     Zenon DEF Next, Calls
<1> QED
  BY <1>1, <1>3, FlagStep, Zenon DEF IndInv

-----------------------------------------------------------------------------
(* The inductive invariant: at every step of a call it is known what each  *)
(* copy of the configuration is.                                           *)
THEOREM Inductive == Spec => []IndInv
BY InitInd, StepInd, PTL DEF Spec

(* Whatever users write and feeds deliver, every file but the placeholder's*)
(* copy and the generated one is absent or whole.                          *)
THEOREM Types == Spec => []TypeOK
BY IndTypes, Inductive, PTL

(* The next Start begins with what this one has imported and downloaded.   *)
THEOREM NothingUnsaved == Spec => []SavedIsCurrent
<1>1. Connected => SavedInv
  BY Zenon DEF Connected
<1>2. IndInv => SavedIsCurrent
  BY <1>1, Zenon DEF IndInv, SavedInv, Kept, SavedIsCurrent
<1> QED
  BY <1>2, Inductive, PTL

(* Between calls the core runs with the configuration in memory, unless a  *)
(* reload has had to leave it with another one.                            *)
THEOREM CoreHasCurrent == Spec => []CoreCurrent
<1>1. Connected => CoreInv
  BY Zenon DEF Connected
<1>2. CoreInv => CoreCurrent
  BY SMT DEF CoreInv, Match, CoreCurrent
<1> QED
  BY <1>1, <1>2, Inductive, PTL DEF IndInv

(* A call that ends with "update_failed" has left the files alone.         *)
LEMMA FailureSteps ==
  ASSUME Connected, [Next]_vars,
         result' = "update_failed", call.before # Nil, call' = NoCall
  PROVE  disk' = call.before
<1> USE DEF files, runtime, where, Background, NoCall, Places, Saving, Loading,
     ForCore, Connected, ShapeInv, CallInv, BeforeInv
<1>1. call.kind # "none" /\ NoCall.kind = "none"
  BY SMT
<1>2. CASE Start
  BY <1>1, <1>2, SMT DEF Start, Running, Begin, CoreBecomes
<1>3. CASE Restart
  BY <1>1, <1>3, SMT DEF Restart, Begin, CoreBecomes
<1>4. CASE Stop
  BY <1>1, <1>4, SMT DEF Stop, CoreBecomes
<1>5. CASE PlaceBegins
  BY <1>1, <1>5, SMT DEF PlaceBegins
<1>6. CASE PlaceEnds
  BY <1>1, <1>6, SMT DEF PlaceEnds, Go
<1>7. CASE PlaceFails
  BY <1>1, <1>7, SMT DEF PlaceFails, Return
<1>8. CASE Load
  BY <1>1, <1>8, SMT DEF Load
<1>9. CASE LoadFails
  BY <1>1, <1>9, SMT DEF LoadFails, Return
<1>10. CASE Downloaded
  BY <1>1, <1>10, SMT DEF Downloaded, Go
<1>11. CASE DownloadFails
  BY <1>1, <1>11, SMT DEF DownloadFails, Return
<1>12. CASE Override
  BY <1>1, <1>12, SMT DEF Override, Go
<1>13. CASE Update
  BY <1>1, <1>13, SMT DEF Update, Go
<1>14. CASE FetchFails
  BY <1>1, <1>14, SMT DEF FetchFails, Return
<1>15. CASE FetchUnchanged
  BY <1>1, <1>15, SMT DEF FetchUnchanged, Return
<1>16. CASE Fetched
  BY <1>1, <1>16, SMT DEF Fetched, SavesFirst
<1>17. CASE Import
  BY <1>1, <1>17, SMT DEF Import, Go
<1>18. CASE SaveWrites
  BY <1>1, <1>18, SMT DEF SaveWrites, Go
<1>19. CASE SaveRenames
  BY <1>1, <1>19, SMT DEF SaveRenames, Target, Saved, Onward, SavesFirst, Publish,
       Return
<1>20. CASE SaveFails
  BY <1>1, <1>20, SMT DEF SaveFails, Finish, Onward, SavesFirst, Failure, Undo, Return
<1>21. CASE Truncate
  BY <1>1, <1>21, SMT DEF Truncate, Go
<1>22. CASE Write
  BY <1>1, <1>22, SMT DEF Write, Go
<1>23. CASE GenerateFails
  BY <1>1, <1>23, SMT DEF GenerateFails, NotApplied, LeftBehind, Finish, Failure,
       Undo, Return, SavesFirst
<1>24. CASE Launch
  BY <1>1, <1>24, SMT DEF Launch, Running, Go, CoreBecomes
<1>25. CASE PassBy
  BY <1>1, <1>25, SMT DEF PassBy, Running, Applied, LeftBehind, Finish, Failure,
       SavesFirst, Onward, Return
<1>26. CASE RestartRefused
  BY <1>1, <1>26, SMT DEF RestartRefused, NotApplied, LeftBehind, Finish, Failure,
       Undo, Return, SavesFirst
<1>27. CASE WindowPasses
  BY <1>1, <1>27, SMT DEF WindowPasses, Applied, Finish, Failure, SavesFirst, Onward,
       Return
<1>28. CASE WindowFails
  BY <1>1, <1>28, SMT DEF WindowFails, CoreBecomes, NotApplied, Finish, Failure, Undo,
       Return, SavesFirst
<1>29. CASE CoreReads
  BY <1>1, <1>29, SMT DEF CoreReads
<1>30. CASE CoreCrashes
  BY <1>1, <1>30, SMT DEF CoreCrashes, CoreBecomes
<1>31. CASE Relaunch
  BY <1>1, <1>31, SMT DEF Relaunch, CoreBecomes
<1>32. CASE Relaunched
  BY <1>1, <1>32, SMT DEF Relaunched
<1>33. CASE GiveUp
  BY <1>1, <1>33, SMT DEF GiveUp, CoreBecomes
<1>34. CASE Watch
  BY <1>1, <1>34, SMT DEF Watch
<1>35. CASE Boot
  BY <1>1, <1>35, SMT DEF Boot, Go
<1>36. CASE Die
  <2>1. result' = Nil
    BY <1>36, Zenon DEF Die
  <2> QED
    BY <2>1, ContentsAssumption, Zenon
<1>37. CASE Edit
  BY <1>1, <1>37, SMT DEF Edit
<1>38. CASE SetOverride
  BY <1>1, <1>38, SMT DEF SetOverride
<1>39. CASE UNCHANGED vars
  BY <1>1, <1>39, SMT DEF vars
<1> HIDE DEF files, runtime, where, Background, NoCall, Places, Saving, Loading,
     ForCore, Connected, ShapeInv, CallInv, BeforeInv
<1>40. CASE Calls
  BY <1>2, <1>3, <1>4, <1>5, <1>6, <1>7, <1>8, <1>9, <1>10, <1>11, <1>12, <1>13,
     <1>14, <1>15, <1>16, <1>17, <1>18, <1>19, <1>20, <1>21, <1>22, <1>23, <1>24,
     <1>25, <1>26, <1>27, <1>28, <1>40, Zenon DEF Calls
<1> QED
  BY <1>29, <1>30, <1>31, <1>32, <1>33, <1>34, <1>35, <1>36, <1>37, <1>38, <1>39,
     <1>40, Zenon DEF Next

(* A call that reports "Subscription update failed" leaves every file as   *)
(* it was when it began, whichever of its steps has failed.                *)
THEOREM FailuresKeepFiles == Spec => FailureKeepsFiles
<1>1. IndInv /\ [Next]_vars =>
        [result' = "update_failed" /\ call.before # Nil /\ call' = NoCall =>
           disk' = call.before]_vars
  BY FailureSteps, Zenon DEF IndInv
<1> QED
  BY <1>1, Inductive, PTL DEF Spec, FailureKeepsFiles
=============================================================================
