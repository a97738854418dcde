---------------------------- MODULE LogRotation ----------------------------
(***************************************************************************)
(* The log writer of internal/logger/writer.go: Write, its rotation through*)
(* numbered volumes, the change of the date file and the cleanup of old    *)
(* dates, with a failure or a crash of the process between any two         *)
(* operations on files.                                                    *)
(*                                                                         *)
(* The bytes of a date are numbered in the order in which they reach the   *)
(* disk; a file is the set of the numbers it holds.  A file that does not  *)
(* exist is empty: a volume that exists is never empty.  mu makes a Write  *)
(* one sequential process.  A rename is atomic.                            *)
(***************************************************************************)
EXTENDS Integers, FiniteSets

CONSTANTS
  MaxSize,    \* maxSize, in the unit the bytes are counted in
  MaxFiles,   \* maxFiles: numbered volumes beside the current file
  KeepDays,   \* days before today that cleanup keeps (4 in the code)
  Days,       \* the dates the local clock shows
  MaxWrite,   \* bound: the longest Write
  MaxBytes    \* bound: bytes persisted per date

ASSUME LogAssumption ==
  /\ MaxSize \in Nat \ {0} /\ MaxFiles \in Nat \ {0} /\ KeepDays \in Nat
  /\ Days \subseteq Nat /\ MaxWrite \in Nat /\ MaxBytes \in Nat

VARIABLES
  day,      \* the date the clock shows
  latest,   \* history: the latest date it has shown
  files,    \* per date and slot: its bytes; slot 0 is the current file
  written,  \* per date: bytes persisted so far
  path,     \* the date of w.path
  isOpen,   \* w.file is not nil
  pc,       \* where Write is
  left,     \* bytes Write has yet to persist
  slot,     \* rotate's vacant slot i
  backoff   \* an error less than a second ago

vars == <<day, latest, files, written, path, isOpen, pc, left, slot, backoff>>

Slots == 0..MaxFiles

Volumes == 1..MaxFiles

Init ==
  /\ day \in Days /\ latest = day
  /\ files = [d \in Days |-> [s \in Slots |-> {}]]
  /\ written = [d \in Days |-> 0]
  /\ path = day
  /\ isOpen = FALSE /\ pc = "down" /\ left = 0 /\ slot = 1 /\ backoff = FALSE

Size(d, s) == Cardinality(files[d][s])

(* Files of dates before the cutoff are removed, each unless it is locked. *)
Cleanup(at) ==
  files' \in {[d \in Days |-> [s \in Slots |->
                IF d + KeepDays < at /\ <<d, s>> \notin locked THEN {} ELSE files[d][s]]] :
              locked \in SUBSET ({d \in Days : d + KeepDays < at} \X Slots)}

-----------------------------------------------------------------------------
(* newWriter, crash, Close *)

(* NewWriter fails when the date file cannot be opened.                    *)
Startup ==
  /\ pc = "down"
  /\ path' = day
  /\ Cleanup(day)
  /\ isOpen' \in BOOLEAN
  /\ pc' = IF isOpen' THEN "idle" ELSE "down"
  /\ backoff' = FALSE
  /\ UNCHANGED <<day, latest, written, left, slot>>

(* The process ends anywhere, or Close is called between two writes.       *)
Crash ==
  /\ pc # "down" /\ pc' = "down"
  /\ isOpen' = FALSE /\ left' = 0
  /\ UNCHANGED <<day, latest, files, written, path, slot, backoff>>

-----------------------------------------------------------------------------
(* Write *)

Written(failed) ==
  /\ pc' = "idle" /\ left' = 0 /\ backoff' = failed
  /\ UNCHANGED <<day, latest, path, slot>>

(* The first write of a date closes the old file and cleans up.            *)
WriteNewDate ==
  /\ pc = "idle" /\ day # path
  /\ isOpen' = FALSE /\ backoff' = FALSE
  /\ path' = day
  /\ Cleanup(day)
  /\ pc' = "write" /\ left' \in 1..MaxWrite
  /\ UNCHANGED <<day, latest, written, slot>>

(* Closing the old file failed: the date is tried again by the next Write. *)
NewDateFails ==
  /\ pc = "idle" /\ day # path /\ isOpen
  /\ isOpen' = FALSE
  /\ UNCHANGED <<day, latest, files, written, path, pc, left, slot, backoff>>

(* Cleanup runs again when the last one is due or had failed.              *)
WriteSameDate ==
  /\ pc = "idle" /\ day = path
  /\ files' = files \/ Cleanup(day)
  /\ \/ ~backoff /\ pc' = "write" /\ left' \in 1..MaxWrite
     \/ backoff /\ UNCHANGED <<pc, left>>
  /\ UNCHANGED <<day, latest, written, path, isOpen, slot, backoff>>

Open ==
  /\ pc = "write" /\ left > 0 /\ ~isOpen
  /\ UNCHANGED <<files, written>>
  /\ \/ isOpen' = TRUE /\ UNCHANGED <<day, latest, path, pc, left, slot, backoff>>
     \/ Written(TRUE) /\ UNCHANGED isOpen

Least(m, n) == IF m < n THEN m ELSE n

Chunk == Least(left, MaxSize - Size(path, 0))

(* The file takes all or a part of the chunk; the latter is an error.      *)
Append ==
  /\ pc = "write" /\ left > 0 /\ isOpen /\ Size(path, 0) < MaxSize
  /\ written[path] + Chunk <= MaxBytes
  /\ \E n \in 0..Chunk :
       /\ files' = [files EXCEPT ![path][0] =
                      @ \cup ((written[path] + 1)..(written[path] + n))]
       /\ written' = [written EXCEPT ![path] = @ + n]
       /\ \/ /\ n = Chunk /\ left' = left - n
             /\ UNCHANGED <<day, latest, path, isOpen, pc, slot, backoff>>
          \/ Written(TRUE) /\ isOpen' = FALSE

(* The file is closed before it is rotated; closing may fail.              *)
Full ==
  /\ pc = "write" /\ left > 0 /\ isOpen /\ Size(path, 0) = MaxSize
  /\ isOpen' = FALSE
  /\ \/ pc' = "rotate" /\ UNCHANGED <<day, latest, path, left, slot, backoff>>
     \/ Written(TRUE)
  /\ UNCHANGED <<files, written>>

WriteDone ==
  /\ pc = "write" /\ left = 0
  /\ Written(FALSE)
  /\ UNCHANGED <<files, written, isOpen>>

-----------------------------------------------------------------------------
(* rotate *)

Rotating == UNCHANGED <<day, latest, written, path, isOpen, left, backoff>>

(* An operation on the volumes fails.                                      *)
RotateFails ==
  /\ pc \in {"rotate", "shift"}
  /\ Written(TRUE)
  /\ UNCHANGED <<files, written, isOpen>>

\* Mutant: a vacancy left by an earlier rotation is not looked for.
VacantUnseen == {}

Vacant == {s \in Volumes : files[path][s] = {}}

(* Fill the first vacant slot, or drop the oldest volume.                  *)
FindSlot ==
  /\ pc = "rotate" /\ pc' = "shift"
  /\ \/ /\ Vacant # {}
        /\ slot' \in Vacant /\ \A s \in Vacant : slot' <= s
        /\ UNCHANGED files
     \/ /\ Vacant = {}
        /\ slot' = MaxFiles
        /\ files' = [files EXCEPT ![path][MaxFiles] = {}]
  /\ Rotating

Rename(from, to) == files' = [files EXCEPT ![path][to] = files[path][from], ![path][from] = {}]

\* Mutant: the loop goes one volume too far.
LastSlotPassed == slot < 1

LastSlot == slot = 1

\* Mutant: the current file becomes the slot that was vacant.
SourceCurrent == 0

Source == slot - 1

Shift ==
  /\ pc = "shift" /\ ~LastSlot
  /\ Rename(Source, slot)
  /\ slot' = slot - 1
  /\ UNCHANGED pc /\ Rotating

ShiftCurrent ==
  /\ pc = "shift" /\ LastSlot
  /\ Rename(0, 1)
  /\ pc' = "write"
  /\ UNCHANGED slot /\ Rotating

-----------------------------------------------------------------------------
(* The clock: a date begins, or the clock is set back, but never as far as *)
(* the dates that cleanup removes; a second passes.                        *)
DateChanges ==
  /\ day' \in {d \in Days \ {day} : d + KeepDays >= latest}
  /\ latest' = IF day' > latest THEN day' ELSE latest
  /\ UNCHANGED <<files, written, path, isOpen, pc, left, slot, backoff>>

SecondPasses ==
  /\ pc = "idle" /\ backoff /\ backoff' = FALSE
  /\ UNCHANGED <<day, latest, files, written, path, isOpen, pc, left, slot>>

Next ==
  \/ Startup \/ Crash \/ WriteNewDate \/ NewDateFails \/ WriteSameDate \/ Open
  \/ Append \/ Full \/ WriteDone \/ RotateFails \/ FindSlot \/ Shift
  \/ ShiftCurrent \/ DateChanges \/ SecondPasses

Spec == Init /\ [][Next]_vars

-----------------------------------------------------------------------------
(* Properties *)

(* Type correctness; no file ever exceeds the limit, and what is rotated   *)
(* away is full.                                                           *)
TypeOK ==
  /\ day \in Days /\ latest \in Days /\ path \in Days
  /\ files \in [Days -> [Slots -> SUBSET (1..MaxBytes)]]
  /\ written \in [Days -> 0..MaxBytes]
  /\ isOpen \in BOOLEAN /\ backoff \in BOOLEAN
  /\ pc \in {"down", "idle", "write", "rotate", "shift"}
  /\ left \in 0..MaxWrite /\ slot \in Volumes
  /\ \A d \in Days : /\ Size(d, 0) <= MaxSize
                     /\ \A s \in Volumes : Size(d, s) \in {0, MaxSize}

Kept(d) == UNION {files[d][s] : s \in Slots}

Recent == {d \in Days : d + KeepDays >= latest}

(* Read from the last volume to the current file, the log is in the order  *)
(* it was written in and, for a recent date, only a beginning of it may be *)
(* missing, whatever failed or crashed in between.                         *)
InOrder ==
  /\ \A d \in Days : \A s, u \in Slots :
       s < u => \A b \in files[d][s], c \in files[d][u] : c < b
  /\ \A d \in Recent :
       \E lost \in 0..written[d] : Kept(d) = (lost + 1)..written[d]

(* Bytes of a recent date are given up only by a rotation that leaves      *)
(* MaxFiles full files: a failed rotation and its retries shift no         *)
(* survivor twice (writer.go:197-198).                                     *)
LosesOnlyOldest ==
  [][\A d \in Recent :
       \/ Kept(d) \subseteq Kept(d)'
       \/ Cardinality(Kept(d)') >= MaxFiles * MaxSize]_vars
=============================================================================
