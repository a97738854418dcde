------------------------- MODULE LogRotationProofs -------------------------
(***************************************************************************)
(* Theorems about LogRotation, for any size limit, any number of volumes   *)
(* and any dates.                                                          *)
(*                                                                         *)
(* The properties speak of which bytes are left.  IndInv says where they   *)
(* are: every file is a run of consecutive bytes, a volume a full one; and *)
(* for a recent date a volume's run is as many sizes before the current    *)
(* file as there are volumes between them, vacant slots not counted.  What *)
(* a rotation drops is then the oldest bytes, and what it leaves when it   *)
(* drops them is MaxFiles full files, without any sum over the volumes.    *)
(*                                                                         *)
(* The first operators and lemmas are about the files f of one date, of    *)
(* which w bytes have been written, and what each operation on them makes  *)
(* of f.                                                                   *)
(***************************************************************************)
EXTENDS LogRotation, FiniteSetTheorems, TLAPS

(* The bytes after lo up to hi.                                            *)
Span(lo, hi) == (lo + 1)..hi

(* The current file has the last bytes; a volume is vacant or full; later  *)
(* bytes are in lower slots.                                               *)
Current(f, w) == \E lo \in 0..w : f[0] = Span(lo, w) /\ w - lo <= MaxSize

Volume(f, w, s) == f[s] = {} \/ \E hi \in MaxSize..w : f[s] = Span(hi - MaxSize, hi)

Ordered(f) == \A s, u \in Slots : s < u => \A b \in f[s], c \in f[u] : c < b

WellFormed(f, w) ==
  /\ f \in [Slots -> SUBSET (1..MaxBytes)]
  /\ Current(f, w) /\ (\A s \in Volumes : Volume(f, w, s)) /\ Ordered(f)

(* The bytes that are left, and where the volumes are when none is missing *)
(* in between: lo bytes are before the current file.                       *)
Left(f) == UNION {f[s] : s \in Slots}

Taken(f, s) == {u \in 1..(s - 1) : f[u] # {}}

End(f, lo, s) == lo - MaxSize * Cardinality(Taken(f, s))

Placed(f, w, lo) ==
  /\ lo \in 0..w /\ f[0] = Span(lo, w)
  /\ \A s \in Volumes :
       f[s] # {} => f[s] = Span(End(f, lo, s) - MaxSize, End(f, lo, s))

Unbroken(f, w) ==
  /\ \E lo \in 0..w : Placed(f, w, lo)
  /\ \E lost \in 0..w : Left(f) = Span(lost, w)

(* What Append, Rename and FindSlot do to the files.                       *)
Add(f, w, n) == [f EXCEPT ![0] = @ \cup ((w + 1)..(w + n))]

MoveUp(f, s) == [f EXCEPT ![s] = f[s - 1], ![s - 1] = {}]

DropOldest(f) == [f EXCEPT ![MaxFiles] = {}]

FullCurrent(f, w) == MaxSize <= w /\ f[0] = Span(w - MaxSize, w)

PlacesOK ==
  /\ day \in Days /\ latest \in Days /\ path \in Days /\ day <= latest
  /\ files \in [Days -> [Slots -> SUBSET (1..MaxBytes)]]
  /\ written \in [Days -> 0..MaxBytes]
  /\ pc \in {"down", "idle", "write", "rotate", "shift"}
  /\ left \in 0..MaxWrite /\ slot \in Volumes

FlagsOK == isOpen \in BOOLEAN /\ backoff \in BOOLEAN

FilesInv == \A d \in Days : WellFormed(files[d], written[d])

RecentInv == \A d \in Recent : Unbroken(files[d], written[d])

(* rotate finds a full file, and works towards a vacant slot.              *)
RotateInv ==
  /\ pc \in {"rotate", "shift"} => FullCurrent(files[path], written[path])
  /\ pc = "shift" => files[path][slot] = {}

IndInv == PlacesOK /\ FlagsOK /\ FilesInv /\ RecentInv /\ RotateInv
-----------------------------------------------------------------------------
(* Spans                                                                   *)

(* A span has as many bytes as it is long.                                 *)
LEMMA SpanSize ==
  ASSUME NEW lo \in Int, NEW hi \in Int, lo <= hi
  PROVE  IsFiniteSet(Span(lo, hi)) /\ Cardinality(Span(lo, hi)) = hi - lo
<1>1. lo + 1 \in Int
  OBVIOUS
<1>2. /\ IsFiniteSet((lo + 1)..hi)
      /\ Cardinality((lo + 1)..hi) = IF lo + 1 > hi THEN 0 ELSE hi - (lo + 1) + 1
  BY <1>1, FS_Interval, Zenon
<1> QED
  BY <1>2, SMT DEF Span

(* Nothing is between a byte and itself.                                   *)
LEMMA NoSpan == \A w \in Int : Span(w, w) = {}
BY SMT DEF Span

(* There are at least the current file and one volume.                     *)
LEMMA SlotsOK ==
  /\ Slots = 0..MaxFiles /\ Volumes = 1..MaxFiles
  /\ MaxFiles \in Nat /\ MaxFiles >= 1 /\ MaxSize \in Nat /\ MaxSize >= 1
  /\ MaxBytes \in Nat
BY LogAssumption DEF Slots, Volumes

(* Files of a date are removed.                                            *)
LEMMA Removed ==
  ASSUME NEW f, NEW g \in [Slots -> SUBSET (1..MaxBytes)], NEW w \in Nat,
         WellFormed(f, w), \A s \in Slots : g[s] \in {f[s], {}}
  PROVE  WellFormed(g, w)
<1> USE SlotsOK DEF WellFormed
<1>1. Current(g, w)
  <2>1. CASE g[0] = f[0]
    BY <2>1, SMT DEF Current
  <2>2. CASE g[0] = {}
    BY <2>2, NoSpan, SMT DEF Current
  <2> QED
    BY <2>1, <2>2
<1>2. \A s \in Volumes : Volume(g, w, s)
  BY SMT DEF Volume
<1>3. Ordered(g)
  BY SMT DEF Ordered
<1> QED
  BY <1>1, <1>2, <1>3

(* A part of a chunk reaches the current file.                             *)
LEMMA Appended ==
  ASSUME NEW f, NEW w \in Nat, NEW n \in Nat, WellFormed(f, w), w + n <= MaxBytes,
         n <= MaxSize - Cardinality(f[0])
  PROVE  /\ WellFormed(Add(f, w, n), w + n)
         /\ Unbroken(f, w) => Unbroken(Add(f, w, n), w + n)
         /\ Left(f) \subseteq Left(Add(f, w, n))
<1>g. PICK g : g = Add(f, w, n)
  OBVIOUS
<1> USE SlotsOK
<1>1. /\ f \in [Slots -> SUBSET (1..MaxBytes)] /\ g \in [Slots -> SUBSET (1..MaxBytes)]
      /\ g[0] = f[0] \cup ((w + 1)..(w + n))
      /\ \A s \in Volumes : g[s] = f[s]
  BY <1>g, SMT DEF WellFormed, Add
<1>2. PICK lo \in 0..w : f[0] = Span(lo, w) /\ w - lo <= MaxSize
  BY Zenon DEF WellFormed, Current
<1>3. g[0] = Span(lo, w + n)
  BY <1>1, <1>2, SMT DEF Span
<1>4. n <= MaxSize - (w - lo)
  BY <1>2, SpanSize, SMT
<1>5. Current(g, w + n)
  BY <1>2, <1>3, <1>4, SMT DEF Current
<1>6. ASSUME NEW s \in Volumes PROVE Volume(g, w + n, s)
  <2>1. g[s] = f[s] /\ Volume(f, w, s)
    BY <1>1, Zenon DEF WellFormed
  <2>2. \A hi \in MaxSize..w : hi \in MaxSize..(w + n)
    BY SMT
  <2> QED
    BY <2>1, <2>2, Zenon DEF Volume
<1>7. \A s \in Slots : f[s] \subseteq 1..w
  BY <1>2, SMT DEF WellFormed, Volume, Span
<1>8. Ordered(g)
  <2> SUFFICES ASSUME NEW s \in Slots, NEW u \in Slots, s < u, NEW b \in g[s], NEW c \in g[u]
               PROVE  c < b
    BY Zenon DEF Ordered
  <2>1. c \in f[u]
    BY <1>1, SMT
  <2>2. CASE b \in f[s]
    BY <2>1, <2>2, SMT DEF WellFormed, Ordered
  <2>3. CASE b \notin f[s]
    BY <1>1, <1>7, <2>1, <2>3, SMT
  <2> QED
    BY <2>2, <2>3
<1>9. Left(g) = Left(f) \cup ((w + 1)..(w + n))
  BY <1>1, SMT DEF Left
<1>10. ASSUME Unbroken(f, w) PROVE Unbroken(g, w + n)
  <2>1. PICK at \in 0..w : Placed(f, w, at)
    BY <1>10, Zenon DEF Unbroken
  <2>2. at \in 0..(w + n) /\ g[0] = Span(at, w + n)
    BY <1>1, <2>1, SMT DEF Placed, Span
  <2>3. ASSUME NEW s \in Volumes PROVE Taken(g, s) = Taken(f, s)
    BY <1>1, <2>3, SMT DEF Taken
  <2>4. Placed(g, w + n, at)
    BY <1>1, <2>1, <2>2, <2>3, Zenon DEF Placed, End
  <2>5. PICK lost \in 0..w : Left(f) = Span(lost, w)
    BY <1>10, Zenon DEF Unbroken
  <2>6. lost \in 0..(w + n) /\ Left(g) = Span(lost, w + n)
    <3>1. Span(lost, w) \cup ((w + 1)..(w + n)) = Span(lost, w + n)
      BY SMT DEF Span
    <3>2. lost \in 0..(w + n)
      BY SMT
    <3> QED
      BY <1>9, <2>5, <3>1, <3>2, Zenon
  <2> QED
    BY <2>2, <2>4, <2>6, Zenon DEF Unbroken
<1> QED
  BY <1>g, <1>1, <1>5, <1>6, <1>8, <1>9, <1>10, Zenon DEF WellFormed

(* The volumes before one can be counted.                                  *)
LEMMA TakenSize ==
  ASSUME NEW f, NEW s \in Volumes
  PROVE  IsFiniteSet(Taken(f, s)) /\ Cardinality(Taken(f, s)) \in Nat
<1>1. IsFiniteSet(1..(s - 1))
  BY SlotsOK, FS_Interval, SMT
<1>2. Taken(f, s) \subseteq 1..(s - 1)
  BY Zenon DEF Taken
<1> QED
  BY <1>1, <1>2, FS_Subset, FS_CardinalityType, Zenon

(* A file becomes the next volume, which was vacant.                       *)
LEMMA Moved ==
  ASSUME NEW f, NEW w \in Nat, NEW s \in Volumes, WellFormed(f, w), f[s] = {},
         s = 1 => FullCurrent(f, w)
  PROVE  /\ WellFormed(MoveUp(f, s), w)
         /\ Unbroken(f, w) => Unbroken(MoveUp(f, s), w)
         /\ Left(MoveUp(f, s)) = Left(f)
<1>g. PICK g : g = MoveUp(f, s)
  OBVIOUS
<1> USE SlotsOK
<1> DEFINE r == s - 1
<1>0. r \in Slots /\ s \in Slots /\ r # s /\ r < s
  BY SMT
<1>1. /\ f \in [Slots -> SUBSET (1..MaxBytes)] /\ g \in [Slots -> SUBSET (1..MaxBytes)]
      /\ g[s] = f[r] /\ g[r] = {}
      /\ \A u \in Slots \ {r, s} : g[u] = f[u]
  BY <1>g, <1>0, SMT DEF WellFormed, MoveUp
<1>2. Current(g, w)
  <2>1. w \in 0..w /\ w - w <= MaxSize /\ Span(w, w) = {}
    BY SMT DEF Span
  <2>2. g[0] = {} \/ g[0] = f[0]
    BY <1>0, <1>1, SMT
  <2> QED
    BY <2>1, <2>2, Zenon DEF WellFormed, Current
<1>3. \A u \in Volumes : Volume(g, w, u)
  BY <1>0, <1>1, SMT DEF WellFormed, Volume, FullCurrent
<1>4. Ordered(g)
  BY <1>0, <1>1, SMT DEF WellFormed, Ordered
<1>5. Left(g) = Left(f)
  BY <1>0, <1>1, SMT DEF Left
<1>6. ASSUME NEW lo \in 0..w, Placed(f, w, lo) PROVE \E at \in 0..w : Placed(g, w, at)
  <2>1. CASE r = 0
    <3>1. f[0] = Span(w - MaxSize, w) /\ MaxSize <= w /\ w \in 0..w
      BY <1>0, <2>1, SMT DEF FullCurrent
    <3>2. lo = w - MaxSize
      <4>1. f[0] = Span(lo, w)
        BY <1>6, Zenon DEF Placed
      <4> QED
        BY <3>1, <4>1, SMT DEF Span
    <3>3. g[0] = Span(w, w)
      <4>1. Span(w, w) = {}
        BY SMT DEF Span
      <4> QED
        BY <1>1, <2>1, <4>1, Zenon
    <3>4. g[1] = Span(End(g, w, 1) - MaxSize, End(g, w, 1))
      <4>1. Taken(g, 1) = {}
        BY SMT DEF Taken
      <4>2. End(g, w, 1) = w
        <5>1. Cardinality(Taken(g, 1)) = 0
          BY <4>1, FS_EmptySet, Zenon
        <5> QED
          BY <5>1, SMT DEF End
      <4> QED
        BY <1>0, <1>1, <2>1, <3>1, <4>2, SMT
    <3>5. ASSUME NEW u \in Volumes, u # 1, g[u] # {}
          PROVE  g[u] = Span(End(g, w, u) - MaxSize, End(g, w, u))
      <4>1. g[u] = f[u] /\ s = 1
        BY <1>1, <2>1, <3>5, SMT
      <4>2. Taken(g, u) = Taken(f, u) \cup {1} /\ 1 \notin Taken(f, u)
        <5>1. f[1] = {} /\ g[1] # {}
          <6>1. w \in f[0]
            BY <3>1, SMT DEF Span
          <6> QED
            BY <1>1, <2>1, <4>1, <6>1, Zenon
        <5> QED
          BY <1>1, <2>1, <3>5, <4>1, <5>1, SMT DEF Taken
      <4>3. Cardinality(Taken(g, u)) = Cardinality(Taken(f, u)) + 1
        BY <4>2, TakenSize, FS_AddElement, Zenon
      <4>4. End(g, w, u) = End(f, lo, u)
        BY <3>2, <4>3, TakenSize, SMT DEF End
      <4> QED
        BY <1>6, <3>5, <4>1, <4>4, Zenon DEF Placed
    <3>6. Placed(g, w, w)
      BY <3>1, <3>3, <3>4, <3>5, Zenon DEF Placed
    <3> QED
      BY <3>1, <3>6
  <2>2. CASE r # 0
    <3>1. r \in Volumes /\ g[0] = f[0]
      BY <1>0, <1>1, <2>2, SMT
    <3>2. ASSUME NEW u \in Volumes, u < r PROVE Taken(g, u) = Taken(f, u) /\ g[u] = f[u]
      BY <1>1, <3>2, SMT DEF Taken
    <3>3. Taken(g, s) = Taken(f, r)
      BY <1>0, <1>1, <3>1, SMT DEF Taken
    <3>4. ASSUME NEW u \in Volumes, u > s
          PROVE  Cardinality(Taken(g, u)) = Cardinality(Taken(f, u)) /\ g[u] = f[u]
      <4>1. g[u] = f[u]
        BY <1>1, <3>4, SMT
      <4>2. CASE f[r] = {}
        <5>1. Taken(g, u) = Taken(f, u)
          <6>1. \A v \in 1..(u - 1) : g[v] # {} <=> f[v] # {}
            BY <1>0, <1>1, <3>4, <4>2, SMT
          <6> QED
            BY <6>1, Zenon DEF Taken
        <5> QED
          BY <4>1, <5>1
      <4>3. CASE f[r] # {}
        <5>1. /\ r \in Taken(f, u) /\ s \notin Taken(f, u)
              /\ Taken(g, u) = (Taken(f, u) \ {r}) \cup {s}
          BY <1>0, <1>1, <3>1, <3>4, <4>3, SMT DEF Taken
        <5> DEFINE T == Taken(f, u) \ {r}
        <5>2. IsFiniteSet(T) /\ Cardinality(T) = Cardinality(Taken(f, u)) - 1
          BY <5>1, TakenSize, FS_RemoveElement, Zenon
        <5>3. Cardinality(T \cup {s}) = Cardinality(T) + 1
          BY <5>1, <5>2, FS_AddElement, Zenon
        <5>4. Cardinality(Taken(f, u)) \in Nat /\ Taken(g, u) = T \cup {s}
          BY <5>1, TakenSize, Zenon
        <5> HIDE DEF T
        <5>5. Cardinality(T \cup {s}) = Cardinality(Taken(f, u))
          BY <5>2, <5>3, <5>4, SMT
        <5> QED
          BY <4>1, <5>4, <5>5, Zenon
      <4> QED
        BY <4>2, <4>3
    <3>5. ASSUME NEW u \in Volumes, g[u] # {}
          PROVE  g[u] = Span(End(g, lo, u) - MaxSize, End(g, lo, u))
      <4>1. CASE u = s
        BY <1>1, <1>6, <3>1, <3>3, <3>5, <4>1, Zenon DEF Placed, End
      <4>2. CASE u < r
        BY <1>6, <3>2, <3>5, <4>2, Zenon DEF Placed, End
      <4>3. CASE u > s
        BY <1>6, <3>4, <3>5, <4>3, Zenon DEF Placed, End
      <4> QED
        BY <1>1, <3>5, <4>1, <4>2, <4>3, SMT
    <3> QED
      BY <1>6, <3>1, <3>5, Zenon DEF Placed
  <2> QED
    BY <2>1, <2>2
<1> QED
  BY <1>g, <1>1, <1>2, <1>3, <1>4, <1>5, <1>6, Zenon DEF WellFormed, Unbroken

(* The oldest volume is dropped when no slot is vacant: of a full current  *)
(* file and volumes in an unbroken row, MaxFiles full files are left.      *)
LEMMA Dropped ==
  ASSUME NEW f, NEW w \in Nat, WellFormed(f, w), FullCurrent(f, w),
         \A s \in Volumes : f[s] # {}
  PROVE  /\ WellFormed(DropOldest(f), w)
         /\ Unbroken(f, w) =>
              /\ Unbroken(DropOldest(f), w)
              /\ Cardinality(Left(DropOldest(f))) = MaxFiles * MaxSize
<1>g. PICK g : g = DropOldest(f)
  OBVIOUS
<1> USE SlotsOK
<1>1. /\ f \in [Slots -> SUBSET (1..MaxBytes)] /\ g \in [Slots -> SUBSET (1..MaxBytes)]
      /\ g[MaxFiles] = {} /\ g[0] = f[0]
      /\ \A s \in Slots \ {MaxFiles} : g[s] = f[s]
  BY <1>g, SMT DEF WellFormed, DropOldest
<1>2. WellFormed(g, w)
  <2>1. \A s \in Slots : g[s] \in {f[s], {}}
    BY <1>1, SMT
  <2> QED
    BY <1>1, <2>1, Removed, Zenon
<1>3. ASSUME NEW lo \in 0..w, Placed(f, w, lo), NEW lost \in 0..w, Left(f) = Span(lost, w)
      PROVE  Unbroken(g, w) /\ Cardinality(Left(g)) = MaxFiles * MaxSize
  <2> DEFINE hi == End(f, lo, MaxFiles)
  <2>1. MaxFiles \in Volumes
    BY SMT
  <2>2. f[MaxFiles] = Span(hi - MaxSize, hi)
    BY <1>3, <2>1, Zenon DEF Placed
  <2>3. lo = w - MaxSize
    <3>1. f[0] = Span(lo, w) /\ f[0] = Span(w - MaxSize, w) /\ MaxSize <= w
      BY <1>3, Zenon DEF Placed, FullCurrent
    <3> QED
      BY <3>1, SMT DEF Span
  <2>4. hi = w - MaxFiles * MaxSize
    <3>1. Taken(f, MaxFiles) = 1..(MaxFiles - 1)
      BY SMT DEF Taken
    <3>2. Cardinality(1..(MaxFiles - 1)) = MaxFiles - 1
      BY FS_Interval, SMT
    <3> QED
      BY <2>3, <3>1, <3>2, SMT DEF End
  <2> HIDE DEF hi
  <2>5. hi \in f[MaxFiles] /\ hi \in 1..MaxBytes
    <3>1. hi \in Int
      BY <2>4, SMT
    <3>2. hi \in f[MaxFiles]
      BY <2>2, <3>1, SMT DEF Span
    <3>3. f[MaxFiles] \in SUBSET (1..MaxBytes)
      BY <1>1, <2>1, SMT
    <3> QED
      BY <3>2, <3>3, Zenon
  <2>6. lost < hi /\ hi <= w /\ hi \in Nat
    <3>1. hi \in Left(f)
      BY <2>1, <2>5, SMT DEF Left
    <3> QED
      BY <1>3, <2>5, <3>1, SMT DEF Span
  <2>7. Left(g) = Span(hi, w)
    <3>1. ASSUME NEW b \in Left(g) PROVE b \in Span(hi, w)
      <4>1. PICK s \in Slots : b \in g[s]
        BY <3>1, Zenon DEF Left
      <4>2. s # MaxFiles /\ b \in f[s] /\ s < MaxFiles
        BY <1>1, <4>1, SMT
      <4>3. hi < b
        BY <2>1, <2>5, <4>2, SMT DEF WellFormed, Ordered
      <4>4. b \in Span(lost, w)
        BY <1>3, <4>2, Zenon DEF Left
      <4> QED
        BY <2>6, <4>3, <4>4, SMT DEF Span
    <3>2. ASSUME NEW b \in Span(hi, w) PROVE b \in Left(g)
      <4>1. b \in Left(f)
        BY <1>3, <2>6, <3>2, SMT DEF Span
      <4>2. PICK s \in Slots : b \in f[s]
        BY <4>1, Zenon DEF Left
      <4>3. b \notin f[MaxFiles]
        BY <2>2, <2>4, <2>6, <3>2, SMT DEF Span
      <4> QED
        BY <1>1, <4>2, <4>3, SMT DEF Left
    <3> QED
      BY <3>1, <3>2, Zenon
  <2>8. Cardinality(Left(g)) = MaxFiles * MaxSize
    BY <2>4, <2>6, <2>7, SpanSize, SMT
  <2>9. Placed(g, w, lo)
    <3>1. ASSUME NEW s \in Volumes, g[s] # {}
          PROVE  g[s] = Span(End(g, lo, s) - MaxSize, End(g, lo, s))
      <4>1. s < MaxFiles /\ g[s] = f[s]
        BY <1>1, <3>1, SMT
      <4>2. Taken(g, s) = Taken(f, s)
        BY <1>1, <4>1, SMT DEF Taken
      <4> QED
        BY <1>3, <3>1, <4>1, <4>2, Zenon DEF Placed, End
    <3> QED
      BY <1>1, <1>3, <3>1, Zenon DEF Placed
  <2>10. hi \in 0..w
    BY <2>6, SMT
  <2> QED
    BY <2>7, <2>8, <2>9, <2>10, Zenon DEF Unbroken
<1> QED
  BY <1>g, <1>2, <1>3, Zenon DEF Unbroken

-----------------------------------------------------------------------------
(* Steps                                                                   *)

(* LosesOnlyOldest, of one step.                                           *)
KeepsOrFills ==
  \A d \in Recent :
    \/ Left(files[d]) \subseteq Left(files'[d])
    \/ Cardinality(Left(files'[d])) >= MaxFiles * MaxSize

(* What a step has to show of the files.                                   *)
FilesStep ==
  /\ FilesInv' /\ RecentInv' /\ KeepsOrFills
  /\ files' \in [Days -> [Slots -> SUBSET (1..MaxBytes)]]

(* What is known of the files of each date.                                *)
LEMMA FilesFacts ==
  ASSUME PlacesOK, FilesInv, NEW d \in Days
  PROVE  /\ written[d] \in Nat /\ written[d] <= MaxBytes
         /\ WellFormed(files[d], written[d]) /\ files[d] \in [Slots -> SUBSET (1..MaxBytes)]
BY SlotsOK, SMT DEF PlacesOK, FilesInv, WellFormed

(* No file changes.                                                        *)
LEMMA FilesStay ==
  ASSUME PlacesOK, FilesInv, RecentInv, UNCHANGED <<files, written, latest>>
  PROVE  FilesStep
BY Zenon DEF FilesStep, FilesInv, RecentInv, KeepsOrFills, Recent, PlacesOK

(* Cleanup removes files of dates that are not recent.                     *)
LEMMA CleanupStep ==
  ASSUME PlacesOK, FilesInv, RecentInv, Cleanup(day), UNCHANGED <<written, latest>>
  PROVE  FilesStep
<1>1. PICK locked \in SUBSET ({d \in Days : d + KeepDays < day} \X Slots) :
        files' = [d \in Days |-> [s \in Slots |->
                    IF d + KeepDays < day /\ <<d, s>> \notin locked THEN {} ELSE files[d][s]]]
  BY Zenon DEF Cleanup
<1>2. ASSUME NEW d \in Days PROVE WellFormed(files'[d], written[d])
  <2>1. files[d] \in [Slots -> SUBSET (1..MaxBytes)]
    BY FilesFacts, Zenon
  <2>2. files'[d] \in [Slots -> SUBSET (1..MaxBytes)]
    BY <1>1, <2>1, SMT
  <2>3. \A s \in Slots : files'[d][s] \in {files[d][s], {}}
    BY <1>1, <2>1, SMT
  <2> QED
    BY <2>2, <2>3, FilesFacts, Removed, Zenon
<1>3. files' \in [Days -> [Slots -> SUBSET (1..MaxBytes)]]
  <2>1. \A d \in Days : files'[d] \in [Slots -> SUBSET (1..MaxBytes)]
    BY <1>2, Zenon DEF WellFormed
  <2>2. files' = [d \in Days |-> files'[d]]
    BY <1>1, Zenon
  <2> QED
    BY <2>1, <2>2, Zenon
<1>4. ASSUME NEW d \in Recent PROVE d \in Days /\ files'[d] = files[d]
  <2>1. d \in Days /\ ~(d + KeepDays < day)
    BY LogAssumption, SMT DEF Recent, PlacesOK
  <2>2. files[d] \in [Slots -> SUBSET (1..MaxBytes)]
    BY <2>1, FilesFacts, Zenon
  <2>3. files'[d] = [s \in Slots |-> files[d][s]]
    BY <1>1, <2>1, Zenon
  <2> QED
    BY <2>1, <2>2, <2>3, SMT
<1>5. FilesInv'
  BY <1>2, Zenon DEF FilesInv
<1>6. RecentInv'
  BY <1>4, Zenon DEF RecentInv, Recent
<1>7. KeepsOrFills
  BY <1>4, Zenon DEF KeepsOrFills
<1> QED
  BY <1>3, <1>5, <1>6, <1>7, Zenon DEF FilesStep

(* The files of the date in w.path change.                                 *)
LEMMA PathStep ==
  ASSUME PlacesOK, FilesInv, RecentInv, latest' = latest,
         NEW g, files' = [files EXCEPT ![path] = g],
         \A d \in Days \ {path} : written'[d] = written[d],
         WellFormed(g, written'[path]),
         Unbroken(files[path], written[path]) =>
           /\ Unbroken(g, written'[path])
           /\ \/ Left(files[path]) \subseteq Left(g)
              \/ Cardinality(Left(g)) >= MaxFiles * MaxSize
  PROVE  FilesStep
<1>1. path \in Days /\ files \in [Days -> [Slots -> SUBSET (1..MaxBytes)]]
  BY Zenon DEF PlacesOK
<1>2. files'[path] = g /\ \A d \in Days \ {path} : files'[d] = files[d]
  BY <1>1, SMT
<1>3. files' \in [Days -> [Slots -> SUBSET (1..MaxBytes)]]
  <2>1. g \in [Slots -> SUBSET (1..MaxBytes)]
    BY Zenon DEF WellFormed
  <2> QED
    BY <1>1, <2>1, SMT
<1>4. FilesInv'
  BY <1>2, Zenon DEF FilesInv
<1>5. Recent' = Recent /\ Recent \subseteq Days
  BY Zenon DEF Recent
<1>6. ASSUME NEW d \in Recent
      PROVE  /\ Unbroken(files'[d], written'[d])
             /\ \/ Left(files[d]) \subseteq Left(files'[d])
                \/ Cardinality(Left(files'[d])) >= MaxFiles * MaxSize
  <2>1. Unbroken(files[d], written[d])
    BY Zenon DEF RecentInv
  <2>2. CASE d = path
    BY <1>2, <2>1, <2>2, Zenon
  <2>3. CASE d # path
    BY <1>5, <1>2, <2>1, <2>3, Zenon
  <2> QED
    BY <2>2, <2>3
<1> QED
  BY <1>4, <1>5, <1>6, <1>3, Zenon DEF FilesStep, RecentInv, KeepsOrFills

(* A file of the current date becomes the next volume.                     *)
LEMMA RenameStep ==
  ASSUME PlacesOK, FilesInv, RecentInv, RotateInv, pc = "shift", Rename(slot - 1, slot),
         UNCHANGED <<written, path, latest>>
  PROVE  /\ FilesStep
         /\ slot # 1 => files'[path][slot - 1] = {} /\ files'[path][0] = files[path][0]
<1>0. PICK f : f = files[path]
  OBVIOUS
<1>1. path \in Days /\ slot \in Volumes /\ files \in [Days -> [Slots -> SUBSET (1..MaxBytes)]]
  BY Zenon DEF PlacesOK
<1>2. slot \in Slots /\ slot - 1 \in Slots /\ slot - 1 # slot /\ 0 \in Slots
  BY <1>1, SlotsOK, SMT
<1>3. /\ f \in [Slots -> SUBSET (1..MaxBytes)] /\ WellFormed(f, written[path])
      /\ written[path] \in Nat
  BY <1>0, <1>1, FilesFacts, Zenon
<1>4. files' = [files EXCEPT ![path] = MoveUp(f, slot)]
  <2>1. /\ files' \in [Days -> [Slots -> SUBSET (1..MaxBytes)]]
        /\ \A d \in Days \ {path} : files'[d] = files[d]
    BY <1>1, <1>2, <1>3, SMT DEF Rename
  <2>2. files'[path] = MoveUp(f, slot)
    <3>1. /\ MoveUp(f, slot) \in [Slots -> SUBSET (1..MaxBytes)]
          /\ files'[path] \in [Slots -> SUBSET (1..MaxBytes)]
      BY <1>1, <1>2, <1>3, <2>1, SMT DEF MoveUp
    <3>2. \A s \in Slots : files'[path][s] = MoveUp(f, slot)[s]
      BY <1>0, <1>1, <1>2, <1>3, SMT DEF Rename, MoveUp
    <3> QED
      BY <3>1, <3>2, SMT
  <2> QED
    BY <1>1, <2>1, <2>2, SMT
<1>5. f[slot] = {} /\ (slot = 1 => FullCurrent(f, written[path]))
  BY <1>0, Zenon DEF RotateInv
<1>6. /\ WellFormed(MoveUp(f, slot), written[path])
      /\ Unbroken(f, written[path]) => Unbroken(MoveUp(f, slot), written[path])
      /\ Left(MoveUp(f, slot)) = Left(f)
  BY <1>1, <1>3, <1>5, Moved, Zenon
<1>7. FilesStep
  BY <1>0, <1>4, <1>6, PathStep, Zenon
<1>8. slot # 1 => files'[path][slot - 1] = {} /\ files'[path][0] = f[0]
  BY <1>1, <1>2, <1>3, <1>4, SlotsOK, SMT DEF MoveUp
<1> QED
  BY <1>0, <1>7, <1>8, Zenon

-----------------------------------------------------------------------------
(* The inductive invariant and its consequences                            *)

(* TypeOK, with its sizes, from where the bytes are.                       *)
LEMMA IndTypes == IndInv => TypeOK
<1> SUFFICES ASSUME IndInv PROVE TypeOK
  OBVIOUS
<1>1. files \in [Days -> [Slots -> SUBSET (1..MaxBytes)]]
  BY Zenon DEF IndInv, PlacesOK
<1>2. ASSUME NEW d \in Days
      PROVE  Size(d, 0) <= MaxSize /\ \A s \in Volumes : Size(d, s) \in {0, MaxSize}
  <2> DEFINE w == written[d]
  <2>1. w \in Nat /\ Current(files[d], w) /\ \A s \in Volumes : Volume(files[d], w, s)
    BY FilesFacts, Zenon DEF IndInv, WellFormed
  <2>2. Size(d, 0) <= MaxSize
    <3>1. PICK lo \in 0..w : files[d][0] = Span(lo, w) /\ w - lo <= MaxSize
      BY <2>1, Zenon DEF Current
    <3>2. Cardinality(Span(lo, w)) = w - lo
      BY <2>1, SpanSize, SMT
    <3> QED
      BY <3>1, <3>2, SMT DEF Size
  <2>3. ASSUME NEW s \in Volumes PROVE Size(d, s) \in {0, MaxSize}
    <3>1. CASE files[d][s] = {}
      BY <3>1, FS_EmptySet, Zenon DEF Size
    <3>2. CASE files[d][s] # {}
      <4>1. PICK hi \in MaxSize..w : files[d][s] = Span(hi - MaxSize, hi)
        BY <2>1, <3>2, Zenon DEF Volume
      <4>2. Cardinality(Span(hi - MaxSize, hi)) = MaxSize
        BY <2>1, SlotsOK, SpanSize, SMT
      <4> QED
        BY <4>1, <4>2, Zenon DEF Size
    <3> QED
      BY <3>1, <3>2
  <2> QED
    BY <2>2, <2>3
<1> QED
  BY <1>1, <1>2, Zenon DEF IndInv, PlacesOK, FlagsOK, TypeOK

(* No byte has been written.                                               *)
LEMMA InitInd == Init => IndInv
<1> SUFFICES ASSUME Init PROVE IndInv
  OBVIOUS
<1> DEFINE f == [s \in Slots |-> {}]
<1>1. PlacesOK /\ RotateInv
  BY LogAssumption, SlotsOK, SMT DEF Init, PlacesOK, RotateInv
<1>2. FlagsOK
  BY Zenon DEF Init, FlagsOK
<1>3. WellFormed(f, 0)
  BY SlotsOK, NoSpan, SMT DEF WellFormed, Current, Volume, Ordered
<1>4. Unbroken(f, 0)
  <2>1. f[0] = Span(0, 0) /\ Left(f) = Span(0, 0) /\ 0 \in 0..0
    BY SlotsOK, NoSpan, SMT DEF Left
  <2>2. Placed(f, 0, 0)
    BY <2>1, SlotsOK, SMT DEF Placed
  <2> QED
    BY <2>1, <2>2, Zenon DEF Unbroken
<1>5. \A d \in Days : files[d] = f /\ written[d] = 0
  BY Zenon DEF Init
<1>6. FilesInv /\ RecentInv
  BY <1>3, <1>4, <1>5, Zenon DEF FilesInv, RecentInv, Recent
<1> QED
  BY <1>1, <1>2, <1>6, Zenon DEF IndInv

(* Opening and closing, a new date, an error and a crash.                  *)
LEMMA WriterSteps ==
  ASSUME IndInv,
         Startup \/ Crash \/ WriteNewDate \/ NewDateFails \/ WriteSameDate \/ Open
           \/ Full \/ WriteDone \/ RotateFails
  PROVE  PlacesOK' /\ RotateInv' /\ FilesStep
<1> USE LogAssumption DEF IndInv, PlacesOK, RotateInv, Written
<1>1. CASE Startup
  <2>1. FilesStep
    BY <1>1, CleanupStep, Zenon DEF Startup
  <2> QED
    BY <1>1, <2>1, SMT DEF Startup, FilesStep
<1>2. CASE Crash
  <2>1. FilesStep
    BY <1>2, FilesStay, Zenon DEF Crash
  <2> QED
    BY <1>2, <2>1, SMT DEF Crash, FilesStep
<1>3. CASE WriteNewDate
  <2>1. FilesStep
    BY <1>3, CleanupStep, Zenon DEF WriteNewDate
  <2> QED
    BY <1>3, <2>1, SMT DEF WriteNewDate, FilesStep
<1>4. CASE NewDateFails
  <2>1. FilesStep
    BY <1>4, FilesStay, Zenon DEF NewDateFails
  <2> QED
    BY <1>4, <2>1, SMT DEF NewDateFails, FilesStep
<1>5. CASE WriteSameDate
  <2>1. FilesStep
    BY <1>5, CleanupStep, FilesStay, Zenon DEF WriteSameDate
  <2> QED
    BY <1>5, <2>1, SMT DEF WriteSameDate, FilesStep
<1>6. CASE Open
  <2>1. FilesStep
    BY <1>6, FilesStay, Zenon DEF Open, Written
  <2> QED
    BY <1>6, <2>1, SMT DEF Open, FilesStep
<1>7. CASE Full
  <2>1. FilesStep
    BY <1>7, FilesStay, Zenon DEF Full, Written
  <2>2. FullCurrent(files[path], written[path])
    <3>1. Current(files[path], written[path]) /\ written[path] \in Nat
      BY FilesFacts, Zenon DEF WellFormed
    <3>2. PICK lo \in 0..written[path] : files[path][0] = Span(lo, written[path])
      BY <3>1, Zenon DEF Current
    <3>3. Cardinality(Span(lo, written[path])) = written[path] - lo
      BY <3>1, SpanSize, SMT
    <3>4. lo = written[path] - MaxSize
      BY <1>7, <3>1, <3>2, <3>3, SMT DEF Full, Size
    <3> QED
      BY <3>1, <3>2, <3>4, SMT DEF FullCurrent
  <2> QED
    BY <1>7, <2>1, <2>2, SMT DEF Full, FilesStep
<1>8. CASE WriteDone
  <2>1. FilesStep
    BY <1>8, FilesStay, Zenon DEF WriteDone, Written
  <2> QED
    BY <1>8, <2>1, SMT DEF WriteDone, FilesStep
<1>9. CASE RotateFails
  <2>1. FilesStep
    BY <1>9, FilesStay, Zenon DEF RotateFails, Written
  <2> QED
    BY <1>9, <2>1, SMT DEF RotateFails, FilesStep
<1> QED
  BY <1>1, <1>2, <1>3, <1>4, <1>5, <1>6, <1>7, <1>8, <1>9, Zenon

(* A part of a chunk is appended.                                          *)
LEMMA AppendStep ==
  ASSUME IndInv, Append
  PROVE  PlacesOK' /\ RotateInv' /\ FilesStep
<1>1. PlacesOK /\ FilesInv /\ RecentInv
  BY Zenon DEF IndInv
<1>2. /\ path \in Days /\ files \in [Days -> [Slots -> SUBSET (1..MaxBytes)]]
      /\ written \in [Days -> 0..MaxBytes] /\ left \in 0..MaxWrite
  BY <1>1, Zenon DEF PlacesOK
<1>3. PICK f, w : f = files[path] /\ w = written[path]
  OBVIOUS
<1>4. w \in Nat /\ WellFormed(f, w) /\ f \in [Slots -> SUBSET (1..MaxBytes)]
  BY <1>1, <1>2, <1>3, FilesFacts, Zenon
<1>5. PICK n \in 0..Chunk :
        /\ files' = [files EXCEPT ![path][0] = @ \cup ((written[path] + 1)..(written[path] + n))]
        /\ written' = [written EXCEPT ![path] = @ + n]
        /\ \/ /\ n = Chunk /\ left' = left - n
              /\ UNCHANGED <<day, latest, path, isOpen, pc, slot, backoff>>
           \/ Written(TRUE) /\ isOpen' = FALSE
  BY Zenon DEF Append
<1>6. n \in Nat /\ w + n <= MaxBytes /\ n <= MaxSize - Cardinality(f[0]) /\ n <= left
  <2>1. Cardinality(f[0]) \in Int
    <3>1. PICK lo \in 0..w : f[0] = Span(lo, w)
      BY <1>4, Zenon DEF WellFormed, Current
    <3>2. Cardinality(Span(lo, w)) = w - lo
      BY <1>4, SpanSize, SMT
    <3> QED
      BY <1>4, <3>1, <3>2, SMT
  <2>2. w + Chunk <= MaxBytes /\ left > 0 /\ Size(path, 0) < MaxSize
    BY <1>3, Zenon DEF Append
  <2>3. Size(path, 0) = Cardinality(f[0])
    BY <1>3, Zenon DEF Size
  <2> QED
    BY <1>2, <1>4, <1>5, <2>1, <2>2, <2>3, SlotsOK, SMT DEF Chunk, Least
<1>7. files' = [files EXCEPT ![path] = Add(f, w, n)]
  BY <1>2, <1>3, <1>4, <1>5, SMT DEF Add
<1>8. /\ written' \in [Days -> 0..MaxBytes] /\ written'[path] = w + n
      /\ \A d \in Days \ {path} : written'[d] = written[d]
  BY <1>2, <1>3, <1>4, <1>5, <1>6, SlotsOK, SMT
<1>9. latest' = latest /\ day' = day /\ path' = path /\ slot' = slot
  BY <1>5, Zenon DEF Written
<1>10. FilesStep
  <2>1. /\ WellFormed(Add(f, w, n), w + n)
        /\ Unbroken(f, w) => Unbroken(Add(f, w, n), w + n)
        /\ Left(f) \subseteq Left(Add(f, w, n))
    BY <1>4, <1>6, Appended, Zenon
  <2> QED
    BY <1>1, <1>3, <1>7, <1>8, <1>9, <2>1, PathStep, Zenon
<1>11. left' \in 0..MaxWrite /\ pc' \in {"idle", "write"}
  <2>1. pc = "write"
    BY Zenon DEF Append
  <2> QED
    BY <1>2, <1>5, <1>6, <2>1, LogAssumption, SMT DEF Written
<1> QED
  BY <1>1, <1>8, <1>9, <1>10, <1>11, SMT DEF PlacesOK, FilesStep, RotateInv

(* rotate looks for a vacant slot, or makes one.                           *)
LEMMA FindSlotStep ==
  ASSUME IndInv, FindSlot
  PROVE  PlacesOK' /\ RotateInv' /\ FilesStep
<1>1. PlacesOK /\ FilesInv /\ RecentInv
  BY Zenon DEF IndInv
<1>2. path \in Days /\ files \in [Days -> [Slots -> SUBSET (1..MaxBytes)]]
  BY <1>1, Zenon DEF PlacesOK
<1>3. PICK f, w : f = files[path] /\ w = written[path]
  OBVIOUS
<1>4. /\ w \in Nat /\ WellFormed(f, w) /\ f \in [Slots -> SUBSET (1..MaxBytes)]
      /\ FullCurrent(f, w)
  <2>1. FullCurrent(f, w)
    BY <1>3, SMT DEF FindSlot, IndInv, RotateInv
  <2> QED
    BY <1>1, <1>2, <1>3, <2>1, FilesFacts, Zenon
<1>5. pc' = "shift" /\ UNCHANGED <<day, latest, written, path, left>>
  BY Zenon DEF FindSlot, Rotating
<1>6. CASE slot' \in Vacant /\ UNCHANGED files
  <2>1. slot' \in Volumes /\ files[path][slot'] = {}
    BY <1>6, Zenon DEF Vacant
  <2>2. FilesStep
    BY <1>1, <1>5, <1>6, FilesStay, Zenon
  <2>3. FullCurrent(f, w)'
    BY <1>4, Zenon
  <2> QED
    BY <1>1, <1>3, <1>4, <1>5, <1>6, <2>1, <2>2, Zenon DEF PlacesOK, FilesStep, RotateInv
<1>7. CASE /\ Vacant = {} /\ slot' = MaxFiles
           /\ files' = [files EXCEPT ![path][MaxFiles] = {}]
  <2>1. \A s \in Volumes : f[s] # {}
    BY <1>3, <1>7, Zenon DEF Vacant
  <2>2. files' = [files EXCEPT ![path] = DropOldest(f)]
    BY <1>2, <1>3, <1>4, <1>7, SlotsOK, SMT DEF DropOldest
  <2>3. /\ WellFormed(DropOldest(f), w)
        /\ Unbroken(f, w) =>
             /\ Unbroken(DropOldest(f), w)
             /\ Cardinality(Left(DropOldest(f))) >= MaxFiles * MaxSize
    <3>1. MaxFiles * MaxSize >= MaxFiles * MaxSize
      BY SlotsOK, SMT
    <3> QED
      BY <1>4, <2>1, <3>1, Dropped, Zenon
  <2>4. FilesStep
    BY <1>1, <1>3, <1>5, <2>2, <2>3, PathStep, Zenon
  <2>5. files'[path] = DropOldest(f)
    BY <1>2, <2>2, SMT
  <2>6. FullCurrent(DropOldest(f), w) /\ DropOldest(f)[MaxFiles] = {} /\ MaxFiles \in Volumes
    BY <1>4, SlotsOK, SMT DEF FullCurrent, DropOldest
  <2> QED
    BY <1>1, <1>3, <1>5, <1>7, <2>4, <2>5, <2>6, Zenon DEF PlacesOK, FilesStep, RotateInv
<1> QED
  BY <1>6, <1>7, Zenon DEF FindSlot

(* rotate renames one file.                                                *)
LEMMA ShiftSteps ==
  ASSUME IndInv, Shift \/ ShiftCurrent
  PROVE  PlacesOK' /\ RotateInv' /\ FilesStep
<1>1. PlacesOK /\ FilesInv /\ RecentInv /\ RotateInv
  BY Zenon DEF IndInv
<1>2. CASE Shift
  <2>1. /\ pc = "shift" /\ pc' = pc /\ slot # 1 /\ slot' = slot - 1 /\ Rename(slot - 1, slot)
        /\ UNCHANGED <<day, latest, written, path, left>>
    BY <1>2, Zenon DEF Shift, LastSlot, Source, Rotating
  <2>2. FilesStep /\ files'[path][slot - 1] = {} /\ files'[path][0] = files[path][0]
    BY <1>1, <2>1, RenameStep, Zenon
  <2>3. RotateInv'
    BY <1>1, <2>1, <2>2, SMT DEF RotateInv, FullCurrent
  <2>4. slot' \in Volumes
    BY <1>1, <2>1, SlotsOK, SMT DEF PlacesOK
  <2> QED
    BY <1>1, <2>1, <2>2, <2>3, <2>4, Zenon DEF PlacesOK, FilesStep
<1>3. CASE ShiftCurrent
  <2>1. /\ pc = "shift" /\ pc' = "write" /\ slot = 1 /\ Rename(0, 1)
        /\ UNCHANGED <<day, latest, written, path, left, slot>>
    BY <1>3, Zenon DEF ShiftCurrent, LastSlot, Rotating
  <2>2. Rename(slot - 1, slot)
    <3>1. slot - 1 = 0
      BY <2>1, SMT
    <3> QED
      BY <2>1, <3>1, Zenon
  <2>3. FilesStep
    BY <1>1, <2>1, <2>2, RenameStep, Zenon
  <2> QED
    BY <1>1, <2>1, <2>3, SMT DEF PlacesOK, FilesStep, RotateInv
<1> QED
  BY <1>2, <1>3

(* A date that is no longer recent has less to answer for.                 *)
LEMMA ClockSteps ==
  ASSUME IndInv, DateChanges \/ SecondPasses
  PROVE  PlacesOK' /\ RotateInv' /\ FilesStep
<1>1. PlacesOK /\ FilesInv /\ RecentInv /\ RotateInv
  BY Zenon DEF IndInv
<1>2. CASE SecondPasses
  <2>1. FilesStep
    BY <1>1, <1>2, FilesStay, Zenon DEF SecondPasses
  <2> QED
    BY <1>1, <1>2, <2>1, SMT DEF SecondPasses, PlacesOK, FilesStep, RotateInv
<1>3. CASE DateChanges
  <2>1. UNCHANGED <<files, written, path, pc, left, slot>>
    BY <1>3, Zenon DEF DateChanges
  <2>2. day' \in Days /\ latest' \in Days /\ day' <= latest' /\ latest <= latest'
    BY <1>1, <1>3, LogAssumption, SMT DEF DateChanges, PlacesOK
  <2>3. Recent' \subseteq Recent
    <3>1. /\ latest \in Nat /\ latest' \in Nat /\ KeepDays \in Nat
          /\ \A d \in Days : d \in Nat
      BY <1>1, <2>2, LogAssumption, SMT DEF PlacesOK
    <3>2. \A d \in Days : d + KeepDays >= latest' => d + KeepDays >= latest
      BY <2>2, <3>1, SMT
    <3> QED
      BY <3>2, Zenon DEF Recent
  <2>4. FilesInv' /\ RecentInv' /\ KeepsOrFills
    BY <1>1, <2>1, <2>3, Zenon DEF FilesInv, RecentInv, KeepsOrFills
  <2> QED
    BY <1>1, <2>1, <2>2, <2>4, Zenon DEF PlacesOK, FilesStep, RotateInv
<1> QED
  BY <1>2, <1>3

(* The truth values of the state remain so.                                *)
LEMMA FlagStep ==
  ASSUME FlagsOK, [Next]_vars
  PROVE  FlagsOK'
<1> USE DEF FlagsOK, Written, Rotating
<1>1. CASE Startup \/ Crash \/ WriteNewDate \/ NewDateFails \/ WriteSameDate
  BY <1>1, Zenon DEF Startup, Crash, WriteNewDate, NewDateFails, WriteSameDate
<1>2. CASE Open \/ Append \/ Full \/ WriteDone \/ RotateFails
  BY <1>2, Zenon DEF Open, Append, Full, WriteDone, RotateFails
<1>3. CASE FindSlot \/ Shift \/ ShiftCurrent \/ DateChanges \/ SecondPasses
  BY <1>3, Zenon DEF FindSlot, Shift, ShiftCurrent, DateChanges, SecondPasses
<1>4. CASE UNCHANGED vars
  BY <1>4, Zenon DEF vars
<1> QED
  BY <1>1, <1>2, <1>3, <1>4, Zenon DEF Next

(* Every step keeps the invariant, and the bytes that LosesOnlyOldest tells.*)
LEMMA StepInd ==
  ASSUME IndInv, [Next]_vars
  PROVE  IndInv' /\ KeepsOrFills
<1>1. CASE UNCHANGED vars
  <2>1. FilesStep
    BY <1>1, FilesStay, Zenon DEF IndInv, vars
  <2> QED
    BY <1>1, <2>1, FlagStep, Zenon DEF vars, IndInv, PlacesOK, RotateInv, FilesStep
<1>2. CASE Next
  <2>1. PlacesOK' /\ RotateInv' /\ FilesStep
    BY <1>2, WriterSteps, AppendStep, FindSlotStep, ShiftSteps, ClockSteps, Zenon DEF Next
  <2> QED
    BY <2>1, FlagStep, Zenon DEF IndInv, FilesStep
<1> QED
  BY <1>1, <1>2

-----------------------------------------------------------------------------
(* The inductive invariant: every file is a run of bytes, and the volumes  *)
(* of a recent date follow each other.                                     *)
THEOREM Inductive == Spec => []IndInv
<1>1. IndInv /\ [Next]_vars => IndInv'
  BY StepInd, Zenon
<1> QED
  BY <1>1, InitInd, PTL DEF Spec

(* No file ever exceeds the limit, and what is rotated away is full.       *)
THEOREM Types == Spec => []TypeOK
BY IndTypes, Inductive, PTL

(* Whatever failed or crashed, the log reads in the order it was written   *)
(* in, and only the beginning of a recent date may be missing.             *)
THEOREM LogInOrder == Spec => []InOrder
<1>1. IndInv => InOrder
  <2> SUFFICES ASSUME IndInv PROVE InOrder
    OBVIOUS
  <2>1. \A d \in Days : Ordered(files[d])
    BY Zenon DEF IndInv, FilesInv, WellFormed
  <2>2. \A d \in Recent : \E lost \in 0..written[d] : Left(files[d]) = Span(lost, written[d])
    BY Zenon DEF IndInv, RecentInv, Unbroken
  <2> QED
    BY <2>1, <2>2, Zenon DEF InOrder, Ordered, Kept, Left, Span
<1> QED
  BY <1>1, Inductive, PTL

(* Bytes of a recent date are given up only by a rotation that leaves      *)
(* MaxFiles full files (writer.go:197-198).                                *)
THEOREM OnlyOldestLost == Spec => LosesOnlyOldest
<1>1. IndInv /\ [Next]_vars =>
        [\A d \in Recent :
           \/ Kept(d) \subseteq Kept(d)'
           \/ Cardinality(Kept(d)') >= MaxFiles * MaxSize]_vars
  BY StepInd, Zenon DEF KeepsOrFills, Kept, Left
<1> QED
  BY <1>1, Inductive, PTL DEF Spec, LosesOnlyOldest
=============================================================================
