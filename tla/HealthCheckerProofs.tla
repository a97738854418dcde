------------------------- MODULE HealthCheckerProofs -------------------------
(***************************************************************************)
(* Theorems about HealthChecker, for any nodes and any number of           *)
(* schedulers and of goroutines that call CheckAll.                        *)
(*                                                                         *)
(* That Stop joins the rounds rests on the counter of the WaitGroup:       *)
(* IndInv says what it counts, that the set it counts is finite, and that  *)
(* nothing registers once stopped is set.  One scheduler at most lives     *)
(* because Start is refused while isRunning, and Stop, which clears that,  *)
(* has waited for the scheduler before its caller can start again.         *)
(***************************************************************************)
EXTENDS HealthChecker, FiniteSetTheorems, TLAPS

Working == {g \in Rounds : InRound(g)}

\* TypeOK in two parts: what is not a truth value, and what is.
PlacesOK ==
  /\ config.nodes \subseteq Nodes
  /\ DOMAIN results \subseteq Nodes
  /\ allDown \in 0..MaxDown
  /\ current \in Schedulers \cup {None} /\ closed \subseteq Schedulers
  /\ checkMux \in Rounds \cup {None}
  /\ owner \in {"idle", "wait", "set"}
  /\ pc \in [Rounds -> Pcs]
  /\ todo \in [Rounds -> SUBSET Nodes] /\ flying \in [Rounds -> SUBSET Nodes]

FlagsOK ==
  /\ coreUp \in BOOLEAN /\ stopped \in BOOLEAN /\ isRunning \in BOOLEAN
  /\ callback \in BOOLEAN
  /\ config \in Configs
  /\ \A n \in DOMAIN results : results[n] \in BOOLEAN

(* checkMux has the holder it should have.                                 *)
MutexInv ==
  \A g \in Rounds : checkMux = g <=> pc[g] \in {"admitted", "probing", "recovering"}

(* The WaitGroup counts schedulers and rounds.                             *)
CountInv ==
  /\ IsFiniteSet(Live) /\ IsFiniteSet(Working)
  /\ wg = Cardinality(Live) + Cardinality(Working)

(* The scheduler that lives is the one of the last Start, and none does    *)
(* when a Start may begin.                                                 *)
SchedulerInv ==
  /\ Live \subseteq {current}
  /\ ~isRunning /\ owner # "wait" => Live = {}

(* While Stop waits nothing registers.                                     *)
StopInv ==
  /\ isRunning => ~stopped
  /\ owner = "wait" => stopped

IndInv ==
  /\ PlacesOK /\ FlagsOK /\ MutexInv /\ CountInv /\ SchedulerInv /\ StopInv /\ StopJoins
-----------------------------------------------------------------------------
(* TypeOK is part of the inductive invariant.                              *)
LEMMA IndTypes == IndInv => TypeOK
<1> SUFFICES ASSUME IndInv PROVE TypeOK
  OBVIOUS
<1>1. CountsOK
  BY DEF IndInv, CountInv, MutexInv, CountsOK, Working
<1>2. Live = {} \/ Live = {current}
  BY DEF IndInv, SchedulerInv
<1>3. Cardinality({}) = 0 /\ Cardinality({current}) = 1
  BY FS_EmptySet, FS_Singleton
<1>4. Cardinality(Live) <= 1
  BY <1>2, <1>3
<1> QED
  BY <1>1, <1>4, Zenon DEF IndInv, PlacesOK, FlagsOK, TypeOK

-----------------------------------------------------------------------------
(* What the WaitGroup counts *)

RoundPcs == {"queued", "admitted", "probing", "recovering"}

(* What goroutine g counts for in the WaitGroup where it stands at p.      *)
Weight(g, p) ==
  (IF g \in Schedulers /\ p # "dead" THEN 1 ELSE 0) + (IF p \in RoundPcs THEN 1 ELSE 0)

(* How the two counted sets change when one goroutine moves.               *)
LEMMA SetsMove ==
  ASSUME PlacesOK, NEW g \in Rounds, NEW from \in Pcs, NEW to \in Pcs, Goto(g, from, to)
  PROVE  /\ Live' = IF g \in Schedulers /\ to # "dead" THEN Live \cup {g} ELSE Live \ {g}
         /\ Working' = IF to \in RoundPcs THEN Working \cup {g} ELSE Working \ {g}
  BY SMT DEF PlacesOK, Goto, Live, Working, InRound, RoundPcs, Rounds

(* The counter stays right when it changes by the weight of that move.     *)
LEMMA CountMoves ==
  ASSUME PlacesOK, CountInv, NEW g \in Rounds, NEW from \in Pcs, NEW to \in Pcs,
         Goto(g, from, to), wg' = wg + Weight(g, to) - Weight(g, from)
  PROVE  CountInv'
<1>1. /\ g \in Live <=> g \in Schedulers /\ from # "dead"
      /\ g \in Working <=> from \in RoundPcs
  BY DEF Goto, Live, Working, InRound, RoundPcs
<1>2. /\ IsFiniteSet(Live') /\ Cardinality(Live) \in Nat
      /\ Cardinality(Live') =
           Cardinality(Live) + (IF g \in Schedulers /\ to # "dead" THEN 1 ELSE 0)
                             - (IF g \in Schedulers /\ from # "dead" THEN 1 ELSE 0)
  <2>1. IsFiniteSet(Live) /\ Cardinality(Live) \in Nat
    BY FS_CardinalityType DEF CountInv
  <2>2. /\ IsFiniteSet(Live \cup {g}) /\ IsFiniteSet(Live \ {g})
        /\ Cardinality(Live \cup {g}) =
             IF g \in Live THEN Cardinality(Live) ELSE Cardinality(Live) + 1
        /\ Cardinality(Live \ {g}) =
             IF g \in Live THEN Cardinality(Live) - 1 ELSE Cardinality(Live)
    BY <2>1, FS_AddElement, FS_RemoveElement
  <2> QED
    BY <1>1, <2>1, <2>2, SetsMove
<1>3. /\ IsFiniteSet(Working') /\ Cardinality(Working) \in Nat
      /\ Cardinality(Working') =
           Cardinality(Working) + (IF to \in RoundPcs THEN 1 ELSE 0)
                                - (IF from \in RoundPcs THEN 1 ELSE 0)
  <2>1. IsFiniteSet(Working) /\ Cardinality(Working) \in Nat
    BY FS_CardinalityType DEF CountInv
  <2>2. /\ IsFiniteSet(Working \cup {g}) /\ IsFiniteSet(Working \ {g})
        /\ Cardinality(Working \cup {g}) =
             IF g \in Working THEN Cardinality(Working) ELSE Cardinality(Working) + 1
        /\ Cardinality(Working \ {g}) =
             IF g \in Working THEN Cardinality(Working) - 1 ELSE Cardinality(Working)
    BY <2>1, FS_AddElement, FS_RemoveElement
  <2>3. Working' = IF to \in RoundPcs THEN Working \cup {g} ELSE Working \ {g}
    BY SetsMove
  <2>4. CASE to \in RoundPcs
    BY <1>1, <2>1, <2>2, <2>3, <2>4
  <2>5. CASE to \notin RoundPcs
    BY <1>1, <2>1, <2>2, <2>3, <2>5
  <2> QED
    BY <2>4, <2>5
<1>4. wg = Cardinality(Live) + Cardinality(Working)
  BY DEF CountInv
<1> QED
  BY <1>2, <1>3, <1>4 DEF CountInv, Weight

(* The counter is zero when nothing is counted, and only then.             *)
LEMMA CountZero ==
  ASSUME CountInv
  PROVE  wg \in Nat /\ (wg = 0 <=> Live = {} /\ Working = {})
<1>1. Cardinality(Live) \in Nat /\ Cardinality(Working) \in Nat
  BY FS_CardinalityType DEF CountInv
<1>2. /\ Cardinality(Live) = 0 <=> Live = {}
      /\ Cardinality(Working) = 0 <=> Working = {}
  BY FS_EmptySet DEF CountInv
<1> QED
  BY <1>1, <1>2 DEF CountInv

-----------------------------------------------------------------------------
(* No goroutine runs.                                                      *)
LEMMA InitInd == Init => IndInv
<1> SUFFICES ASSUME Init PROVE IndInv
  OBVIOUS
<1>1. Live = {} /\ Working = {}
  BY DEF Init, Live, Working, InRound, Rounds
<1>2. CountInv
  BY <1>1, FS_EmptySet DEF Init, CountInv
<1>3. PlacesOK
  BY HealthAssumption, SMT DEF Init, PlacesOK, Configs, Pcs
<1>4. FlagsOK
  BY Zenon DEF Init, FlagsOK
<1>5. MutexInv /\ SchedulerInv /\ StopInv /\ StopJoins
  BY <1>1, HealthAssumption DEF Init, MutexInv, SchedulerInv, StopInv, StopJoins, Rounds
<1> QED
  BY <1>2, <1>3, <1>4, <1>5 DEF IndInv

(* The truth values.                                                       *)
LEMMA FlagStep == ASSUME FlagsOK, [Next]_vars PROVE FlagsOK'
<1> USE DEF FlagsOK, state, probes, Silent
<1>1. CASE UNCHANGED vars
  BY <1>1, Zenon DEF vars
<1>2. CASE Start
  BY <1>2, Zenon DEF Start, StartsUnstopped
<1>3. CASE Stop \/ StopReturns
  BY <1>3, Zenon DEF Stop, StopReturns
<1>4. CASE SetConfig
  BY <1>4, Zenon DEF SetConfig
<1>5. CASE CoreChanges
  BY <1>5, Zenon DEF CoreChanges
<1>6. ASSUME NEW g \in Rounds, Admit(g) \/ ManualCheck(g) \/ Skip(g) \/ Register(g)
             \/ Abandon(g) \/ ProbeAll(g) \/ Judge(g) \/ RecoveryEnds(g)
      PROVE  FlagsOK'
  BY <1>6, Zenon DEF Admit, ManualCheck, Skip, Register, Abandon, ProbeAll, Judge,
     RecoveryEnds
<1>7. ASSUME NEW g \in Rounds, NEW n \in Nodes, ProbeBegins(g, n) PROVE FlagsOK'
  BY <1>7, Zenon DEF ProbeBegins
<1>8. ASSUME NEW g \in Rounds, NEW n \in Nodes, ProbeReports(g, n) PROVE FlagsOK'
  BY <1>8, Zenon DEF ProbeReports
<1>9. ASSUME NEW s \in Schedulers, Tick(s) \/ SchedulerStops(s) PROVE FlagsOK'
  BY <1>9, Zenon DEF Tick, SchedulerStops
<1> QED
  BY <1>1, <1>2, <1>3, <1>4, <1>5, <1>6, <1>7, <1>8, <1>9, Zenon DEF Next, RoundStep

-----------------------------------------------------------------------------
(* A goroutine that is not created by this step moves, and does not        *)
(* register while stopped.                                                 *)
LEMMA GoroutineKeeps ==
  ASSUME IndInv, NEW g \in Rounds, NEW from \in Pcs \ {"dead"}, NEW to \in Pcs,
         Goto(g, from, to), wg' = wg + Weight(g, to) - Weight(g, from),
         UNCHANGED <<stopped, isRunning, owner, current>>,
         stopped /\ to \in RoundPcs => from \in RoundPcs
  PROVE  CountInv' /\ SchedulerInv' /\ StopInv' /\ StopJoins'
<1>1. PlacesOK /\ CountInv /\ SchedulerInv /\ StopInv /\ StopJoins
  BY DEF IndInv
<1>2. CountInv'
  BY <1>1, CountMoves
<1>3. /\ Live' = IF g \in Schedulers /\ to # "dead" THEN Live \cup {g} ELSE Live \ {g}
      /\ Working' = IF to \in RoundPcs THEN Working \cup {g} ELSE Working \ {g}
  BY <1>1, SetsMove
<1>4. /\ g \in Schedulers => g \in Live
      /\ g \in Working <=> from \in RoundPcs
  BY DEF Goto, Live, Working, InRound, RoundPcs
<1>5. SchedulerInv' /\ StopInv'
  BY <1>1, <1>3, <1>4 DEF SchedulerInv, StopInv
<1>6. ASSUME stopped, owner # "wait" PROVE Live' = {} /\ Working' = {}
  <2>1. Live = {} /\ Working = {}
    BY <1>1, <1>6 DEF StopJoins, Working
  <2> QED
    BY <1>3, <1>4, <1>6, <2>1
<1>7. StopJoins'
  BY <1>6 DEF StopJoins, Working
<1> QED
  BY <1>2, <1>5, <1>7

(* A step that moves no goroutine and is not the owner's.                  *)
LEMMA QuietKeeps ==
  ASSUME IndInv, UNCHANGED <<pc, wg, checkMux, stopped, isRunning, owner, current>>
  PROVE  MutexInv' /\ CountInv' /\ SchedulerInv' /\ StopInv' /\ StopJoins'
<1>1. Live' = Live /\ Working' = Working
  BY DEF Live, Working, InRound
<1>2. MutexInv' /\ StopInv'
  BY DEF IndInv, MutexInv, StopInv
<1>3. CountInv' /\ SchedulerInv'
  BY <1>1 DEF IndInv, CountInv, SchedulerInv
<1>4. StopJoins'
  BY <1>1 DEF IndInv, StopJoins, Working
<1> QED
  BY <1>2, <1>3, <1>4

(* Start, Stop and SetConfig.                                              *)
LEMMA OwnerSteps ==
  ASSUME IndInv, Start \/ Stop \/ StopReturns \/ SetConfig \/ CoreChanges
  PROVE  PlacesOK' /\ MutexInv' /\ CountInv' /\ SchedulerInv' /\ StopInv' /\ StopJoins'
<1> USE HealthAssumption DEF state, probes
<1>0. PlacesOK /\ MutexInv /\ CountInv /\ SchedulerInv /\ StopInv /\ StopJoins
  BY DEF IndInv
<1>1. CASE Start
  <2>1. PICK s \in Schedulers : Goto(s, "dead", "call") /\ current' = s /\ closed' = closed \ {s}
    BY <1>1 DEF Start
  <2>2. PlacesOK' /\ MutexInv'
    BY <1>0, <1>1, <2>1, SMT DEF Start, Goto, PlacesOK, MutexInv, Pcs, Rounds
  <2>3. CountInv'
    BY <1>0, <1>1, <2>1, CountMoves DEF Start, Weight, Pcs, RoundPcs, Rounds
  <2>4. Live = {} /\ Live' = Live \cup {s}
    BY <1>0, <1>1, <2>1, SetsMove DEF Start, SchedulerInv, Pcs, Rounds
  <2> QED
    BY <1>1, <2>1, <2>2, <2>3, <2>4 DEF Start, StartsUnstopped, SchedulerInv, StopInv, StopJoins
<1>2. CASE Stop
  <2>1. PlacesOK' /\ MutexInv'
    BY <1>0, <1>2, SMT DEF Stop, PlacesOK, MutexInv
  <2>2. Live' = Live /\ Working' = Working
    BY <1>2 DEF Stop, Live, Working, InRound
  <2> QED
    BY <1>0, <1>2, <2>1, <2>2 DEF Stop, CountInv, SchedulerInv, StopInv, StopJoins
<1>3. CASE StopReturns
  <2>1. PlacesOK' /\ MutexInv'
    BY <1>0, <1>3, SMT DEF StopReturns, PlacesOK, MutexInv
  <2>2. Live' = {} /\ Working' = {} /\ Live = {} /\ Working = {}
    BY <1>0, <1>3, CountZero DEF StopReturns, Live, Working, InRound
  <2> QED
    BY <1>0, <1>3, <2>1, <2>2 DEF StopReturns, CountInv, SchedulerInv, StopInv,
       StopJoins, Working
<1>4. CASE SetConfig
  <2>1. PlacesOK' /\ MutexInv'
    BY <1>0, <1>4, SMT DEF SetConfig, PlacesOK, MutexInv, Configs
  <2>2. Live' = Live /\ Working' = Working
    BY <1>4 DEF SetConfig, Live, Working, InRound
  <2> QED
    BY <1>0, <1>4, <2>1, <2>2 DEF SetConfig, CountInv, SchedulerInv, StopInv,
       StopJoins, Working
<1>5. CASE CoreChanges
  BY <1>0, <1>5, QuietKeeps, SMT DEF CoreChanges, PlacesOK
<1> QED
  BY <1>1, <1>2, <1>3, <1>4, <1>5

(* A round, and the scheduler between two rounds.                          *)
LEMMA RoundSteps ==
  ASSUME IndInv, NEW g \in Rounds,
         RoundStep(g) \/ Admit(g) \/ ManualCheck(g)
           \/ (g \in Schedulers /\ (Tick(g) \/ SchedulerStops(g)))
  PROVE  PlacesOK' /\ MutexInv' /\ CountInv' /\ SchedulerInv' /\ StopInv' /\ StopJoins'
<1> USE HealthAssumption DEF state, probes, Silent, Weight, Pcs, RoundPcs, Rounds
<1>0. PlacesOK /\ MutexInv /\ CountInv
  BY DEF IndInv
<1>01. wg \in Nat
  BY <1>0, CountZero
<1>1. CASE Skip(g)
  <2>1. PlacesOK' /\ MutexInv'
    BY <1>0, <1>1, SMT DEF Skip, Goto, PlacesOK, MutexInv
  <2>2. CountInv' /\ SchedulerInv' /\ StopInv' /\ StopJoins'
    BY <1>01, <1>1, GoroutineKeeps DEF Skip
  <2> QED
    BY <2>1, <2>2
<1>2. CASE Register(g)
  <2>1. PlacesOK' /\ MutexInv'
    BY <1>0, <1>2, SMT DEF Register, Goto, PlacesOK, MutexInv
  <2>2. CountInv' /\ SchedulerInv' /\ StopInv' /\ StopJoins'
    BY <1>01, <1>2, GoroutineKeeps DEF Register
  <2> QED
    BY <2>1, <2>2
<1>3. CASE Admit(g)
  <2>1. PlacesOK' /\ MutexInv'
    BY <1>0, <1>3, SMT DEF Admit, Goto, PlacesOK, MutexInv
  <2>2. CountInv' /\ SchedulerInv' /\ StopInv' /\ StopJoins'
    BY <1>01, <1>3, GoroutineKeeps DEF Admit
  <2> QED
    BY <2>1, <2>2
<1>4. CASE Abandon(g)
  <2>1. PlacesOK' /\ MutexInv'
    BY <1>0, <1>4, SMT DEF Abandon, Goto, Leave, PlacesOK, MutexInv
  <2>2. CountInv' /\ SchedulerInv' /\ StopInv' /\ StopJoins'
    BY <1>01, <1>4, GoroutineKeeps DEF Abandon, Leave
  <2> QED
    BY <2>1, <2>2
<1>5. CASE ProbeAll(g)
  <2>1. PlacesOK' /\ MutexInv'
    BY <1>0, <1>5, SMT DEF ProbeAll, Goto, PlacesOK, MutexInv
  <2>2. CountInv' /\ SchedulerInv' /\ StopInv' /\ StopJoins'
    BY <1>01, <1>5, GoroutineKeeps DEF ProbeAll
  <2> QED
    BY <2>1, <2>2
<1>6. CASE Judge(g)
  <2>1. PlacesOK' /\ MutexInv'
    BY <1>0, <1>6, SMT DEF Judge, Goto, Leave, PlacesOK, MutexInv
  <2>2. CountInv' /\ SchedulerInv' /\ StopInv' /\ StopJoins'
    BY <1>01, <1>6, GoroutineKeeps DEF Judge, Leave
  <2> QED
    BY <2>1, <2>2
<1>7. CASE RecoveryEnds(g)
  <2>1. PlacesOK' /\ MutexInv'
    BY <1>0, <1>7, SMT DEF RecoveryEnds, Goto, Leave, PlacesOK, MutexInv
  <2>2. CountInv' /\ SchedulerInv' /\ StopInv' /\ StopJoins'
    BY <1>01, <1>7, GoroutineKeeps DEF RecoveryEnds, Leave
  <2> QED
    BY <2>1, <2>2
<1>8. CASE ManualCheck(g)
  <2>1. PlacesOK' /\ MutexInv'
    BY <1>0, <1>8, SMT DEF ManualCheck, Goto, PlacesOK, MutexInv
  <2>2. CountInv' /\ SchedulerInv' /\ StopInv' /\ StopJoins'
    BY <1>01, <1>8, GoroutineKeeps DEF ManualCheck
  <2> QED
    BY <2>1, <2>2
<1>9. CASE Tick(g)
  <2>1. PlacesOK' /\ MutexInv'
    BY <1>0, <1>9, SMT DEF Tick, Goto, PlacesOK, MutexInv
  <2>2. CountInv' /\ SchedulerInv' /\ StopInv' /\ StopJoins'
    BY <1>01, <1>9, GoroutineKeeps DEF Tick
  <2> QED
    BY <2>1, <2>2
<1>10. CASE SchedulerStops(g)
  <2>1. PlacesOK' /\ MutexInv'
    BY <1>0, <1>10, SMT DEF SchedulerStops, Goto, PlacesOK, MutexInv
  <2>2. CountInv' /\ SchedulerInv' /\ StopInv' /\ StopJoins'
    BY <1>0, <1>01, <1>10, GoroutineKeeps DEF SchedulerStops, PlacesOK
  <2> QED
    BY <2>1, <2>2
<1>11. ASSUME NEW n \in Nodes, ProbeBegins(g, n) \/ ProbeReports(g, n)
       PROVE  PlacesOK' /\ MutexInv' /\ CountInv' /\ SchedulerInv' /\ StopInv' /\ StopJoins'
  <2>1. PlacesOK'
    BY <1>0, <1>11, SMT DEF ProbeBegins, ProbeReports, PlacesOK
  <2> QED
    BY <1>11, <2>1, QuietKeeps DEF ProbeBegins, ProbeReports
<1> QED
  BY <1>1, <1>2, <1>3, <1>4, <1>5, <1>6, <1>7, <1>8, <1>9, <1>10, <1>11, Zenon DEF RoundStep

(* Every step preserves IndInv.                                            *)
LEMMA StepInd == IndInv /\ [Next]_vars => IndInv'
<1> SUFFICES ASSUME IndInv, [Next]_vars PROVE IndInv'
  OBVIOUS
<1>1. FlagsOK'
  BY FlagStep DEF IndInv
<1>2. CASE UNCHANGED vars
  BY <1>1, <1>2, QuietKeeps, SMT DEF IndInv, PlacesOK, vars, state, probes
<1>3. CASE Next
  BY <1>1, <1>3, OwnerSteps, RoundSteps, Zenon DEF IndInv, Next, Rounds
<1> QED
  BY <1>2, <1>3

(* It holds in every reachable state.                                      *)
THEOREM Inductive == Spec => []IndInv
  BY InitInd, StepInd, PTL DEF Spec

-----------------------------------------------------------------------------
(* The types, what the WaitGroup counts, the holder of checkMux, and one   *)
(* scheduler at most however often the checker is started.                 *)
THEOREM Types == Spec => []TypeOK
  BY Inductive, IndTypes, PTL

(* When Stop has returned no scheduler lives and no round is under way.    *)
THEOREM StopJoinsAll == Spec => []StopJoins
<1>1. IndInv => StopJoins
  BY DEF IndInv
<1> QED
  BY <1>1, Inductive, PTL

(* Nothing registers in the WaitGroup while Stop waits for it at zero.     *)
THEOREM WaitGroupNotReused == Spec => WaitNotReused
<1>1. ASSUME IndInv, [Next]_vars, owner = "wait", wg = 0 PROVE wg' = 0
  <2> USE <1>1 DEF state, probes, Silent
  <2>1. Live = {} /\ Working = {} /\ stopped
    BY CountZero DEF IndInv, StopInv
  <2>2. \A g \in Rounds : pc[g] \notin RoundPcs /\ (g \in Schedulers => pc[g] = "dead")
    BY <2>1 DEF Live, Working, InRound, RoundPcs
  <2>3. ASSUME NEW g \in Rounds, RoundStep(g) \/ Admit(g) \/ ManualCheck(g) PROVE wg' = wg
    BY <2>1, <2>2, <2>3 DEF RoundStep, Skip, Register, Abandon, ProbeAll, ProbeBegins,
       ProbeReports, Judge, RecoveryEnds, Admit, ManualCheck, Leave, Goto, RoundPcs
  <2>4. ASSUME NEW s \in Schedulers, Tick(s) \/ SchedulerStops(s) PROVE wg' = wg
    BY <2>2, <2>4 DEF Tick, SchedulerStops, Goto, Rounds
  <2>5. ASSUME Start \/ Stop \/ StopReturns \/ SetConfig \/ CoreChanges PROVE wg' = wg
    BY <2>5 DEF Start, Stop, StopReturns, SetConfig, CoreChanges
  <2>6. CASE UNCHANGED vars
    BY <2>6 DEF vars
  <2> QED
    BY <2>3, <2>4, <2>5, <2>6 DEF Next
<1>2. IndInv /\ [Next]_vars => [owner = "wait" /\ wg = 0 => wg' = 0]_vars
  BY <1>1
<1> QED
  BY <1>2, Inductive, PTL DEF Spec, WaitNotReused
=============================================================================
