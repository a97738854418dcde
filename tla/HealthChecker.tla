---------------------------- MODULE HealthChecker ----------------------------
(***************************************************************************)
(* The health checker of internal/proxy/health.go: Start, Stop and         *)
(* SetConfig by the owner of the checker, the scheduler goroutine of each  *)
(* Start, rounds (CheckAll) of the scheduler and of manual callers, and    *)
(* the goroutines of a round that probe one node each.                     *)
(*                                                                         *)
(* The owner is one process: the DLL calls Start, Stop and SetConfig under *)
(* gMu, the CLI from one goroutine.  Manual rounds are not tied to it.     *)
(* Sections under stateMux and under resultsMux are one action each;       *)
(* checkMux and the WaitGroup are explicit.  The timers of the scheduler   *)
(* and of a probe may fire at any moment.                                  *)
(***************************************************************************)
EXTENDS Integers, FiniteSets

CONSTANTS
  Nodes,        \* names of nodes
  Schedulers,   \* identities of scheduler goroutines; reused
  Checkers,     \* goroutines that call CheckAll by hand
  None,
  MaxDown       \* bound on allDownCount when no callback is registered

ASSUME HealthAssumption ==
  /\ Schedulers \cap Checkers = {}
  /\ None \notin Schedulers \cup Checkers
  /\ MaxDown \in Nat /\ MaxDown >= 3

Rounds == Schedulers \cup Checkers   \* the goroutines that make rounds

Configs == [nodes : SUBSET Nodes, enabled : BOOLEAN]

VARIABLES
  coreUp,        \* manager.IsRunning()
  config,
  results,       \* a function from some nodes to IsHealthy
  stopped, isRunning, allDown,
  callback,      \* onAllDown is registered
  current,       \* the scheduler whose stop channel hc.stopChan is
  closed,        \* schedulers whose stop channel is closed
  wg,            \* the counter of the WaitGroup
  checkMux,      \* holder of checkMux
  owner,         \* where the owner is
  pc,            \* where each goroutine is
  todo, flying   \* nodes a round has yet to probe, is probing

state == <<stopped, isRunning, allDown, current, closed>>
probes == <<results, todo, flying>>
vars == <<coreUp, config, callback, state, probes, wg, checkMux, owner, pc>>

(* "dead" is a scheduler that does not run, "out" a goroutine outside a    *)
(* round, "call" one that enters CheckAll.                                 *)
Pcs == {"dead", "out", "call", "queued", "admitted", "probing", "recovering"}

InRound(g) == pc[g] \in {"queued", "admitted", "probing", "recovering"}

Live == {s \in Schedulers : pc[s] # "dead"}

Init ==
  /\ coreUp = FALSE
  /\ config \in Configs
  /\ results = [n \in config.nodes |-> FALSE]
  /\ stopped = FALSE /\ isRunning = FALSE /\ allDown = 0
  /\ callback \in BOOLEAN
  /\ current = None /\ closed = {}
  /\ wg = 0 /\ checkMux = None
  /\ owner = "idle"
  /\ pc = [g \in Rounds |-> IF g \in Schedulers THEN "dead" ELSE "out"]
  /\ todo = [g \in Rounds |-> {}] /\ flying = [g \in Rounds |-> {}]

Goto(g, from, to) ==
  /\ pc[g] = from
  /\ pc' = [pc EXCEPT ![g] = to]

-----------------------------------------------------------------------------
(* The owner *)

\* Mutant: Start does not take back stopped.
StartsStopped == stopped

StartsUnstopped == FALSE

Start ==
  /\ owner = "idle" /\ ~isRunning /\ config.enabled
  /\ isRunning' = TRUE /\ stopped' = StartsUnstopped /\ allDown' = 0
  /\ \E s \in Schedulers :
       /\ Goto(s, "dead", "call")
       /\ current' = s /\ closed' = closed \ {s}
  /\ wg' = wg + 1
  /\ UNCHANGED <<coreUp, config, callback, probes, checkMux, owner>>

(* The section of Stop under stateMux.                                     *)
Stop ==
  /\ owner = "idle" /\ owner' = "wait"
  /\ isRunning' = FALSE /\ stopped' = TRUE
  /\ closed' = IF stopped THEN closed ELSE closed \cup ({current} \ {None})
  /\ UNCHANGED <<coreUp, config, callback, allDown, current, probes, wg, checkMux, pc>>

\* Mutant: Stop does not wait for the rounds.
StopReturnsEarly ==
  /\ owner = "wait" /\ owner' \in {"idle", "set"}
  /\ UNCHANGED <<coreUp, config, callback, state, probes, wg, checkMux, pc>>

(* wg.Wait() returns; a reload goes on to SetConfig.                       *)
StopReturns ==
  /\ owner = "wait" /\ wg = 0
  /\ owner' \in {"idle", "set"}
  /\ UNCHANGED <<coreUp, config, callback, state, probes, wg, checkMux, pc>>

(* What is known of nodes that stay is kept.                               *)
SetConfig ==
  /\ owner = "set" /\ owner' = "idle"
  /\ config' \in Configs
  /\ results' = [n \in config'.nodes |-> n \in DOMAIN results /\ results[n]]
  /\ UNCHANGED <<coreUp, callback, state, todo, flying, wg, checkMux, pc>>

-----------------------------------------------------------------------------
(* A round *)

Silent == UNCHANGED <<coreUp, config, callback, state, owner>>

(* CheckAll returns at once when stopped or when the core is not ready.    *)
Skip(g) ==
  /\ stopped \/ ~coreUp
  /\ Goto(g, "call", "out")
  /\ UNCHANGED <<probes, wg, checkMux>> /\ Silent

\* Mutant: a round registers although the checker is stopped.
RegisterUnchecked(g) ==
  /\ coreUp
  /\ Goto(g, "call", "queued")
  /\ wg' = wg + 1
  /\ UNCHANGED <<probes, checkMux>> /\ Silent

Register(g) ==
  /\ ~stopped /\ coreUp
  /\ Goto(g, "call", "queued")
  /\ wg' = wg + 1
  /\ UNCHANGED <<probes, checkMux>> /\ Silent

Admit(g) ==
  /\ checkMux = None /\ checkMux' = g
  /\ Goto(g, "queued", "admitted")
  /\ UNCHANGED <<probes, wg>> /\ Silent

\* Mutant: an abandoned round is not counted down.
LeaveUncounted(g, from) ==
  /\ Goto(g, from, "out")
  /\ checkMux' = None
  /\ wg' = IF from = "admitted" THEN wg ELSE wg - 1

(* The deferred Unlock and Done.                                           *)
Leave(g, from) ==
  /\ Goto(g, from, "out")
  /\ checkMux' = None /\ wg' = wg - 1

Abandon(g) ==
  /\ stopped
  /\ Leave(g, "admitted")
  /\ UNCHANGED probes /\ Silent

ProbeAll(g) ==
  /\ ~stopped
  /\ Goto(g, "admitted", "probing")
  /\ todo' = [todo EXCEPT ![g] = config.nodes]
  /\ UNCHANGED <<results, flying, wg, checkMux>> /\ Silent

(* CheckProxy makes sure that the node has a result.                       *)
ProbeBegins(g, n) ==
  /\ n \in todo[g]
  /\ todo' = [todo EXCEPT ![g] = @ \ {n}]
  /\ flying' = [flying EXCEPT ![g] = @ \cup {n}]
  /\ results' = [m \in DOMAIN results \cup {n} |-> m \in DOMAIN results /\ results[m]]
  /\ UNCHANGED <<wg, checkMux, pc>> /\ Silent

(* updateResult looks the result up again.                                 *)
ProbeReports(g, n) ==
  /\ n \in flying[g]
  /\ flying' = [flying EXCEPT ![g] = @ \ {n}]
  /\ \E healthy \in BOOLEAN : results' = [results EXCEPT ![n] = healthy]
  /\ UNCHANGED <<todo, wg, checkMux, pc>> /\ Silent

AllDown == DOMAIN results # {} /\ \A n \in DOMAIN results : ~results[n]

(* The round is judged under stateMux; the third round in a row in which   *)
(* every node is down calls back.                                          *)
Judge(g) ==
  /\ pc[g] = "probing" /\ todo[g] = {} /\ flying[g] = {}
  /\ \/ /\ stopped
        /\ Leave(g, "probing") /\ UNCHANGED allDown
     \/ /\ ~stopped /\ ~AllDown
        /\ Leave(g, "probing") /\ allDown' = 0
     \/ /\ ~stopped /\ AllDown /\ (allDown < 2 \/ ~callback)
        /\ Leave(g, "probing")
        /\ allDown' = IF allDown < MaxDown THEN allDown + 1 ELSE allDown
     \/ /\ ~stopped /\ AllDown /\ allDown >= 2 /\ callback
        /\ Goto(g, "probing", "recovering")
        /\ allDown' = 0 /\ UNCHANGED <<wg, checkMux>>
  /\ UNCHANGED <<coreUp, config, callback, stopped, isRunning, current, closed,
                 probes, owner>>

(* The callback is part of the round.                                      *)
RecoveryEnds(g) ==
  /\ Leave(g, "recovering")
  /\ UNCHANGED probes /\ Silent

-----------------------------------------------------------------------------
(* The callers of CheckAll *)

ManualCheck(g) ==
  /\ g \in Checkers
  /\ Goto(g, "out", "call")
  /\ UNCHANGED <<probes, wg, checkMux>> /\ Silent

\* Mutant: the scheduler gives up when it finds the core not ready.
TickUnlessDown(s) ==
  /\ s \in Schedulers
  /\ \/ coreUp /\ Goto(s, "out", "call") /\ UNCHANGED wg
     \/ ~coreUp /\ Goto(s, "out", "dead") /\ wg' = wg - 1
  /\ UNCHANGED <<probes, checkMux>> /\ Silent

(* The timer fires; select may choose it although stop is closed.          *)
Tick(s) ==
  /\ s \in Schedulers
  /\ Goto(s, "out", "call")
  /\ UNCHANGED <<probes, wg, checkMux>> /\ Silent

SchedulerStops(s) ==
  /\ s \in closed
  /\ Goto(s, "out", "dead")
  /\ wg' = wg - 1
  /\ UNCHANGED <<probes, checkMux>> /\ Silent

(* The core becomes ready, crashes, is restarted or stopped.               *)
CoreChanges ==
  /\ coreUp' = ~coreUp
  /\ UNCHANGED <<config, callback, state, probes, wg, checkMux, owner, pc>>

RoundStep(g) ==
  \/ Skip(g) \/ Register(g) \/ Abandon(g) \/ ProbeAll(g)
  \/ \E n \in Nodes : ProbeBegins(g, n) \/ ProbeReports(g, n)
  \/ Judge(g) \/ RecoveryEnds(g)

Next ==
  \/ Start \/ Stop \/ StopReturns \/ SetConfig \/ CoreChanges
  \/ \E g \in Rounds : RoundStep(g) \/ Admit(g) \/ ManualCheck(g)
  \/ \E s \in Schedulers : Tick(s) \/ SchedulerStops(s)

(* Goroutines keep running, sync.Mutex does not starve, a probe times out, *)
(* a timer fires, and select does not forever prefer it to a closed        *)
(* channel.  The callback returns.  Nothing is assumed of the callers or   *)
(* of the core.                                                            *)
Fairness ==
  /\ \A g \in Rounds : WF_vars(RoundStep(g)) /\ SF_vars(Admit(g))
  /\ \A s \in Schedulers : WF_vars(Tick(s)) /\ SF_vars(SchedulerStops(s))
  /\ WF_vars(StopReturns)

Spec == Init /\ [][Next]_vars

FairSpec == Spec /\ Fairness

-----------------------------------------------------------------------------
(* Properties *)

\* The WaitGroup counts schedulers and rounds; checkMux has its holder.
CountsOK ==
  /\ wg = Cardinality(Live) + Cardinality({g \in Rounds : InRound(g)})
  /\ \A g \in Rounds :
       checkMux = g <=> pc[g] \in {"admitted", "probing", "recovering"}

(* Type correctness, with the counter and the mutex as the code keeps      *)
(* them, and one scheduler at most for a checker that is started again and *)
(* again.                                                                  *)
TypeOK ==
  /\ coreUp \in BOOLEAN /\ stopped \in BOOLEAN /\ isRunning \in BOOLEAN
  /\ callback \in BOOLEAN
  /\ config \in Configs
  /\ DOMAIN results \subseteq Nodes /\ \A n \in DOMAIN results : results[n] \in BOOLEAN
  /\ allDown \in 0..MaxDown
  /\ current \in Schedulers \cup {None} /\ closed \subseteq Schedulers
  /\ checkMux \in Rounds \cup {None}
  /\ owner \in {"idle", "wait", "set"}
  /\ pc \in [Rounds -> Pcs]
  /\ todo \in [Rounds -> SUBSET Nodes] /\ flying \in [Rounds -> SUBSET Nodes]
  /\ CountsOK
  /\ Cardinality(Live) <= 1

(* When Stop has returned no scheduler lives and no round is under way, so *)
(* no old result meets a new configuration or a restarted core.            *)
StopJoins ==
  stopped /\ owner # "wait" => Live = {} /\ \A g \in Rounds : ~InRound(g)

(* sync.WaitGroup: no Add from zero while Wait is waiting.                 *)
WaitNotReused == [][owner = "wait" /\ wg = 0 => wg' = 0]_vars

(* Stop returns.                                                           *)
StopCompletes == owner = "wait" ~> owner # "wait"

(* A checker that stays started on a core that stays ready goes on making  *)
(* rounds, also when earlier rounds found the core not ready.              *)
KeepsProbing ==
  <>[](isRunning /\ coreUp) => []<>(\E s \in Schedulers : pc[s] = "probing")
=============================================================================
