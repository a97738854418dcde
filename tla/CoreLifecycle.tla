---------------------------- MODULE CoreLifecycle ----------------------------
(***************************************************************************)
(* What a proxy.Manager promises to its owner, without goroutines,         *)
(* channels or children: a core that is down, starting, up, recovering     *)
(* from a crash or stopping, and a buffer for at most one result of a      *)
(* lifecycle that ended by itself.  Manager.tla implements this for one    *)
(* manager; Session.tla uses it for the managers the DLL creates.          *)
(***************************************************************************)
EXTENDS Naturals

CONSTANT Managers   \* manager objects

VARIABLES
  phase,    \* per manager: what its core is doing
  unread    \* per manager: results buffered in Done()

coreVars == <<phase, unread>>

Phases == {"down", "starting", "up", "recovering", "stopping"}

CoreTypeOK ==
  /\ phase \in [Managers -> Phases]
  /\ unread \in [Managers -> 0..1]

CoreInit ==
  /\ phase = [m \in Managers |-> "down"]
  /\ unread = [m \in Managers |-> 0]

Enter(m, from, to) ==
  /\ phase[m] \in from
  /\ phase' = [phase EXCEPT ![m] = to]

(* Start launches a core and forgets a result nobody has read.             *)
Launch(m) ==
  /\ Enter(m, {"down"}, "starting")
  /\ unread' = [unread EXCEPT ![m] = 0]

(* The core does not outlive its startup window; Start reports it.         *)
LaunchFails(m) == Enter(m, {"starting"}, "down") /\ UNCHANGED unread

(* The startup window is over: Start returns, or a restart succeeded.      *)
ComeUp(m) == Enter(m, {"starting", "recovering"}, "up") /\ UNCHANGED unread

(* The core exits although nobody asked it to.                             *)
Crash(m) == Enter(m, {"up"}, "recovering") /\ UNCHANGED unread

(* No further attempt: the lifecycle ends with a result for Done().        *)
GiveUp(m) ==
  /\ Enter(m, {"recovering"}, "down")
  /\ unread' = [unread EXCEPT ![m] = 1]

(* Stop or Restart claims the lifecycle; a core that is still starting     *)
(* cannot be claimed.                                                      *)
Claim(m) == Enter(m, {"up", "recovering"}, "stopping") /\ UNCHANGED unread

(* A claimed lifecycle ends.  A crash that had been judged final before    *)
(* the claim still leaves its result.                                      *)
Stopped(m) ==
  /\ Enter(m, {"stopping"}, "down")
  /\ \E n \in {unread[m], 1} : unread' = [unread EXCEPT ![m] = n]

Receive(m) ==
  /\ unread[m] = 1
  /\ unread' = [unread EXCEPT ![m] = 0]
  /\ UNCHANGED phase

(* The steps the core and its monitor take on their own.                   *)
CoreStep(m) ==
  LaunchFails(m) \/ ComeUp(m) \/ Crash(m) \/ GiveUp(m) \/ Stopped(m)

CoreNext ==
  \E m \in Managers : Launch(m) \/ Claim(m) \/ CoreStep(m) \/ Receive(m)

(* A launch or a recovery is decided, be it by a claim.                    *)
Settle(m) ==
  /\ phase[m] \in {"starting", "recovering"}
  /\ LaunchFails(m) \/ ComeUp(m) \/ GiveUp(m) \/ Claim(m)

(* A launch, a recovery and a stop that were begun come to an end; a core  *)
(* that is up may stay up for ever.                                        *)
CoreFairness ==
  \A m \in Managers : WF_coreVars(Settle(m)) /\ WF_coreVars(Stopped(m))

CoreSafeSpec == CoreInit /\ [][CoreNext]_coreVars

CoreSpec == CoreSafeSpec /\ CoreFairness
=============================================================================
