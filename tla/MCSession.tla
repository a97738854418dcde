------------------------------ MODULE MCSession ------------------------------
(***************************************************************************)
(* Session.tla for TLC.  Threads, configurations and managers are          *)
(* interchangeable: no action tells one from another except by what the    *)
(* state says of it.                                                       *)
(***************************************************************************)
EXTENDS Session, TLC

Symmetry ==
  Permutations(Threads) \cup Permutations(Cfgs) \cup Permutations(Managers)
=============================================================================
