------------------------------- MODULE MCFiles -------------------------------
(* Values for the constants of ConfigFiles.                                *)
EXTENDS ConfigFiles

MCUserConfigs ==
  {[mode |-> "rule", sub |-> s, feed |-> "f1", imported |-> FALSE, absent |-> 0] : s \in BOOLEAN}

MCPlaceholder == [mode |-> "global", sub |-> FALSE, feed |-> "f1", imported |-> FALSE, absent |-> 0]
=============================================================================
