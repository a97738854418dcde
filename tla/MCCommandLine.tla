---------------------------- MODULE MCCommandLine ----------------------------
(***************************************************************************)
(* Configurations for CommandLine.  A character is a string of one; "!"    *)
(* and "?" stand for those that sanitizeTag leaves out.                    *)
(***************************************************************************)
EXTENDS CommandLine

Config(unified, tag, mode, subscribed, nodes) ==
  [unified |-> unified, tag |-> tag, mode |-> mode, subscribed |-> subscribed, nodes |-> nodes]

Node(name, enabled, port, at) == [name |-> name, enabled |-> enabled, port |-> port, at |-> at]

MCDropped == {"!", "?"}

(* Two nodes; one of them off; one without a port; all off; names that     *)
(* sanitizeTag makes equal; a node with the name of the automatic choice.  *)
NodeLists ==
  {<<Node(<<"a">>, e, 1, "x"), Node(<<"b">>, e, p, "y")>> :
     e \in BOOLEAN, p \in {0, 2}}
    \cup {<<Node(<<"a", " ", "b">>, TRUE, 1, "x"), Node(<<"b", "!">>, FALSE, 2, "y")>>,
          <<Node(<<"a", " ", "b">>, TRUE, 1, "x"), Node(<<"a", "-", "b", "?">>, TRUE, 2, "y")>>,
          <<Node(<<"auto">>, TRUE, 1, "x"), Node(<<"b">>, TRUE, 2, "y")>>}

(* One subscription whose feed has two versions, the unified port off and  *)
(* on, and a configuration without one, on another port.                   *)
MCEdits ==
  {Config(9, <<>>, "rule", TRUE, <<Node(<<"a">>, TRUE, 1, at)>>) : at \in {"x", "y"}}
    \cup {Config(0, <<>>, "direct", FALSE, <<Node(<<"a">>, TRUE, 2, "x")>>)}

MCInputs ==
  {Config(u, <<>>, m, FALSE, ns) : u \in {0, 9}, m \in Modes, ns \in NodeLists}
    \cup {Config(9, <<"p">>, m, FALSE, <<Node(<<"a">>, TRUE, 1, "x")>>) : m \in Modes}
    \cup MCEdits
=============================================================================
