----------------------------- MODULE CoreConfig -----------------------------
(***************************************************************************)
(* The configuration OneProxy writes for sing-box                          *)
(* (internal/config/singbox.go), and what sing-box makes of it: which      *)
(* configurations it refuses and where it sends a connection.              *)
(*                                                                         *)
(* A configuration c is [unified, tag, mode, subscribed, nodes]: the       *)
(* unified port (0 is off), the name of its selector, RouteMode, whether a *)
(* SubscriptionURL is set, and nodes [name, enabled, port, at].  A name is *)
(* a sequence of characters, of which "auto", "direct" and "proxy" are one *)
(* each; "out-%s" of a name is a pair.  An inbound is named by its port, as*)
(* "in-%d" is; 0 stands for "in-unified".  Listen addresses, credentials,  *)
(* DNS servers, paths and tolerances are the same in every configuration.  *)
(*                                                                         *)
(* A list that is made of nodes is a function from their places in c.nodes;*)
(* the order of the places is that of the list.                            *)
(***************************************************************************)
EXTENDS Integers, SequencesExt

CONSTANTS
  Space, Dash,  \* two characters
  Dropped       \* the characters sanitizeTag leaves out

Modes == {"global", "rule", "direct"}

UnifiedIn == 0   \* the tag "in-unified"

(* What a connection may match besides its inbound.                        *)
Marks == {"dns", "site", "geoip-cn", "geosite-cn"}

-----------------------------------------------------------------------------
(* What the decoder makes of the file; any other RouteMode is "global".    *)
Decodes(c) ==
  /\ c.unified \in Int /\ c.mode \in Modes
  /\ Len(c.nodes) \in Nat /\ DOMAIN c.nodes = 1..Len(c.nodes)
  /\ \A i \in DOMAIN c.nodes : c.nodes[i].port \in Int

(* Validate, for what the generator reads: names are not empty, and no     *)
(* local port is used twice or is the unified port.                        *)
Valid(c) ==
  LET exposed == {i \in DOMAIN c.nodes : c.nodes[i].port > 0}
  IN  /\ c.nodes # <<>>
      /\ \A i \in DOMAIN c.nodes : c.nodes[i].name # <<>>
      /\ \A i, j \in exposed : c.nodes[i].port = c.nodes[j].port => i = j
      /\ \A i \in exposed : c.nodes[i].port # c.unified

(* The places of the enabled nodes, and of those that have a port of their *)
(* own.                                                                    *)
Enabled(c) == {i \in DOMAIN c.nodes : c.nodes[i].enabled}

Exposed(c) == {i \in Enabled(c) : c.nodes[i].port > 0}

(* The list f, which has the places up to n at most, and s after it.       *)
Followed(f, n, s) ==
  [i \in DOMAIN f \cup (n + 1)..(n + Len(s)) |-> IF i \in DOMAIN f THEN f[i] ELSE s[i - n]]

(* sanitizeTag *)
Sanitized(name) ==
  LET kept == SelectSeq(name, LAMBDA ch : ch \notin Dropped)
  IN  [i \in DOMAIN kept |-> IF kept[i] = Space THEN Dash ELSE kept[i]]

Out(p) == <<"out", Sanitized(p.name)>>

AutoTag == <<"auto">>

Direct == <<"direct">>

Proxy == <<"proxy">>

SelectorTag(c) == IF c.tag = <<>> THEN Proxy ELSE c.tag

-----------------------------------------------------------------------------
Inbound(tag, port) == [tag |-> tag, port |-> port]

(* generateInbounds: one per exposed node, and the unified one.            *)
Inbounds(c) ==
  LET own == [i \in Exposed(c) |-> Inbound(c.nodes[i].port, c.nodes[i].port)]
      unified == IF c.unified > 0 THEN <<Inbound(UnifiedIn, c.unified)>> ELSE <<>>
  IN  Followed(own, Len(c.nodes), unified)

NodeOutbound(p) == [tag |-> Out(p), kind |-> "node", via |-> {}, at |-> p.at]

Group(tag, kind, via) == [tag |-> tag, kind |-> kind, via |-> via, at |-> ""]

NodeTags(c) == {Out(c.nodes[i]) : i \in Enabled(c)}

(* generateOutbounds: the nodes, "auto" and the selector if there is a     *)
(* unified port, and "direct".                                             *)
Outbounds(c) ==
  LET nodes == [i \in Enabled(c) |-> NodeOutbound(c.nodes[i])]
      auto == Group(AutoTag, "urltest", NodeTags(c))
      selector == Group(SelectorTag(c), "selector", {AutoTag} \cup NodeTags(c))
      direct == Group(Direct, "direct", {})
  IN  Followed(nodes, Len(c.nodes),
               IF c.unified > 0 THEN <<auto, selector, direct>> ELSE <<direct>>)

(* Rules: from is the inbound a rule is for, or AnyIn; mark is what the    *)
(* connection must match, or Anything.                                     *)
AnyIn == -1

Anything == "any"

Rule(from, mark, to) == [from |-> from, mark |-> mark, to |-> to]

PinRules(c) ==
  [i \in Exposed(c) |-> Rule(c.nodes[i].port, Anything, Out(c.nodes[i]))]

DnsRule == Rule(AnyIn, "dns", Direct)

UnifiedRules(c) ==
  IF c.unified > 0 THEN <<Rule(UnifiedIn, Anything, SelectorTag(c))>> ELSE <<>>

ModeRules(c) ==
  CASE c.mode = "direct" -> <<>>
    [] c.mode = "rule"   -> <<Rule(AnyIn, "site", Proxy),
                              Rule(AnyIn, "geoip-cn", Direct),
                              Rule(AnyIn, "geosite-cn", Direct)>> \o UnifiedRules(c)
    [] c.mode = "global" -> UnifiedRules(c)

\* Mutant: the rules of the mode come before those of the ports.
RulesModeFirst(c) ==
  LET rest == ModeRules(c) \o <<DnsRule>>
  IN  [i \in DOMAIN rest \cup {Len(rest) + k : k \in Exposed(c)} |->
         IF i \in DOMAIN rest THEN rest[i] ELSE PinRules(c)[i - Len(rest)]]

(* generateRoute *)
Rules(c) == Followed(PinRules(c), Len(c.nodes), <<DnsRule>> \o ModeRules(c))

Final(c) == IF c.mode = "direct" THEN Direct ELSE Proxy

Generate(c) ==
  [inbounds |-> Inbounds(c), outbounds |-> Outbounds(c), rules |-> Rules(c),
   final |-> Final(c), clashAPI |-> c.unified > 0]

-----------------------------------------------------------------------------
(* sing-box *)

(* It refuses two outbounds or inbounds with one tag, a name that no       *)
(* outbound has, and a group without members.                              *)
Accepts(g) ==
  LET tags == {g.outbounds[i].tag : i \in DOMAIN g.outbounds}
  IN  /\ \A i, j \in DOMAIN g.outbounds :
           g.outbounds[i].tag = g.outbounds[j].tag => i = j
      /\ \A i, j \in DOMAIN g.inbounds :
           g.inbounds[i].tag = g.inbounds[j].tag => i = j
      /\ g.final \in tags /\ \A i \in DOMAIN g.rules : g.rules[i].to \in tags
      /\ \A i \in DOMAIN g.outbounds :
           g.outbounds[i].kind \in {"urltest", "selector"} =>
             g.outbounds[i].via # {} /\ g.outbounds[i].via \subseteq tags

(* The first rule that fits decides.                                       *)
Fitting(g, in, marks) ==
  {i \in DOMAIN g.rules : /\ g.rules[i].from \in {in, AnyIn}
                          /\ g.rules[i].mark \in marks \cup {Anything}}

Decided(g, in, marks) ==
  LET fits == Fitting(g, in, marks)
  IN  IF fits = {} THEN g.final ELSE g.rules[Min(fits)].to

Outbound(g, tag) == g.outbounds[CHOOSE i \in DOMAIN g.outbounds : g.outbounds[i].tag = tag]

(* selector.go: the outbound that SelectProxy asks for by a node's name or *)
(* by "auto", and the name that Status reports for an outbound; <<>> is    *)
(* none.                                                                   *)
SelectionTag(c, name) ==
  LET named == {i \in Enabled(c) : c.nodes[i].name = name}
  IN  IF name = AutoTag THEN AutoTag
      ELSE IF named = {} THEN <<>> ELSE Out(c.nodes[Min(named)])

SelectedProxy(c, tag) ==
  LET fits == {i \in Enabled(c) : Out(c.nodes[i]) = tag}
  IN  IF fits = {} THEN <<>> ELSE c.nodes[Min(fits)].name

(* The ports it listens on; a unified port comes with the Clash API, which *)
(* has one port for all.                                                   *)
ClashPort == -1

Listens(c) ==
  {Inbounds(c)[i].port : i \in DOMAIN Inbounds(c)}
    \cup (IF Generate(c).clashAPI THEN {ClashPort} ELSE {})

-----------------------------------------------------------------------------
(* What README.md promises of routing, for a configuration sing-box runs.  *)

(* "Individual node ports always remain pinned to their corresponding      *)
(* upstream node" (README.md:221), whatever the mode and the connection;   *)
(* and nothing listens for a node that is switched off.                    *)
Pinned(c) ==
  LET g == Generate(c)
  IN  /\ \A i \in Exposed(c), marks \in SUBSET Marks :
           Outbound(g, Decided(g, c.nodes[i].port, marks)) = NodeOutbound(c.nodes[i])
      /\ Listens(c) \ {ClashPort, c.unified} = {c.nodes[i].port : i \in Exposed(c)}

China(marks) == marks \cap {"geoip-cn", "geosite-cn"} # {} /\ "site" \notin marks

(* The table of routing modes (README.md:215-219) for the unified port;    *)
(* the sites always routed through the proxy come before the China rules,  *)
(* and the selector reaches every enabled node.  DNS goes out directly.    *)
ByMode(c) ==
  LET g == Generate(c)
  IN  c.unified > 0 =>
        \A marks \in SUBSET (Marks \ {"dns"}) :
          LET to == Outbound(g, Decided(g, UnifiedIn, marks))
          IN  IF c.mode = "direct" \/ (c.mode = "rule" /\ China(marks))
              THEN to.kind = "direct"
              ELSE /\ to.kind = "selector"
                   /\ {Outbound(g, t).at : t \in to.via \ {AutoTag}} =
                        {c.nodes[i].at : i \in Enabled(c)}

(* The selector can be told by its name to use the enabled node p.         *)
ByName(c, p) ==
  LET g == Generate(c)
      tag == SelectionTag(c, p.name)
  IN  /\ tag \in Outbound(g, SelectorTag(c)).via
      /\ Outbound(g, tag).kind = "node" /\ Outbound(g, tag).at = p.at

(* That holds of each enabled node that is not named "auto", and the node  *)
(* is reported with that name.  "auto" chooses among all enabled nodes, one*)
(* of that name included, and each is reported with the name it has.       *)
Selectable(c) ==
  LET g == Generate(c)
      auto == SelectionTag(c, AutoTag)
      all == Outbound(g, auto)
  IN  c.unified > 0 =>
        /\ \A i \in Enabled(c) :
             LET p == c.nodes[i]
             IN  p.name # AutoTag =>
                   ByName(c, p) /\ SelectedProxy(c, SelectionTag(c, p.name)) = p.name
        /\ auto \in Outbound(g, SelectorTag(c)).via /\ all.kind = "urltest"
        /\ {<<Outbound(g, t).at, SelectedProxy(c, t)>> : t \in all.via} =
             {<<c.nodes[i].at, c.nodes[i].name>> : i \in Enabled(c)}
=============================================================================
