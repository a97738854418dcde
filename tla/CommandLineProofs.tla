------------------------- MODULE CommandLineProofs -------------------------
(***************************************************************************)
(* Theorems about CommandLine, for any configurations and any number of    *)
(* runs.  First, what CoreConfig promises of routing, for every            *)
(* configuration that Validate lets through and sing-box does not refuse:  *)
(* any number of nodes, any names and any ports.  Then the program: its    *)
(* types, that a core works with what this run downloaded and stored, and  *)
(* that an ordinary end leaves no core.                                    *)
(***************************************************************************)
EXTENDS CommandLine, WellFoundedInduction, TLAPS

(* A configuration that a core runs with.                                  *)
Runnable(c) == Decodes(c) /\ Valid(c) /\ Accepts(Generate(c))

-----------------------------------------------------------------------------
(* Lists *)

(* The first place of a list.                                              *)
LEMMA First ==
  ASSUME NEW S \in SUBSET Nat, S # {}
  PROVE  Min(S) \in S /\ \A i \in S : Min(S) <= i
<1> DEFINE R == OpToRel(<, Nat)
<1>1. \A m, k \in Nat : <<k, m>> \in R <=> k < m
  BY DEF OpToRel
<1>2. IsWellFoundedOn(R, Nat)
  BY NatLessThanWellFounded
<1> HIDE DEF R
<1>3. \E m \in S : \A k \in S : ~(<<k, m>> \in R)
  BY <1>2, WFMin, Zenon
<1>4. PICK m \in S : \A k \in S : ~(<<k, m>> \in R)
  BY <1>3
<1>5. \A k \in S : k \in Nat /\ m \in Nat /\ ~(k < m)
  BY <1>1, <1>4, Zenon
<1>6. \A k \in S : m <= k
  BY <1>5
<1> QED
  BY <1>6, Zenon DEF Min

(* Tags of different origin differ.                                        *)
LEMMA Tags ==
  ASSUME NEW p
  PROVE  /\ AutoTag # Direct /\ AutoTag # Proxy /\ Direct # Proxy
         /\ Out(p) \notin {AutoTag, Direct, Proxy}
  BY DEF AutoTag, Direct, Proxy, Out

-----------------------------------------------------------------------------
(* The parts of a generated file *)

(* The inbound of a node is at the place of the node, the unified one      *)
(* after all.                                                              *)
LEMMA InboundsAt ==
  ASSUME NEW c, Decodes(c)
  PROVE  LET n == Len(c.nodes)
         IN  /\ Exposed(c) \subseteq DOMAIN Inbounds(c)
             /\ \A i \in DOMAIN Inbounds(c) : i \in Exposed(c) \/ (c.unified > 0 /\ i = n + 1)
             /\ \A i \in Exposed(c) :
                  Inbounds(c)[i] = Inbound(c.nodes[i].port, c.nodes[i].port)
             /\ c.unified > 0 => Inbounds(c)[n + 1] = Inbound(UnifiedIn, c.unified)
<1> DEFINE n == Len(c.nodes)
           own == [i \in Exposed(c) |-> Inbound(c.nodes[i].port, c.nodes[i].port)]
           unified == IF c.unified > 0 THEN <<Inbound(UnifiedIn, c.unified)>> ELSE <<>>
<1>1. n \in Nat /\ DOMAIN own \subseteq 1..n
  BY DEF Decodes, Exposed, Enabled
<1>2. Len(unified) \in Nat /\ Len(unified) = IF c.unified > 0 THEN 1 ELSE 0
  OBVIOUS
<1>3. Inbounds(c) = Followed(own, n, unified)
  BY DEF Inbounds
<1>4. c.unified > 0 => unified[1] = Inbound(UnifiedIn, c.unified)
  OBVIOUS
<1>5. \A i \in Exposed(c) : own[i] = Inbound(c.nodes[i].port, c.nodes[i].port)
  OBVIOUS
<1>6. DOMAIN own = Exposed(c)
  OBVIOUS
<1> HIDE DEF n, own, unified
<1>7. /\ DOMAIN Followed(own, n, unified) = DOMAIN own \cup (n + 1)..(n + Len(unified))
      /\ \A i \in DOMAIN own : Followed(own, n, unified)[i] = own[i]
      /\ \A k \in 1..Len(unified) : Followed(own, n, unified)[n + k] = unified[k]
  BY <1>1, <1>2 DEF Followed
<1>8. (n + 1)..(n + Len(unified)) = IF c.unified > 0 THEN {n + 1} ELSE {}
  <2>1. (n + 1)..(n + 1) = {n + 1} /\ (n + 1)..(n + 0) = {}
    BY <1>1
  <2> QED
    BY <1>2, <2>1, Zenon
<1>9. DOMAIN Inbounds(c) = Exposed(c) \cup IF c.unified > 0 THEN {n + 1} ELSE {}
  BY <1>3, <1>6, <1>7, <1>8
<1>10. \A i \in Exposed(c) :
         Inbounds(c)[i] = Inbound(c.nodes[i].port, c.nodes[i].port)
  BY <1>3, <1>5, <1>6, <1>7
<1>11. c.unified > 0 => Inbounds(c)[n + 1] = Inbound(UnifiedIn, c.unified)
  BY <1>2, <1>3, <1>4, <1>7
<1> QED
  BY <1>9, <1>10, <1>11 DEF n

(* The outbound of a node is at the place of the node; the others follow,  *)
(* which are three, or one without a unified port.                         *)
LEMMA OutboundsAt ==
  ASSUME NEW c, Decodes(c)
  PROVE  LET n == Len(c.nodes)
             direct == Group(Direct, "direct", {})
         IN  /\ \A i \in Enabled(c) : i \in DOMAIN Outbounds(c)
             /\ \A i \in Enabled(c) : Outbounds(c)[i] = NodeOutbound(c.nodes[i])
             /\ \A i \in DOMAIN Outbounds(c) : i \in Enabled(c) \/ i \in {n + 1, n + 2, n + 3}
             /\ c.unified > 0 =>
                  /\ {n + 1, n + 2, n + 3} \subseteq DOMAIN Outbounds(c)
                  /\ Outbounds(c)[n + 1] = Group(AutoTag, "urltest", NodeTags(c))
                  /\ Outbounds(c)[n + 2] =
                       Group(SelectorTag(c), "selector", {AutoTag} \cup NodeTags(c))
                  /\ Outbounds(c)[n + 3] = direct
             /\ ~(c.unified > 0) =>
                  /\ \A i \in DOMAIN Outbounds(c) : i \in Enabled(c) \/ i = n + 1
                  /\ n + 1 \in DOMAIN Outbounds(c) /\ Outbounds(c)[n + 1] = direct
<1> DEFINE n == Len(c.nodes)
           nodes == [i \in Enabled(c) |-> NodeOutbound(c.nodes[i])]
           auto == Group(AutoTag, "urltest", NodeTags(c))
           selector == Group(SelectorTag(c), "selector", {AutoTag} \cup NodeTags(c))
           direct == Group(Direct, "direct", {})
           rest == IF c.unified > 0 THEN <<auto, selector, direct>> ELSE <<direct>>
<1>1. n \in Nat /\ Enabled(c) \subseteq 1..n
  BY DEF Decodes, Enabled
<1>2. DOMAIN nodes = Enabled(c) /\ \A i \in Enabled(c) : nodes[i] = NodeOutbound(c.nodes[i])
  OBVIOUS
<1>3. Outbounds(c) = Followed(nodes, n, rest)
  BY Zenon DEF Outbounds
<1> HIDE DEF n, nodes, auto, selector, direct
<1>4. CASE c.unified > 0
  <2>1. rest = <<auto, selector, direct>>
    BY <1>4
  <2>2. /\ Len(rest) = 3
        /\ rest[1] = auto /\ rest[2] = selector /\ rest[3] = direct
    BY <2>1
  <2> HIDE DEF rest
  <2>3. /\ DOMAIN Followed(nodes, n, rest) = Enabled(c) \cup (n + 1)..(n + 3)
        /\ \A i \in Enabled(c) : Followed(nodes, n, rest)[i] = nodes[i]
        /\ \A k \in 1..3 : Followed(nodes, n, rest)[n + k] = rest[k]
    BY <1>1, <1>2, <2>2 DEF Followed
  <2>4. (n + 1)..(n + 3) = {n + 1, n + 2, n + 3}
    BY <1>1
  <2> QED
    BY <1>2, <1>3, <1>4, <2>2, <2>3, <2>4 DEF n, auto, selector, direct
<1>5. CASE ~(c.unified > 0)
  <2>1. rest = <<direct>>
    BY <1>5
  <2>2. Len(rest) = 1 /\ rest[1] = direct
    BY <2>1
  <2> HIDE DEF rest
  <2>3. /\ DOMAIN Followed(nodes, n, rest) = Enabled(c) \cup (n + 1)..(n + 1)
        /\ \A i \in Enabled(c) : Followed(nodes, n, rest)[i] = nodes[i]
        /\ \A k \in 1..1 : Followed(nodes, n, rest)[n + k] = rest[k]
    BY <1>1, <1>2, <2>2 DEF Followed
  <2>4. (n + 1)..(n + 1) = {n + 1}
    BY <1>1
  <2> QED
    BY <1>2, <1>3, <1>5, <2>2, <2>3, <2>4 DEF n, direct
<1> QED
  BY <1>4, <1>5

(* The rules of each routing mode.                                         *)
LEMMA ModeRulesAt ==
  ASSUME NEW c, c.mode \in Modes
  PROVE  LET mode == ModeRules(c)
             unified == Rule(UnifiedIn, Anything, SelectorTag(c))
         IN  /\ Len(mode) \in Nat /\ DOMAIN mode = 1..Len(mode)
             /\ c.mode = "direct" => Len(mode) = 0
             /\ c.mode = "global" =>
                  IF c.unified > 0 THEN Len(mode) = 1 /\ mode[1] = unified
                  ELSE Len(mode) = 0
             /\ c.mode = "rule" =>
                  /\ mode[1] = Rule(AnyIn, "site", Proxy)
                  /\ mode[2] = Rule(AnyIn, "geoip-cn", Direct)
                  /\ mode[3] = Rule(AnyIn, "geosite-cn", Direct)
                  /\ IF c.unified > 0 THEN Len(mode) = 4 /\ mode[4] = unified
                     ELSE Len(mode) = 3
<1> DEFINE mode == ModeRules(c)
           unified == Rule(UnifiedIn, Anything, SelectorTag(c))
           site == Rule(AnyIn, "site", Proxy)
           ip == Rule(AnyIn, "geoip-cn", Direct)
           name == Rule(AnyIn, "geosite-cn", Direct)
<1>1. /\ UnifiedRules(c) = IF c.unified > 0 THEN <<unified>> ELSE <<>>
      /\ c.mode = "direct" => mode = <<>>
      /\ c.mode = "global" => mode = UnifiedRules(c)
      /\ c.mode = "rule" => mode = <<site, ip, name>> \o UnifiedRules(c)
  BY Zenon DEF UnifiedRules, ModeRules
<1> HIDE DEF mode, unified, site, ip, name
<1>2. CASE c.mode = "direct"
  BY <1>1, <1>2 DEF mode
<1>3. CASE c.mode = "global"
  BY <1>1, <1>3 DEF mode, unified
<1>4. CASE c.mode = "rule"
  <2>1. CASE c.unified > 0
    BY <1>1, <1>4, <2>1 DEF mode, unified, site, ip, name
  <2>2. CASE ~(c.unified > 0)
    BY <1>1, <1>4, <2>2 DEF mode, unified, site, ip, name
  <2> QED
    BY <2>1, <2>2
<1> QED
  BY <1>2, <1>3, <1>4 DEF Modes

(* The rule of a node's port is at the place of the node; those for DNS    *)
(* and of the mode follow.                                                 *)
LEMMA RulesAt ==
  ASSUME NEW c, Decodes(c)
  PROVE  LET n == Len(c.nodes)
             mode == ModeRules(c)
         IN  /\ DOMAIN Rules(c) = Exposed(c) \cup (n + 1)..(n + 1 + Len(mode))
             /\ \A i \in Exposed(c) :
                  Rules(c)[i] = Rule(c.nodes[i].port, Anything, Out(c.nodes[i]))
             /\ Rules(c)[n + 1] = DnsRule
             /\ \A k \in 1..Len(mode) : Rules(c)[n + 1 + k] = mode[k]
             /\ Len(mode) \in Nat
<1> DEFINE n == Len(c.nodes)
           mode == ModeRules(c)
           rest == <<DnsRule>> \o mode
<1>1. n \in Nat /\ Exposed(c) \subseteq 1..n
  BY DEF Decodes, Enabled, Exposed
<1>2. /\ DOMAIN PinRules(c) = Exposed(c)
      /\ \A i \in Exposed(c) :
           PinRules(c)[i] = Rule(c.nodes[i].port, Anything, Out(c.nodes[i]))
  BY DEF PinRules
<1>3. Len(mode) \in Nat /\ DOMAIN mode = 1..Len(mode)
  BY ModeRulesAt DEF Decodes
<1>4. /\ Len(rest) = 1 + Len(mode)
      /\ rest[1] = DnsRule /\ \A k \in 1..Len(mode) : rest[1 + k] = mode[k]
  BY <1>3
<1> HIDE DEF n, mode, rest
<1>5. Rules(c) = Followed(PinRules(c), n, rest)
  BY Zenon DEF Rules, n, rest, mode
<1>6. /\ DOMAIN Rules(c) = Exposed(c) \cup (n + 1)..(n + Len(rest))
      /\ \A i \in Exposed(c) : Rules(c)[i] = PinRules(c)[i]
      /\ \A k \in 1..Len(rest) : Rules(c)[n + k] = rest[k]
  BY <1>1, <1>2, <1>3, <1>4, <1>5 DEF Followed
<1>7. \A k \in 1..Len(mode) : Rules(c)[n + 1 + k] = mode[k]
  BY <1>1, <1>3, <1>4, <1>6
<1>8. Rules(c)[n + 1] = DnsRule
  BY <1>1, <1>3, <1>4, <1>6
<1>9. (n + 1)..(n + Len(rest)) = (n + 1)..(n + 1 + Len(mode))
  BY <1>1, <1>3, <1>4
<1> QED
  BY <1>2, <1>3, <1>6, <1>7, <1>8, <1>9, Zenon DEF n, mode

-----------------------------------------------------------------------------
(* Where connections go *)

(* A tag names the one outbound that has it.                               *)
LEMMA OutboundOf ==
  ASSUME NEW c, Runnable(c), NEW i \in DOMAIN Outbounds(c)
  PROVE  Outbound(Generate(c), Outbounds(c)[i].tag) = Outbounds(c)[i]
<1>1. Generate(c).outbounds = Outbounds(c)
  BY DEF Generate
<1>2. \A j \in DOMAIN Outbounds(c) : Outbounds(c)[j].tag = Outbounds(c)[i].tag => j = i
  BY <1>1, Zenon DEF Runnable, Accepts
<1> QED
  BY <1>1, <1>2, Zenon DEF Outbound

(* That of an enabled node is its own.                                     *)
LEMMA NodeOf ==
  ASSUME NEW c, Runnable(c), NEW i \in Enabled(c)
  PROVE  Outbound(Generate(c), Out(c.nodes[i])) = NodeOutbound(c.nodes[i])
<1>1. i \in DOMAIN Outbounds(c) /\ Outbounds(c)[i] = NodeOutbound(c.nodes[i])
  BY OutboundsAt, Zenon DEF Runnable
<1>2. NodeOutbound(c.nodes[i]).tag = Out(c.nodes[i])
  BY DEF NodeOutbound
<1> QED
  BY <1>1, <1>2, OutboundOf, Zenon

(* A connection to the port of a node meets the rule of that node first.   *)
LEMMA PinDecides ==
  ASSUME NEW c, Runnable(c), NEW i \in Exposed(c), NEW marks
  PROVE  Decided(Generate(c), c.nodes[i].port, marks) = Out(c.nodes[i])
<1> DEFINE g == Generate(c)
           n == Len(c.nodes)
           F == Fitting(g, c.nodes[i].port, marks)
<1>1. g.rules = Rules(c)
  BY DEF Generate
<1>2. n \in Nat /\ Exposed(c) \subseteq 1..n
  BY DEF Runnable, Decodes, Enabled, Exposed
<1>3. /\ DOMAIN Rules(c) = Exposed(c) \cup (n + 1)..(n + 1 + Len(ModeRules(c)))
      /\ \A j \in Exposed(c) : Rules(c)[j] = Rule(c.nodes[j].port, Anything, Out(c.nodes[j]))
      /\ Len(ModeRules(c)) \in Nat
  BY RulesAt DEF Runnable
<1>4. i \in F /\ F \in SUBSET Nat
  BY <1>1, <1>2, <1>3 DEF Fitting, Rule
<1>5. \A j \in F : j <= n => j = i
  <2> SUFFICES ASSUME NEW j \in F, j <= n PROVE j = i
    OBVIOUS
  <2>1. j \in Exposed(c) /\ Rules(c)[j].from \in {c.nodes[i].port, AnyIn}
    BY <1>1, <1>2, <1>3 DEF Fitting
  <2>2. c.nodes[j].port \in Int /\ c.nodes[j].port > 0
    BY <2>1 DEF Exposed, Enabled, Runnable, Decodes
  <2>3. c.nodes[j].port \in {c.nodes[i].port, AnyIn}
    BY <1>3, <2>1 DEF Rule
  <2>4. c.nodes[j].port = c.nodes[i].port
    BY <2>2, <2>3 DEF AnyIn
  <2> QED
    BY <2>1, <2>4 DEF Runnable, Valid, Exposed, Enabled
<1>6. Min(F) \in F /\ \A j \in F : Min(F) <= j
  <2> HIDE DEF F
  <2> QED
    BY <1>4, First
<1>7. Min(F) = i
  BY <1>2, <1>4, <1>5, <1>6
<1>8. Rules(c)[i].to = Out(c.nodes[i])
  BY <1>3 DEF Rule
<1> HIDE DEF g
<1> QED
  BY <1>1, <1>4, <1>7, <1>8, Zenon DEF Decided, g

(* The ports that a core listens on.                                       *)
LEMMA PortsOf ==
  ASSUME NEW c, Runnable(c)
  PROVE  Listens(c) \ {ClashPort, c.unified} = {c.nodes[i].port : i \in Exposed(c)}
<1>1. \A i \in Exposed(c) : c.nodes[i].port \notin {ClashPort, c.unified}
  BY DEF Exposed, Enabled, Runnable, Valid, Decodes, ClashPort
<1>2. /\ Exposed(c) \subseteq DOMAIN Inbounds(c)
      /\ \A i \in Exposed(c) : Inbounds(c)[i].port = c.nodes[i].port
      /\ \A i \in DOMAIN Inbounds(c) : i \in Exposed(c) \/ Inbounds(c)[i].port = c.unified
  <2>1. Decodes(c)
    BY DEF Runnable
  <2>2. /\ Exposed(c) \subseteq DOMAIN Inbounds(c)
        /\ \A i \in DOMAIN Inbounds(c) :
             i \in Exposed(c) \/ (c.unified > 0 /\ i = Len(c.nodes) + 1)
        /\ \A i \in Exposed(c) :
             Inbounds(c)[i] = Inbound(c.nodes[i].port, c.nodes[i].port)
        /\ c.unified > 0 =>
             Inbounds(c)[Len(c.nodes) + 1] = Inbound(UnifiedIn, c.unified)
    BY <2>1, InboundsAt, Zenon
  <2>3. \A tag, port : Inbound(tag, port).port = port
    BY DEF Inbound
  <2>4. ASSUME NEW i \in Exposed(c) PROVE Inbounds(c)[i].port = c.nodes[i].port
    <3>1. Inbounds(c)[i] = Inbound(c.nodes[i].port, c.nodes[i].port)
      BY <2>2
    <3> QED
      BY <2>3, <3>1
  <2>5. c.unified > 0 => Inbounds(c)[Len(c.nodes) + 1].port = c.unified
    BY <2>2, <2>3
  <2> QED
    BY <2>2, <2>4, <2>5
<1> QED
  BY <1>1, <1>2 DEF Listens

(* Node ports stay pinned.                                                 *)
THEOREM PortsPinned == \A c : Runnable(c) => Pinned(c)
<1> SUFFICES ASSUME NEW c, Runnable(c) PROVE Pinned(c)
  OBVIOUS
<1>1. \A i \in Exposed(c) : i \in Enabled(c)
  BY DEF Exposed
<1>2. \A i \in Exposed(c), marks \in SUBSET Marks :
        Outbound(Generate(c), Decided(Generate(c), c.nodes[i].port, marks)) =
          NodeOutbound(c.nodes[i])
  BY <1>1, PinDecides, NodeOf, Zenon
<1> QED
  BY <1>2, PortsOf, Zenon DEF Pinned

-----------------------------------------------------------------------------
(* The unified port *)

(* The outbounds that are not those of nodes.                              *)
LEMMA GroupOf ==
  ASSUME NEW c, Runnable(c)
  PROVE  /\ Outbound(Generate(c), Direct) = Group(Direct, "direct", {})
         /\ c.unified > 0 =>
              Outbound(Generate(c), SelectorTag(c)) =
                Group(SelectorTag(c), "selector", {AutoTag} \cup NodeTags(c))
<1> DEFINE n == Len(c.nodes)
           selector == Group(SelectorTag(c), "selector", {AutoTag} \cup NodeTags(c))
           direct == Group(Direct, "direct", {})
<1>1. direct.tag = Direct /\ selector.tag = SelectorTag(c)
  BY DEF Group
<1>2. Decodes(c)
  BY DEF Runnable
<1>3. CASE c.unified > 0
  <2>1. /\ n + 2 \in DOMAIN Outbounds(c) /\ Outbounds(c)[n + 2] = selector
        /\ n + 3 \in DOMAIN Outbounds(c) /\ Outbounds(c)[n + 3] = direct
    BY <1>2, <1>3, OutboundsAt, Zenon
  <2> HIDE DEF selector, direct
  <2>2. /\ Outbound(Generate(c), Outbounds(c)[n + 2].tag) = Outbounds(c)[n + 2]
        /\ Outbound(Generate(c), Outbounds(c)[n + 3].tag) = Outbounds(c)[n + 3]
    BY <2>1, OutboundOf, Zenon
  <2> QED
    BY <1>1, <2>1, <2>2, Zenon DEF selector, direct
<1>4. CASE ~(c.unified > 0)
  <2>1. n + 1 \in DOMAIN Outbounds(c) /\ Outbounds(c)[n + 1] = direct
    BY <1>2, <1>4, OutboundsAt, Zenon
  <2> HIDE DEF selector, direct
  <2>2. Outbound(Generate(c), Outbounds(c)[n + 1].tag) = Outbounds(c)[n + 1]
    BY <2>1, OutboundOf, Zenon
  <2> QED
    BY <1>1, <1>4, <2>1, <2>2, Zenon DEF direct
<1> QED
  BY <1>3, <1>4

(* sing-box accepts a name for the selector only where nothing asks for    *)
(* "proxy".                                                                *)
LEMMA ProxySelects ==
  ASSUME NEW c, Runnable(c), c.unified > 0, c.mode # "direct"
  PROVE  SelectorTag(c) = Proxy
<1> DEFINE n == Len(c.nodes)
<1>1. PICK i \in DOMAIN Outbounds(c) : Outbounds(c)[i].tag = Proxy
  <2>1. Generate(c).final = Proxy /\ Generate(c).outbounds = Outbounds(c)
    BY DEF Generate, Final
  <2> QED
    BY <2>1 DEF Runnable, Accepts
<1>2. i \in Enabled(c) \/ i \in {n + 1, n + 2, n + 3}
  BY OutboundsAt, Zenon DEF Runnable
<1>3. i \notin Enabled(c)
  <2>1. ASSUME i \in Enabled(c) PROVE Outbounds(c)[i] = NodeOutbound(c.nodes[i])
    BY <2>1, OutboundsAt, Zenon DEF Runnable
  <2>2. NodeOutbound(c.nodes[i]).tag = Out(c.nodes[i])
    BY DEF NodeOutbound
  <2> QED
    BY <1>1, <2>1, <2>2, Tags, Zenon
<1>4. /\ Outbounds(c)[n + 1].tag = AutoTag
      /\ Outbounds(c)[n + 2].tag = SelectorTag(c)
      /\ Outbounds(c)[n + 3].tag = Direct
  <2>1. /\ Outbounds(c)[n + 1] = Group(AutoTag, "urltest", NodeTags(c))
        /\ Outbounds(c)[n + 2] =
             Group(SelectorTag(c), "selector", {AutoTag} \cup NodeTags(c))
        /\ Outbounds(c)[n + 3] = Group(Direct, "direct", {})
    BY OutboundsAt, Zenon DEF Runnable
  <2>2. \A tag, kind, via : Group(tag, kind, via).tag = tag
    BY DEF Group
  <2> QED
    BY <2>1, <2>2
<1> QED
  BY <1>1, <1>2, <1>3, <1>4, Tags, Zenon

(* What a connection to the unified port meets first.                      *)
LEMMA UnifiedDecides ==
  ASSUME NEW c, Runnable(c), c.unified > 0, NEW marks \in SUBSET (Marks \ {"dns"})
  PROVE  Decided(Generate(c), UnifiedIn, marks) =
           IF c.mode = "direct" \/ (c.mode = "rule" /\ China(marks)) THEN Direct
           ELSE SelectorTag(c)
<1> DEFINE g == Generate(c)
           n == Len(c.nodes)
           mode == ModeRules(c)
           F == Fitting(g, UnifiedIn, marks)
           Fits(r) == r.from \in {UnifiedIn, AnyIn} /\ r.mark \in marks \cup {Anything}
<1>1. g.rules = Rules(c) /\ g.final = Final(c)
  BY DEF Generate
<1>2. n \in Nat /\ Exposed(c) \subseteq 1..n
  BY DEF Runnable, Decodes, Enabled, Exposed
<1>3. /\ DOMAIN Rules(c) = Exposed(c) \cup (n + 1)..(n + 1 + Len(mode))
      /\ \A j \in Exposed(c) : Rules(c)[j] = Rule(c.nodes[j].port, Anything, Out(c.nodes[j]))
      /\ Rules(c)[n + 1] = DnsRule
      /\ \A k \in 1..Len(mode) : Rules(c)[n + 1 + k] = mode[k]
      /\ Len(mode) \in Nat
  BY RulesAt DEF Runnable
<1>4. \A j \in Exposed(c) : ~Fits(Rules(c)[j])
  <2>1. \A j \in Exposed(c) : c.nodes[j].port \in Int /\ c.nodes[j].port > 0
    BY DEF Exposed, Enabled, Runnable, Decodes
  <2>2. \A j \in Exposed(c) : Rules(c)[j].from = c.nodes[j].port
    BY <1>3 DEF Rule
  <2> QED
    BY <2>1, <2>2 DEF UnifiedIn, AnyIn
<1>5. ~Fits(Rules(c)[n + 1])
  BY <1>3 DEF DnsRule, Rule, Anything
<1>6. F = {j \in DOMAIN Rules(c) : Fits(Rules(c)[j])}
  BY <1>1, Zenon DEF Fitting
<1>7. /\ F \subseteq (n + 2)..(n + 1 + Len(mode))
      /\ \A k \in 1..Len(mode) : n + 1 + k \in F <=> Fits(mode[k])
  BY <1>2, <1>3, <1>4, <1>5, <1>6
<1>8. ASSUME NEW k \in 1..Len(mode), Fits(mode[k]),
             \A j \in 1..Len(mode) : Fits(mode[j]) => k <= j
      PROVE  Decided(g, UnifiedIn, marks) = mode[k].to
  <2>1. n + 1 + k \in F /\ F \in SUBSET Nat
    BY <1>2, <1>3, <1>7, <1>8
  <2>2. Min(F) \in F /\ \A j \in F : Min(F) <= j
    <3> HIDE DEF F
    <3> QED
      BY <2>1, First
  <2>3. PICK j \in 1..Len(mode) : Min(F) = n + 1 + j
    <3> HIDE DEF F
    <3>1. \A i \in F : i - (n + 1) \in 1..Len(mode) /\ i = n + 1 + (i - (n + 1))
      <4> HIDE DEF n, mode, Fits
      <4> SUFFICES ASSUME NEW i \in F
                   PROVE  i - (n + 1) \in 1..Len(mode) /\ i = n + 1 + (i - (n + 1))
        OBVIOUS
      <4>1. i \in (n + 2)..(n + 1 + Len(mode)) /\ n \in Nat /\ Len(mode) \in Nat
        BY <1>2, <1>3, <1>7, Zenon
      <4> QED
        BY <4>1
    <3> QED
      BY <2>2, <3>1
  <2>4. Fits(mode[j])
    BY <1>7, <2>2, <2>3
  <2>5. j = k
    <3> HIDE DEF F, Fits
    <3> QED
      BY <1>2, <1>3, <1>8, <2>1, <2>2, <2>3, <2>4
  <2>6. g.rules[Min(F)] = mode[k]
    BY <1>1, <1>3, <2>3, <2>5
  <2> HIDE DEF g
  <2> QED
    BY <2>1, <2>6, Zenon DEF Decided
<1>9. /\ c.mode = "direct" => Len(mode) = 0
      /\ c.mode = "global" => Len(mode) = 1 /\ mode[1] = Rule(UnifiedIn, Anything, SelectorTag(c))
      /\ c.mode = "rule" =>
           /\ Len(mode) = 4
           /\ mode[1] = Rule(AnyIn, "site", Proxy)
           /\ mode[2] = Rule(AnyIn, "geoip-cn", Direct)
           /\ mode[3] = Rule(AnyIn, "geosite-cn", Direct)
           /\ mode[4] = Rule(UnifiedIn, Anything, SelectorTag(c))
  BY ModeRulesAt DEF Runnable, Decodes
<1>10. CASE c.mode = "direct"
  <2>1. F = {}
    BY <1>2, <1>7, <1>9, <1>10
  <2>2. g.final = Direct
    BY <1>1, <1>10 DEF Final
  <2> QED
    BY <1>10, <2>1, <2>2, Zenon DEF Decided
<1> HIDE DEF g, F, mode
<1>11. CASE c.mode = "global"
  <2>1. 1 \in 1..Len(mode) /\ Fits(mode[1]) /\ \A j \in 1..Len(mode) : 1 <= j
    BY <1>9, <1>11 DEF Rule
  <2>2. mode[1].to = SelectorTag(c)
    BY <1>9, <1>11 DEF Rule
  <2>3. Decided(g, UnifiedIn, marks) = mode[1].to
    BY <1>8, <2>1
  <2> QED
    BY <1>11, <2>2, <2>3 DEF g
<1>12. CASE c.mode = "rule"
  <2>1. /\ Fits(mode[1]) <=> "site" \in marks
        /\ Fits(mode[2]) <=> "geoip-cn" \in marks
        /\ Fits(mode[3]) <=> "geosite-cn" \in marks
        /\ Fits(mode[4])
    BY <1>9, <1>12 DEF Rule, Marks, Anything
  <2>2. /\ mode[1].to = Proxy /\ mode[2].to = Direct /\ mode[3].to = Direct
        /\ mode[4].to = SelectorTag(c)
    BY <1>9, <1>12 DEF Rule
  <2>3. 1..Len(mode) = {1, 2, 3, 4}
    <3>1. Len(mode) = 4 /\ 1..4 = {1, 2, 3, 4}
      BY <1>9, <1>12
    <3> QED
      BY <3>1, Zenon
  <2>4. SelectorTag(c) = Proxy
    BY <1>12, ProxySelects
  <2> HIDE DEF Fits
  <2>5. CASE "site" \in marks
    <3>1. Decided(g, UnifiedIn, marks) = mode[1].to
      BY <1>8, <2>1, <2>3, <2>5
    <3> QED
      BY <1>12, <2>2, <2>4, <2>5, <3>1 DEF China, g
  <2>6. CASE "site" \notin marks /\ "geoip-cn" \in marks
    <3>1. Decided(g, UnifiedIn, marks) = mode[2].to
      BY <1>8, <2>1, <2>3, <2>6
    <3> QED
      BY <1>12, <2>2, <2>6, <3>1 DEF China, g
  <2>7. CASE "site" \notin marks /\ "geoip-cn" \notin marks /\ "geosite-cn" \in marks
    <3>1. Decided(g, UnifiedIn, marks) = mode[3].to
      BY <1>8, <2>1, <2>3, <2>7
    <3> QED
      BY <1>12, <2>2, <2>7, <3>1 DEF China, g
  <2>8. CASE "site" \notin marks /\ "geoip-cn" \notin marks /\ "geosite-cn" \notin marks
    <3>1. Decided(g, UnifiedIn, marks) = mode[4].to
      BY <1>8, <2>1, <2>3, <2>8
    <3> QED
      BY <1>12, <2>2, <2>8, <3>1 DEF China, g
  <2> QED
    BY <2>5, <2>6, <2>7, <2>8
<1> QED
  BY <1>10, <1>11, <1>12 DEF Runnable, Decodes, Modes

(* The table of routing modes.                                             *)
THEOREM ModesRoute == \A c : Runnable(c) => ByMode(c)
<1> SUFFICES ASSUME NEW c, Runnable(c), c.unified > 0, NEW marks \in SUBSET (Marks \ {"dns"})
             PROVE  LET to == Outbound(Generate(c), Decided(Generate(c), UnifiedIn, marks))
                    IN  IF c.mode = "direct" \/ (c.mode = "rule" /\ China(marks))
                        THEN to.kind = "direct"
                        ELSE /\ to.kind = "selector"
                             /\ {Outbound(Generate(c), t).at : t \in to.via \ {AutoTag}} =
                                  {c.nodes[i].at : i \in Enabled(c)}
  BY Zenon DEF ByMode
<1> DEFINE g == Generate(c)
           selector == Group(SelectorTag(c), "selector", {AutoTag} \cup NodeTags(c))
<1>1. CASE c.mode = "direct" \/ (c.mode = "rule" /\ China(marks))
  <2>1. Outbound(g, Decided(g, UnifiedIn, marks)) = Group(Direct, "direct", {})
    BY <1>1, UnifiedDecides, GroupOf, Zenon
  <2>2. Group(Direct, "direct", {}).kind = "direct"
    BY DEF Group
  <2> QED
    BY <1>1, <2>1, <2>2, Zenon
<1>2. CASE ~(c.mode = "direct" \/ (c.mode = "rule" /\ China(marks)))
  <2>1. Outbound(g, Decided(g, UnifiedIn, marks)) = selector
    BY <1>2, UnifiedDecides, GroupOf, Zenon
  <2>2. selector.kind = "selector" /\ selector.via = {AutoTag} \cup NodeTags(c)
    BY DEF Group
  <2>3. AutoTag \notin NodeTags(c)
    BY Tags, Zenon DEF NodeTags
  <2>4. selector.via \ {AutoTag} = NodeTags(c)
    BY <2>2, <2>3, Zenon
  <2>5. \A i \in Enabled(c) : Outbound(g, Out(c.nodes[i])).at = c.nodes[i].at
    <3>1. \A i \in Enabled(c) : Outbound(g, Out(c.nodes[i])) = NodeOutbound(c.nodes[i])
      BY NodeOf, Zenon
    <3>2. \A q : NodeOutbound(q).at = q.at
      BY DEF NodeOutbound
    <3> HIDE DEF g
    <3> QED
      BY <3>1, <3>2
  <2> HIDE DEF g, selector
  <2>6. {Outbound(g, t).at : t \in NodeTags(c)} = {c.nodes[i].at : i \in Enabled(c)}
    BY <2>5 DEF NodeTags
  <2> QED
    BY <1>2, <2>1, <2>2, <2>4, <2>6, Zenon DEF g
<1> QED
  BY <1>1, <1>2

-----------------------------------------------------------------------------
(* The menu of nodes                                                       *)

(* What the tag "auto" and the selector's name stand for.                  *)
LEMMA AutoOf ==
  ASSUME NEW c, Runnable(c), c.unified > 0
  PROVE  /\ Outbound(Generate(c), AutoTag) = Group(AutoTag, "urltest", NodeTags(c))
         /\ Outbound(Generate(c), SelectorTag(c)).via = {AutoTag} \cup NodeTags(c)
<1> DEFINE n == Len(c.nodes)
           auto == Group(AutoTag, "urltest", NodeTags(c))
           g == Generate(c)
<1>1. n + 1 \in DOMAIN Outbounds(c) /\ Outbounds(c)[n + 1] = auto
  <2>1. Decodes(c)
    BY DEF Runnable
  <2> QED
    BY <2>1, OutboundsAt, Zenon
<1>2. auto.tag = AutoTag
  BY DEF Group
<1>3. Outbound(g, Outbounds(c)[n + 1].tag) = Outbounds(c)[n + 1]
  BY <1>1, OutboundOf, Zenon
<1>4. Outbound(g, SelectorTag(c)) =
        Group(SelectorTag(c), "selector", {AutoTag} \cup NodeTags(c))
  BY GroupOf, Zenon
<1>5. \A tag, kind, via : Group(tag, kind, via).via = via
  BY DEF Group
<1> HIDE DEF g
<1>6. Outbound(g, SelectorTag(c)).via = {AutoTag} \cup NodeTags(c)
  BY <1>4, <1>5
<1> HIDE DEF auto
<1>7. Outbound(g, AutoTag) = auto
  BY <1>1, <1>2, <1>3, Zenon
<1> QED
  BY <1>6, <1>7 DEF auto, g

(* The names and the outbounds of enabled nodes belong together.           *)
LEMMA NamesAndTags ==
  ASSUME NEW c, Runnable(c), NEW i \in Enabled(c)
  PROVE  /\ SelectedProxy(c, Out(c.nodes[i])) = c.nodes[i].name
         /\ c.nodes[i].name # AutoTag =>
              SelectionTag(c, c.nodes[i].name) = Out(c.nodes[i])
<1> DEFINE p == c.nodes[i]
           named == {j \in Enabled(c) : c.nodes[j].name = p.name}
           fits == {j \in Enabled(c) : Out(c.nodes[j]) = Out(p)}
<1>1. \A j \in Enabled(c) : Out(c.nodes[j]) = Out(p) => j = i
  <2> SUFFICES ASSUME NEW j \in Enabled(c), Out(c.nodes[j]) = Out(p) PROVE j = i
    OBVIOUS
  <2>1. /\ i \in DOMAIN Outbounds(c) /\ Outbounds(c)[i] = NodeOutbound(p)
        /\ j \in DOMAIN Outbounds(c) /\ Outbounds(c)[j] = NodeOutbound(c.nodes[j])
    BY OutboundsAt, Zenon DEF Runnable
  <2>2. Outbounds(c)[i].tag = Outbounds(c)[j].tag
    BY <2>1 DEF NodeOutbound
  <2>3. Generate(c).outbounds = Outbounds(c)
    BY DEF Generate
  <2> QED
    BY <2>1, <2>2, <2>3, Zenon DEF Runnable, Accepts
<1>2. named \in SUBSET Nat /\ fits \in SUBSET Nat
  BY DEF Enabled, Runnable, Decodes
<1>3. i \in named /\ i \in fits
  OBVIOUS
<1>4. \A j \in named : j = i
  BY <1>1 DEF Out
<1>5. \A j \in fits : j = i
  BY <1>1
<1>6. Min(named) = i /\ Min(fits) = i
  <2> HIDE DEF named, fits
  <2> QED
    BY <1>2, <1>3, <1>4, <1>5, First
<1>7. p.name # AutoTag => SelectionTag(c, p.name) = Out(p)
  BY <1>3, <1>6, Zenon DEF SelectionTag
<1>8. SelectedProxy(c, Out(p)) = p.name
  BY <1>3, <1>6, Zenon DEF SelectedProxy
<1> QED
  BY <1>7, <1>8

(* The selector can be told to use any enabled node that is not named      *)
(* "auto", and "auto" chooses among all of them.                           *)
THEOREM NodesSelectable == \A c : Runnable(c) => Selectable(c)
<1> SUFFICES ASSUME NEW c, Runnable(c), c.unified > 0
             PROVE  Selectable(c)
  BY Zenon DEF Selectable
<1> DEFINE g == Generate(c)
           all == Group(AutoTag, "urltest", NodeTags(c))
<1>1. Outbound(g, SelectorTag(c)).via = {AutoTag} \cup NodeTags(c) /\ Outbound(g, AutoTag) = all
  BY AutoOf, Zenon
<1>2. all.kind = "urltest" /\ all.via = NodeTags(c)
  BY DEF Group
<1>3. \A i \in Enabled(c) : /\ Outbound(g, Out(c.nodes[i])).kind = "node"
                            /\ Outbound(g, Out(c.nodes[i])).at = c.nodes[i].at
  <2>1. \A i \in Enabled(c) : Outbound(g, Out(c.nodes[i])) = NodeOutbound(c.nodes[i])
    BY NodeOf, Zenon
  <2>2. \A q : NodeOutbound(q).kind = "node" /\ NodeOutbound(q).at = q.at
    BY DEF NodeOutbound
  <2> HIDE DEF g
  <2> QED
    BY <2>1, <2>2
<1>4. \A i \in Enabled(c) : SelectedProxy(c, Out(c.nodes[i])) = c.nodes[i].name
  BY NamesAndTags, Zenon
<1> HIDE DEF g, all
<1>5. ASSUME NEW i \in Enabled(c), c.nodes[i].name # AutoTag
      PROVE  /\ ByName(c, c.nodes[i])
             /\ SelectedProxy(c, SelectionTag(c, c.nodes[i].name)) = c.nodes[i].name
  <2>1. SelectionTag(c, c.nodes[i].name) = Out(c.nodes[i])
    BY <1>5, NamesAndTags, Zenon
  <2>2. Out(c.nodes[i]) \in NodeTags(c)
    BY Zenon DEF NodeTags
  <2> QED
    BY <1>1, <1>3, <1>4, <2>1, <2>2, Zenon DEF ByName, g
<1>6. SelectionTag(c, AutoTag) = AutoTag
  BY Zenon DEF SelectionTag
<1>7. {<<Outbound(g, t).at, SelectedProxy(c, t)>> : t \in NodeTags(c)} =
        {<<c.nodes[i].at, c.nodes[i].name>> : i \in Enabled(c)}
  BY <1>3, <1>4 DEF NodeTags
<1>8. AutoTag \in Outbound(g, SelectorTag(c)).via /\ Outbound(g, AutoTag).kind = "urltest"
  BY <1>1, <1>2, Zenon
<1>9. Outbound(g, AutoTag).via = NodeTags(c)
  BY <1>1, <1>2, Zenon
<1> QED
  BY <1>5, <1>6, <1>7, <1>8, <1>9, Zenon DEF Selectable, g

-----------------------------------------------------------------------------
(* The program *)

(* Where the program has not launched its supervisor yet.                  *)
Preparing ==
  {"loaded", "save", "rename", "generate", "generating", "check", "launch"}

(* Where it has.                                                           *)
Launched == {"window", "running", "stopping"}

(* A running program has a configuration, and the number of a run.         *)
ProgramInv == pc # "off" => cfg \in Inputs /\ run \in Runs

(* Nothing belongs to a run before it launches its supervisor.             *)
FreshInv ==
  /\ \A i \in Runs : i > run => sup[i] = "none" /\ core[i] = "none"
  /\ pc \in Preparing => sup[run] = "none" /\ core[run] = "none"

(* What is in memory is on disk, and downloaded if there is a subscription.*)
StoredInv ==
  /\ pc = "loaded" => cfg = file.cfg
  /\ pc \in {"save", "rename"} => fetched
  /\ pc \in {"generate", "generating", "check", "launch"} \cup Launched =>
       cfg = file.cfg /\ (cfg.subscribed => fetched)

(* What is generated is what is in memory, and what the core has read.     *)
GeneratedInv ==
  /\ pc \in {"check", "launch"} \cup Launched => gen = cfg
  /\ pc \in Launched /\ core[run] = "up" => reads[run] = cfg

(* A run that has ended in order has neither a core nor a supervisor that  *)
(* will start one.                                                         *)
EndedInv ==
  pc = "off" /\ exit \in {"stopped", "failed"} =>
    run = 0 \/ (core[run] \notin Alive /\ sup[run] # "spawning")

(* A core that is alive has a supervisor, or had one that was killed.      *)
SupervisedInv ==
  \A i \in Runs : core[i] \in Alive => sup[i] \in {"watching", "terminating", "killed"}

Connected ==
  ProgramInv /\ FreshInv /\ StoredInv /\ GeneratedInv /\ EndedInv /\ SupervisedInv

IndInv == TypeOK /\ Connected

-----------------------------------------------------------------------------
(* What sorts of values there are: the flags, then everything else.        *)
LEMMA ProgramFlags == ASSUME FlagsOK, Program PROVE FlagsOK'
<1> USE DEF FlagsOK, files, program, children
<1>1. CASE Begin
  BY <1>1, Zenon DEF Begin
<1>2. CASE NoSubscription
  BY <1>2, Zenon DEF NoSubscription, Go
<1>3. CASE Downloads
  BY <1>3, Zenon DEF Downloads, Go
<1>4. CASE DownloadFails
  BY <1>4, Zenon DEF DownloadFails, Fails, Ends
<1>5. CASE SaveWrites
  BY <1>5, Zenon DEF SaveWrites, Go
<1>6. CASE SaveRenames
  BY <1>6, Zenon DEF SaveRenames, Go
<1>7. CASE Truncate
  BY <1>7, Zenon DEF Truncate, Go
<1>8. CASE Write
  BY <1>8, Zenon DEF Write, Go
<1>9. CASE Check
  BY <1>9, Zenon DEF Check, Go
<1>10. CASE Refused
  BY <1>10, Zenon DEF Refused, Fails, Ends
<1>11. CASE Launch
  BY <1>11, Zenon DEF Launch, Go
<1>12. CASE StepFails
  BY <1>12, Zenon DEF StepFails, Fails, Ends
<1>13. CASE WindowPasses
  BY <1>13, Zenon DEF WindowPasses, Go
<1>14. CASE CoreLost
  BY <1>14, Zenon DEF CoreLost, Fails, Ends
<1>15. CASE Stop
  BY <1>15, Zenon DEF Stop, Go
<1>16. CASE StopReturns
  BY <1>16, Zenon DEF StopReturns, Ends
<1>17. CASE StopTimesOut
  BY <1>17, Zenon DEF StopTimesOut, Ends
<1> QED
  BY <1>1, <1>2, <1>3, <1>4, <1>5, <1>6, <1>7, <1>8, <1>9, <1>10,
     <1>11, <1>12, <1>13, <1>14, <1>15, <1>16, <1>17 DEF Program

(* The truth values, under steps of supervisors and cores.                 *)
LEMMA SupervisorFlags ==
  ASSUME FlagsOK, NEW i \in Runs,
         Supervisor(i) \/ ToldToEnd(i) \/ SupervisorKilled(i) \/ ComesUp(i) \/ CoreExits(i)
  PROVE  FlagsOK'
<1> USE DEF FlagsOK, files, program, children
<1>1. CASE StartsCore(i)
  BY <1>1, Zenon DEF StartsCore
<1>2. CASE StartFails(i)
  BY <1>2, Zenon DEF StartFails
<1>3. CASE Notices(i)
  BY <1>3, Zenon DEF Notices
<1>4. CASE Kills(i)
  BY <1>4, Zenon DEF Kills
<1>5. CASE Reaps(i)
  BY <1>5, Zenon DEF Reaps
<1>6. CASE ToldToEnd(i)
  BY <1>6, Zenon DEF ToldToEnd
<1>7. CASE SupervisorKilled(i)
  BY <1>7, Zenon DEF SupervisorKilled
<1>8. CASE ComesUp(i)
  BY <1>8, Zenon DEF ComesUp
<1>9. CASE CoreExits(i)
  BY <1>9, Zenon DEF CoreExits
<1> QED
  BY <1>1, <1>2, <1>3, <1>4, <1>5, <1>6, <1>7, <1>8, <1>9 DEF Supervisor

(* The truth values, under signals, kills and edits.                       *)
LEMMA UserFlags == ASSUME FlagsOK, Signal \/ Killed \/ Edit PROVE FlagsOK'
<1> USE DEF FlagsOK, files, program, children
<1>1. CASE Signal
  BY <1>1, Zenon DEF Signal
<1>2. CASE Killed
  BY <1>2, Zenon DEF Killed, Ends
<1>3. CASE Edit
  BY <1>3, Zenon DEF Edit
<1> QED
  BY <1>1, <1>2, <1>3 DEF FlagsOK

(* The types of everything else, under steps of the program.               *)
LEMMA ProgramTypes ==
  ASSUME TypeOK, ProgramInv, Program
  PROVE  PlacesOK' /\ file' \in [cfg : Inputs, private : BOOLEAN]
<1> USE DEF TypeOK, PlacesOK, ProgramInv, Runs, files, program, children
<1>1. CASE Begin
  BY <1>1, RunsAssumption, ConfigsAssumption, SMT DEF Begin, Usable
<1>2. CASE NoSubscription
  BY <1>2, RunsAssumption, ConfigsAssumption, SMT DEF NoSubscription, Go
<1>3. CASE Downloads
  BY <1>3, RunsAssumption, ConfigsAssumption, SMT DEF Downloads, Updates, Go
<1>4. CASE DownloadFails
  BY <1>4, RunsAssumption, ConfigsAssumption, SMT DEF DownloadFails, Fails, Ends
<1>5. CASE SaveWrites
  BY <1>5, RunsAssumption, ConfigsAssumption, SMT DEF SaveWrites, Temporary, Go
<1>6. CASE SaveRenames
  BY <1>6, RunsAssumption, ConfigsAssumption, SMT DEF SaveRenames, Go
<1>7. CASE Truncate
  BY <1>7, RunsAssumption, ConfigsAssumption, SMT DEF Truncate, Go
<1>8. CASE Write
  BY <1>8, RunsAssumption, ConfigsAssumption, SMT DEF Write, Go
<1>9. CASE Check
  BY <1>9, RunsAssumption, ConfigsAssumption, SMT DEF Check, Go
<1>10. CASE Refused
  BY <1>10, RunsAssumption, ConfigsAssumption, SMT DEF Refused, Fails, Ends
<1>11. CASE Launch
  BY <1>11, RunsAssumption, ConfigsAssumption, SMT DEF Launch, Go
<1>12. CASE StepFails
  BY <1>12, RunsAssumption, ConfigsAssumption, SMT DEF StepFails, Fails, Ends
<1>13. CASE WindowPasses
  BY <1>13, RunsAssumption, ConfigsAssumption, SMT DEF WindowPasses, Go
<1>14. CASE CoreLost
  BY <1>14, RunsAssumption, ConfigsAssumption, SMT DEF CoreLost, Reaped, Fails, Ends
<1>15. CASE Stop
  BY <1>15, RunsAssumption, ConfigsAssumption, SMT DEF Stop, Go
<1>16. CASE StopReturns
  BY <1>16, RunsAssumption, ConfigsAssumption, SMT DEF StopReturns, Reaped, Ends
<1>17. CASE StopTimesOut
  BY <1>17, RunsAssumption, ConfigsAssumption, SMT DEF StopTimesOut, Ends
<1> QED
  BY <1>1, <1>2, <1>3, <1>4, <1>5, <1>6, <1>7, <1>8, <1>9, <1>10,
     <1>11, <1>12, <1>13, <1>14, <1>15, <1>16, <1>17 DEF Program

(* The same under steps of supervisors and cores.                          *)
LEMMA SupervisorTypes ==
  ASSUME TypeOK, NEW i \in Runs,
         Supervisor(i) \/ ToldToEnd(i) \/ SupervisorKilled(i) \/ ComesUp(i) \/ CoreExits(i)
  PROVE  PlacesOK' /\ file' \in [cfg : Inputs, private : BOOLEAN]
<1> USE DEF TypeOK, PlacesOK, Alive, files, program, children
<1>1. CASE StartsCore(i)
  BY <1>1, SMT DEF StartsCore, SupervisorGoes
<1>2. CASE StartFails(i)
  BY <1>2, SMT DEF StartFails, SupervisorGoes
<1>3. CASE Notices(i)
  BY <1>3, SMT DEF Notices, OwnerGone, SupervisorGoes
<1>4. CASE Kills(i)
  BY <1>4, SMT DEF Kills, CoreGone
<1>5. CASE Reaps(i)
  BY <1>5, SMT DEF Reaps, SupervisorGoes
<1>6. CASE ToldToEnd(i)
  BY <1>6, SMT DEF ToldToEnd, SupervisorGoes
<1>7. CASE SupervisorKilled(i)
  BY <1>7, SMT DEF SupervisorKilled, SupervisorGoes
<1>8. CASE ComesUp(i)
  BY <1>8, SMT DEF ComesUp
<1>9. CASE CoreExits(i)
  BY <1>9, SMT DEF CoreExits, CoreGone
<1> QED
  BY <1>1, <1>2, <1>3, <1>4, <1>5, <1>6, <1>7, <1>8, <1>9 DEF Supervisor

(* The same under signals, kills and edits.                                *)
LEMMA UserTypes ==
  ASSUME TypeOK, Signal \/ Killed \/ Edit
  PROVE  PlacesOK' /\ file' \in [cfg : Inputs, private : BOOLEAN]
<1> USE DEF TypeOK, PlacesOK, files, program, children
<1>1. CASE Signal
  BY <1>1, ConfigsAssumption, SMT DEF Signal
<1>2. CASE Killed
  BY <1>2, ConfigsAssumption, SMT DEF Killed, Ends
<1>3. CASE Edit
  BY <1>3, ConfigsAssumption, SMT DEF Edit
<1> QED
  BY <1>1, <1>2, <1>3 DEF TypeOK

-----------------------------------------------------------------------------
(* What the parts of the state have to do with one another.                *)
LEMMA ProgramKeeps == ASSUME IndInv, Program PROVE Connected'
<1> USE DEF IndInv, TypeOK, FlagsOK, PlacesOK, Connected, ProgramInv, FreshInv, StoredInv,
            GeneratedInv, EndedInv, SupervisedInv, Runs, Alive, Preparing, Launched,
            files, program, children
<1>1. CASE Begin
  BY <1>1, RunsAssumption, ConfigsAssumption, SMT DEF Begin, Usable
<1>2. CASE NoSubscription
  BY <1>2, RunsAssumption, ConfigsAssumption, SMT DEF NoSubscription, Go
<1>3. CASE Downloads
  BY <1>3, RunsAssumption, ConfigsAssumption, SMT DEF Downloads, Updates, Go
<1>4. CASE DownloadFails
  BY <1>4, RunsAssumption, ConfigsAssumption, SMT DEF DownloadFails, Fails, Ends
<1>5. CASE SaveWrites
  BY <1>5, RunsAssumption, ConfigsAssumption, SMT DEF SaveWrites, Temporary, Go
<1>6. CASE SaveRenames
  BY <1>6, RunsAssumption, ConfigsAssumption, SMT DEF SaveRenames, Go
<1>7. CASE Truncate
  BY <1>7, RunsAssumption, ConfigsAssumption, SMT DEF Truncate, Go
<1>8. CASE Write
  BY <1>8, RunsAssumption, ConfigsAssumption, SMT DEF Write, Go
<1>9. CASE Check
  BY <1>9, RunsAssumption, ConfigsAssumption, SMT DEF Check, Go
<1>10. CASE Refused
  BY <1>10, RunsAssumption, ConfigsAssumption, SMT DEF Refused, Fails, Ends
<1>11. CASE Launch
  BY <1>11, RunsAssumption, ConfigsAssumption, SMT DEF Launch, Go
<1>12. CASE StepFails
  BY <1>12, RunsAssumption, ConfigsAssumption, SMT DEF StepFails, Fails, Ends
<1>13. CASE WindowPasses
  BY <1>13, RunsAssumption, ConfigsAssumption, SMT DEF WindowPasses, Go
<1>14. CASE CoreLost
  BY <1>14, RunsAssumption, ConfigsAssumption, SMT DEF CoreLost, Reaped, Fails, Ends
<1>15. CASE Stop
  BY <1>15, RunsAssumption, ConfigsAssumption, SMT DEF Stop, Go
<1>16. CASE StopReturns
  BY <1>16, RunsAssumption, ConfigsAssumption, SMT DEF StopReturns, Reaped, Ends
<1>17. CASE StopTimesOut
  BY <1>17, RunsAssumption, ConfigsAssumption, SMT DEF StopTimesOut, Ends
<1> QED
  BY <1>1, <1>2, <1>3, <1>4, <1>5, <1>6, <1>7, <1>8, <1>9, <1>10,
     <1>11, <1>12, <1>13, <1>14, <1>15, <1>16, <1>17 DEF Program

(* Supervisors and cores keep what connects the parts of the state.        *)
LEMMA SupervisorKeeps ==
  ASSUME IndInv, NEW i \in Runs,
         Supervisor(i) \/ ToldToEnd(i) \/ SupervisorKilled(i) \/ ComesUp(i) \/ CoreExits(i)
  PROVE  Connected'
<1> USE DEF IndInv, TypeOK, FlagsOK, PlacesOK, Connected, ProgramInv, FreshInv, StoredInv,
            GeneratedInv, EndedInv, SupervisedInv, Runs, Alive, Preparing, Launched,
            files, program, children
<1>1. CASE StartsCore(i)
  BY <1>1, RunsAssumption, SMT DEF StartsCore, SupervisorGoes
<1>2. CASE StartFails(i)
  BY <1>2, RunsAssumption, SMT DEF StartFails, SupervisorGoes
<1>3. CASE Notices(i)
  BY <1>3, RunsAssumption, SMT DEF Notices, OwnerGone, SupervisorGoes
<1>4. CASE Kills(i)
  BY <1>4, RunsAssumption, SMT DEF Kills, CoreGone
<1>5. CASE Reaps(i)
  BY <1>5, RunsAssumption, SMT DEF Reaps, SupervisorGoes
<1>6. CASE ToldToEnd(i)
  BY <1>6, RunsAssumption, SMT DEF ToldToEnd, SupervisorGoes
<1>7. CASE SupervisorKilled(i)
  BY <1>7, RunsAssumption, SMT DEF SupervisorKilled, SupervisorGoes
<1>8. CASE ComesUp(i)
  BY <1>8, RunsAssumption, SMT DEF ComesUp
<1>9. CASE CoreExits(i)
  BY <1>9, RunsAssumption, SMT DEF CoreExits, CoreGone
<1> QED
  BY <1>1, <1>2, <1>3, <1>4, <1>5, <1>6, <1>7, <1>8, <1>9 DEF Supervisor

(* So do signals, kills and edits.                                         *)
LEMMA UserKeeps == ASSUME IndInv, Signal \/ Killed \/ Edit PROVE Connected'
<1> USE DEF IndInv, TypeOK, FlagsOK, PlacesOK, Connected, ProgramInv, FreshInv, StoredInv,
            GeneratedInv, EndedInv, SupervisedInv, Runs, Alive, Preparing, Launched,
            files, program, children
<1>1. CASE Signal
  BY <1>1, RunsAssumption, SMT DEF Signal
<1>2. CASE Killed
  BY <1>2, RunsAssumption, SMT DEF Killed, Ends
<1>3. CASE Edit
  BY <1>3, RunsAssumption, SMT DEF Edit
<1> QED
  BY <1>1, <1>2, <1>3 DEF IndInv

-----------------------------------------------------------------------------
(* The invariant holds at first.                                           *)
LEMMA InitInd == Init => IndInv
<1> SUFFICES ASSUME Init PROVE IndInv
  OBVIOUS
<1>1. FlagsOK
  BY Zenon DEF Init, FlagsOK
<1>2. file \in [cfg : Inputs, private : BOOLEAN]
  BY SMT DEF Init
<1>3. PlacesOK
  <2>1. sup \in [Runs -> {"none", "spawning", "watching", "terminating", "gone", "killed"}]
    BY Zenon DEF Init
  <2>2. core \in [Runs -> {"none", "gone"} \cup Alive]
    BY Zenon DEF Init
  <2>3. reads \in [Runs -> Inputs \cup {Nil}]
    BY Zenon DEF Init
  <2> QED
    BY <2>1, <2>2, <2>3, RunsAssumption, SMT DEF Init, PlacesOK
<1>4. Connected
  BY RunsAssumption, SMT
     DEF Init, Connected, ProgramInv, FreshInv, StoredInv, GeneratedInv, EndedInv,
         SupervisedInv, Runs, Alive, Preparing, Launched
<1> QED
  BY <1>1, <1>2, <1>3, <1>4 DEF IndInv, TypeOK

(* Every step keeps it.                                                    *)
LEMMA StepInd == IndInv /\ [Next]_vars => IndInv'
<1> SUFFICES ASSUME IndInv, [Next]_vars PROVE IndInv'
  OBVIOUS
<1>1. CASE Program
  BY <1>1, ProgramFlags, ProgramTypes, ProgramKeeps DEF IndInv, TypeOK, Connected
<1>2. ASSUME NEW i \in Runs,
             Supervisor(i) \/ ToldToEnd(i) \/ SupervisorKilled(i) \/ ComesUp(i) \/ CoreExits(i)
      PROVE  IndInv'
  BY <1>2, SupervisorFlags, SupervisorTypes, SupervisorKeeps DEF IndInv, TypeOK
<1>3. CASE Signal \/ Killed \/ Edit
  BY <1>3, UserFlags, UserTypes, UserKeeps DEF IndInv, TypeOK
<1>4. CASE UNCHANGED vars
  <2> USE <1>4 DEF vars, files, program, children
  <2>1. FlagsOK'
    BY Zenon DEF IndInv, TypeOK, FlagsOK
  <2>2. PlacesOK' /\ file' \in [cfg : Inputs, private : BOOLEAN]
    BY SMT DEF IndInv, TypeOK, PlacesOK
  <2>3. ProgramInv' /\ FreshInv' /\ StoredInv'
    BY SMT DEF IndInv, Connected, ProgramInv, FreshInv, StoredInv
  <2>4. GeneratedInv' /\ EndedInv' /\ SupervisedInv'
    BY SMT DEF IndInv, Connected, GeneratedInv, EndedInv, SupervisedInv
  <2> QED
    BY <2>1, <2>2, <2>3, <2>4 DEF IndInv, TypeOK, Connected
<1> QED
  BY <1>1, <1>2, <1>3, <1>4 DEF Next, Environment

(* The inductive invariant holds in every reachable state.                 *)
THEOREM Inductive == Spec => []IndInv
  BY InitInd, StepInd, PTL DEF Spec

-----------------------------------------------------------------------------
(* Every variable keeps its type; the file given with --config is whole    *)
(* wherever a run is killed, which Save's temporary file is for.           *)
THEOREM TypeCorrect == Spec => []TypeOK
<1>1. IndInv => TypeOK
  BY DEF IndInv
<1> QED
  BY <1>1, Inductive, PTL

(* The core of a running program works with the configuration that is on   *)
(* disk, and which this run has downloaded if it has a subscription        *)
(* (prepareCLIStartup; README.md:94).                                      *)
THEOREM NeverOldNodes == Spec => []ConnectsFresh
<1>1. IndInv => ConnectsFresh
  BY RunsAssumption, SMT
     DEF IndInv, TypeOK, PlacesOK, Connected, ProgramInv, FreshInv, StoredInv, GeneratedInv,
         ConnectsFresh, Runs, Alive, Preparing, Launched
<1> QED
  BY <1>1, Inductive, PTL

(* A program that ends by itself, with any code but that of a Stop which   *)
(* ran out of time, leaves no core (main.go:135-152).                      *)
THEOREM NoCoreBehind == Spec => []ExitClean
<1>1. IndInv => ExitClean
  BY SMT DEF IndInv, Connected, EndedInv, ExitClean
<1> QED
  BY <1>1, Inductive, PTL

(* A core outlives its supervisor only if the supervisor was killed        *)
(* (supervisor_unix.go:56-71).                                             *)
THEOREM CoreIsSupervised == Spec => []SupervisedInv
<1>1. IndInv => SupervisedInv
  BY DEF IndInv, Connected
<1> QED
  BY <1>1, Inductive, PTL

-----------------------------------------------------------------------------
(* A supervisor is only run once a file has been generated, and a core     *)
(* that is up has accepted the one it has read.                            *)
AcceptedInv ==
  /\ gen = Nil => \A i \in Runs : sup[i] = "none" /\ core[i] = "none"
  /\ \A i \in Runs : core[i] = "up" => reads[i] \in Inputs /\ Accepts(Generate(reads[i]))

(* The program keeps that.                                                 *)
LEMMA ProgramAccepted == ASSUME IndInv, AcceptedInv, Program PROVE AcceptedInv'
<1> USE DEF AcceptedInv
<1>1. CASE Launch
  <2>1. gen # Nil
    BY <1>1, ConfigsAssumption, Zenon
       DEF IndInv, Connected, ProgramInv, GeneratedInv, Launch, Go, Preparing
  <2>2. UNCHANGED <<gen, core, reads>>
    BY <1>1, Zenon DEF Launch, files
  <2> QED
    BY <2>1, <2>2, SMT
<1>2. CASE Truncate \/ Write
  <2>1. gen' # Nil
    BY <1>2, ConfigsAssumption, SMT
       DEF IndInv, TypeOK, PlacesOK, Connected, ProgramInv, Truncate, Write, Go, Preparing
  <2>2. UNCHANGED <<core, reads>>
    BY <1>2, Zenon DEF Truncate, Write, children
  <2> QED
    BY <2>1, <2>2, SMT
<1>3. CASE UNCHANGED <<gen, sup, core, reads>>
  BY <1>3, SMT
<1>4. Program => Launch \/ Truncate \/ Write \/ UNCHANGED <<gen, sup, core, reads>>
  BY Zenon DEF Program, Begin, NoSubscription, Downloads, DownloadFails, SaveWrites,
     SaveRenames, Check, Refused, StepFails, WindowPasses, CoreLost, Stop, StopReturns,
     StopTimesOut, Fails, Ends, files, children
<1> QED
  BY <1>1, <1>2, <1>3, <1>4, Zenon

(* So do a supervisor and its core.                                        *)
LEMMA SupervisorAccepted ==
  ASSUME IndInv, AcceptedInv, NEW i \in Runs,
         Supervisor(i) \/ ToldToEnd(i) \/ SupervisorKilled(i) \/ ComesUp(i) \/ CoreExits(i)
  PROVE  AcceptedInv'
<1> USE DEF IndInv, TypeOK, PlacesOK, AcceptedInv, Alive, files, program, children,
            SupervisorGoes, CoreGone
<1>1. CASE StartsCore(i)
  BY <1>1, SMT DEF StartsCore
<1>2. CASE StartFails(i)
  BY <1>2, SMT DEF StartFails
<1>3. CASE Notices(i)
  BY <1>3, SMT DEF Notices
<1>4. CASE Kills(i)
  BY <1>4, SMT DEF Kills
<1>5. CASE Reaps(i)
  BY <1>5, SMT DEF Reaps
<1>6. CASE ToldToEnd(i)
  BY <1>6, SMT DEF ToldToEnd
<1>7. CASE SupervisorKilled(i)
  BY <1>7, SMT DEF SupervisorKilled
<1>8. CASE ComesUp(i)
  BY <1>8, SMT DEF ComesUp
<1>9. CASE CoreExits(i)
  BY <1>9, SMT DEF CoreExits
<1> QED
  BY <1>1, <1>2, <1>3, <1>4, <1>5, <1>6, <1>7, <1>8, <1>9 DEF Supervisor

(* Every core works with a configuration that sing-box accepts.            *)
THEOREM CoresAccept == Spec => []AcceptedInv
<1>1. Init => AcceptedInv
  BY SMT DEF Init, AcceptedInv
<1>2. IndInv /\ AcceptedInv /\ [Next]_vars => AcceptedInv'
  <2> SUFFICES ASSUME IndInv, AcceptedInv, [Next]_vars PROVE AcceptedInv'
    OBVIOUS
  <2>1. CASE Program
    BY <2>1, ProgramAccepted
  <2>2. ASSUME NEW i \in Runs,
               Supervisor(i) \/ ToldToEnd(i) \/ SupervisorKilled(i) \/ ComesUp(i) \/ CoreExits(i)
        PROVE  AcceptedInv'
    BY <2>2, SupervisorAccepted
  <2>3. CASE Signal \/ Killed \/ Edit \/ UNCHANGED vars
    <3>1. UNCHANGED <<gen, sup, core, reads>>
      BY <2>3, Zenon DEF Signal, Killed, Ends, Edit, vars, files, children
    <3> QED
      BY <3>1, SMT DEF AcceptedInv
  <2> QED
    BY <2>1, <2>2, <2>3 DEF Next, Environment
<1> QED
  BY <1>1, <1>2, Inductive, PTL DEF Spec

(* Whichever run's file a core has read, it sends every connection where   *)
(* README.md's tables say, and understands the selection menu's names,     *)
(* except that of a node which is named "auto".                            *)
THEOREM RoutesAsPromised == Spec => []Routed
<1>1. AcceptedInv => Routed
  <2> SUFFICES ASSUME AcceptedInv, NEW i \in Runs, core[i] = "up"
               PROVE  Pinned(reads[i]) /\ ByMode(reads[i]) /\ Selectable(reads[i])
    BY Zenon DEF Routed
  <2>1. Runnable(reads[i])
    BY ConfigsAssumption, Zenon DEF AcceptedInv, Runnable
  <2> QED
    BY <2>1, PortsPinned, ModesRoute, NodesSelectable, Zenon
<1> QED
  BY <1>1, CoresAccept, PTL
=============================================================================
