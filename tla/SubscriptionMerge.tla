-------------------------- MODULE SubscriptionMerge --------------------------
(***************************************************************************)
(* The merge of a downloaded subscription into the stored configuration    *)
(* (internal/config/subscription_merge.go), as the operator Merged, and    *)
(* the life of a configuration under successive calls: a download          *)
(* (subscription.go) with MergeSubscription, MergeManualProxy, and the     *)
(* user who edits nodes in the file.                                       *)
(*                                                                         *)
(* A name is its normalised form, a sequence that ends with the number of  *)
(* each suffix it got: "x (2)" is <<"x", 2>>.  A key is what is hashed.    *)
(* Confirmed VLESS nodes use one remote port, so that an endpoint is named *)
(* by its server.  Everything else a node consists of is its cred.         *)
(*                                                                         *)
(* A list of nodes or of entries is a function from places; the order of   *)
(* the places is that of the list, and leaving something out leaves its    *)
(* place vacant.                                                           *)
(***************************************************************************)
EXTENDS Integers, SequencesExt

CONSTANTS
  Endpoints,    \* type, server and remote port of a node
  Vless,        \* those of type vless; the others are of one other type
  Addresses,    \* those of Vless whose server is an IP address
  Confirmed,    \* those of Vless whose server is a confirmed domain
  Example,      \* the server of the bundled example, and the name of that node
  Urls, None,
  UnifiedPort,  \* Unified.Port, 0 when disabled
  MaxPort,      \* the last local port; the first one is 1
  Bodies,       \* what a server may answer: sequences of lines
  Broken,       \* at and cred of nodes that can be parsed and not used: without a
                \* server, remote port, method, password or UUID
  Skipped,      \* a line that is not of a supported protocol
  Invalid,      \* one that is, and cannot be parsed
  Stores,       \* what a configuration without merges may hold
  Imports,      \* nodes imported by hand
  NewNames,     \* names the user gives to nodes
  MaxCalls      \* bound: calls and edits in a behaviour

VARIABLES
  proxies,      \* Proxies
  source,       \* SubscriptionSourceKey
  configured,   \* SubscriptionURL
  migrated,     \* SubscriptionMigrated
  last,         \* the last call and its outcome; history: was its feed usable
  feedKeys,     \* history: keys of the last feed merged, and of the one
  prevKeys,     \* before it from the same URL
  calls         \* calls and edits so far

store == <<proxies, source, configured, migrated>>
vars == <<store, last, feedKeys, prevKeys, calls>>

Subscribed(p) == p.source = "subscription"

Bundled(p) == p.source = "" /\ p.at = Example /\ p.name = <<Example>>

Empty == <<>>     \* the name of a node that has none

Key(p) == <<p.at, p.name>>

(* validateUniqueProxyNames; and what Validate asks of the ports in use and*)
(* of each node by itself.  A list has a node, since a feed has an entry.  *)
NamesUnique(s) == \A c, d \in DOMAIN s : s[c].name = s[d].name => c = d

PortsUnique(s) ==
  \A c, d \in DOMAIN s :
    s[c].port # 0 => s[c].port # UnifiedPort /\ (s[c].port = s[d].port => c = d)

Usable(p) == <<p.at, p.cred>> \notin Broken

AllUsable(s) == \A c \in DOMAIN s : Usable(s[c])

Validates(s) == PortsUnique(s) /\ AllUsable(s)

(* The last place of a list, or 0; and a list with p at its end.           *)
Top(s) == Max({0} \cup DOMAIN s)

With(s, p) ==
  [c \in DOMAIN s \cup {Top(s) + 1} |-> IF c \in DOMAIN s THEN s[c] ELSE p]

-----------------------------------------------------------------------------
(* FetchSubscription: one invalid entry makes the whole download fail, as  *)
(* a body without entries does.  An entry without a name is named by its   *)
(* place.                                                                  *)
Entries(body) == {i \in DOMAIN body : body[i] # Skipped}

Fetches(body) == Entries(body) # {} /\ \A i \in Entries(body) : body[i] # Invalid

Place(body, i) == Cardinality({j \in Entries(body) : j <= i})

Fetched(body) ==
  [i \in Entries(body) |->
     IF body[i].name # Empty THEN body[i]
     ELSE [body[i] EXCEPT !.name = <<"Server" \o ToString(Place(body, i))>>]]

(* prepareSubscriptionProxies: an entry that occurs again is dropped; two  *)
(* entries with one key that differ make the feed unusable.                *)
FromFeed(e) ==
  [source |-> "subscription", key |-> Key(e), missing |-> 0, name |-> e.name,
   enabled |-> TRUE, port |-> 0, at |-> e.at, cred |-> e.cred]

Prepared(feed) ==
  [i \in {i \in DOMAIN feed : \A j \in DOMAIN feed : j < i => feed[j] # feed[i]} |->
     FromFeed(feed[i])]

Separate(fresh) == \A i, j \in DOMAIN fresh : fresh[i].key = fresh[j].key => i = j

-----------------------------------------------------------------------------
(* What the constants stand for.                                           *)

IsSequence(s) == Len(s) \in Nat /\ s = [i \in 1..Len(s) |-> s[i]]

IsName(n) == IsSequence(n) /\ n # Empty

IsEntry(e) == e \in [at : Endpoints, name : {e.name}, cred : {e.cred}] /\ IsSequence(e.name)

Keys ==
  UNION {{Key(Fetched(b)[i]) : i \in Entries(b)} : b \in {b \in Bodies : Fetches(b)}}

NodeOK(p) ==
  /\ p \in [source : {"", "manual", "subscription"}, key : {p.key}, missing : 0..1,
            name : {p.name}, enabled : BOOLEAN, port : 0..MaxPort,
            at : Endpoints \cup {Example}, cred : {p.cred}]
  /\ IsName(p.name)
  /\ IF Subscribed(p) THEN p.key \in Keys ELSE p.key = None /\ p.missing = 0

ASSUME MergeAssumption ==
  /\ Addresses \cap Confirmed = {} /\ Addresses \cup Confirmed \subseteq Vless
  /\ Vless \subseteq Endpoints /\ Example \notin Endpoints
  /\ None \notin Urls /\ MaxPort \in Nat /\ UnifiedPort \in Nat
  /\ MaxCalls \in Nat
  /\ \A b \in Bodies :
       IsSequence(b) /\ \A i \in Entries(b) : b[i] = Invalid \/ IsEntry(b[i])
  /\ \A s \in Stores :
       /\ IsSequence(s) /\ NamesUnique(s) /\ Validates(s)
       /\ \A c \in DOMAIN s : NodeOK(s[c]) /\ ~Subscribed(s[c])
  /\ (\A e \in Imports : IsEntry(e)) /\ (\A n \in NewNames : IsName(n))

-----------------------------------------------------------------------------
(* How p, which is stored, and q, which is new, fit in each of the passes. *)
SameType(p, q) == p.at \in Vless <=> q.at \in Vless

Fits(pass, p, q) ==
  CASE pass = 0 -> Subscribed(p) /\ p.key = q.key
    [] pass = 1 -> /\ Subscribed(p) /\ p.at \in Addresses /\ q.at \in Confirmed
                   /\ p.key = <<p.at, q.name>>
    [] pass = 2 -> p.at = q.at /\ p.name = q.name
    [] pass = 3 -> p.at = q.at
    [] pass = 4 -> SameType(p, q) /\ p.name # Empty /\ p.name = q.name

\* Mutant: the name a node has now comes before the key it was stored under.
PassesNameFirst == <<2, 0, 1, 3, 4>>

Passes == <<0, 1, 2, 3, 4>>

(* The last two passes want an entry that is alone in its feed.            *)
Alone(pass, fresh, i) ==
  CASE pass = 3 -> \A j \in DOMAIN fresh : fresh[j].at = fresh[i].at => j = i
    [] pass = 4 -> \A j \in DOMAIN fresh :
                     SameType(fresh[j], fresh[i]) /\ fresh[j].name = fresh[i].name => j = i
    [] OTHER -> TRUE

Matchable(p, legacy) ==
  /\ ~Bundled(p)
  /\ Subscribed(p) \/ (legacy /\ p.source = "")

Unmatched == 0

(* The stored nodes that may be the entry q, m being the match so far.     *)
Candidates(m, legacy, pass, q) ==
  {c \in DOMAIN proxies \ Range(m.of) :
     Matchable(proxies[c], legacy) /\ Fits(pass, proxies[c], q)}

(* findSubscriptionMatch for the entry at place i; several candidates for  *)
(* it are an error.                                                        *)
Tried(fresh, legacy, pass, i, m) ==
  LET found == Candidates(m, legacy, pass, fresh[i])
  IN  IF \/ i \notin DOMAIN fresh \/ m.of[i] # Unmatched
         \/ ~Alone(pass, fresh, i) \/ found = {}
      THEN m
      ELSE [ambiguous |-> m.ambiguous \/ \E c, d \in found : c # d,
            of |-> [m.of EXCEPT ![i] = CHOOSE c \in found : TRUE]]

(* One pass, in the order of the feed.                                     *)
Passed(fresh, legacy, pass, m) ==
  LET tried[i \in 0..Top(fresh)] ==
        IF i = 0 THEN m ELSE Tried(fresh, legacy, pass, i, tried[i - 1])
  IN  tried[Top(fresh)]

NoMatch(fresh) == [ambiguous |-> FALSE, of |-> [i \in DOMAIN fresh |-> Unmatched]]

(* Which stored node each entry of the feed updates.                       *)
Matching(fresh, legacy) ==
  LET pass(k, m) == Passed(fresh, legacy, Passes[k], m)
  IN  pass(5, pass(4, pass(3, pass(2, pass(1, NoMatch(fresh))))))

\* Mutant: an update keeps the count of updates the node was missing from.
UpdatedKeepsMissing(p, q) ==
  [q EXCEPT !.name = p.name, !.port = p.port, !.enabled = p.enabled, !.missing = p.missing]

(* A matched node keeps its name, its local port and whether it is enabled.*)
Updated(p, q) == [q EXCEPT !.name = p.name, !.port = p.port, !.enabled = p.enabled]

(* What the running core can see of a node.                                *)
Runtime(p) == <<p.name, p.enabled, p.port, p.at, p.cred>>

Expires(p) == p.missing + 1 >= 2

-----------------------------------------------------------------------------
(* Names and ports of nodes that are added *)

NamesTaken(s) == {s[c].name : c \in DOMAIN s}

(* "x", then "x (2)", "x (3)" ...; an entry without a name has its server's*)
Named(p, n) ==
  LET base == IF p.name = Empty THEN <<p.at>> ELSE p.name
  IN  IF n = 1 THEN base ELSE Append(base, n)

FreshName(s, p) ==
  Named(p, Min({n \in 1..(Cardinality(DOMAIN s) + 1) : Named(p, n) \notin NamesTaken(s)}))

\* Mutant: the unified port is not reserved.
PortsFreeUnified(s) == (1..MaxPort) \ {s[c].port : c \in DOMAIN s}

PortsFree(s) == (1..MaxPort) \ ({UnifiedPort} \cup {s[c].port : c \in DOMAIN s})

(* a is the list so far, and whether a port was missing for one of its     *)
(* nodes.                                                                  *)
Added(a, p) ==
  LET s == a.nodes
      q == [p EXCEPT !.name = FreshName(s, p), !.port = Min(PortsFree(s))]
  IN  IF PortsFree(s) = {} THEN [a EXCEPT !.full = TRUE]
      ELSE [a EXCEPT !.nodes = With(s, q)]

-----------------------------------------------------------------------------
(* MergeSubscription *)

\* Mutant: the removal of a node is not counted as a change of the runtime.
RemovalCountsNever(p, moved) == FALSE

RemovalCounts(p, moved) == Bundled(p) \/ (~moved /\ Expires(p))

Failed(why) == [err |-> why, proxies |-> proxies, runtime |-> FALSE]

(* What becomes of the stored nodes: of is the match, and moved says that  *)
(* the URL is another one.                                                 *)
Matched(of, c) == ~Bundled(proxies[c]) /\ \E i \in DOMAIN of : of[i] = c

EntryOf(of, c) == CHOOSE i \in DOMAIN of : of[i] = c

Lost(of, moved, c) ==
  \/ Bundled(proxies[c])
  \/ ~Matched(of, c) /\ Subscribed(proxies[c]) /\ (moved \/ Expires(proxies[c]))

Kept(fresh, of, c) ==
  IF Matched(of, c) THEN Updated(proxies[c], fresh[EntryOf(of, c)])
  ELSE IF Subscribed(proxies[c]) THEN [proxies[c] EXCEPT !.missing = @ + 1]
  ELSE proxies[c]

Stored(fresh, of, moved) ==
  [c \in {c \in DOMAIN proxies : ~Lost(of, moved, c)} |-> Kept(fresh, of, c)]

(* The new nodes, in an order that depends on their keys only, as that of  *)
(* the hashes does.                                                        *)
New(fresh, of) ==
  LET unmatched == {i \in DOMAIN fresh : of[i] = Unmatched}
      order == SetToSeq({fresh[i].key : i \in unmatched})
  IN  [n \in DOMAIN order |-> fresh[CHOOSE i \in unmatched : fresh[i].key = order[n]]]

WithNew(stored, new) ==
  LET added[n \in 0..Len(new)] ==
        IF n = 0 THEN [full |-> FALSE, nodes |-> stored] ELSE Added(added[n - 1], new[n])
  IN  added[Len(new)]

RuntimeMoves(fresh, of, moved) ==
  \/ \E i \in DOMAIN fresh : of[i] = Unmatched
  \/ \E c \in DOMAIN proxies :
       \/ Matched(of, c) /\ Runtime(Kept(fresh, of, c)) # Runtime(proxies[c])
       \/ Lost(of, moved, c) /\ RemovalCounts(proxies[c], moved)

Merged(feed, url) ==
  LET fresh == Prepared(feed)
      moved == source # None /\ source # url
      m == IF moved THEN NoMatch(fresh)
           ELSE Matching(fresh, ~migrated /\ configured = url)
      result == WithNew(Stored(fresh, m.of, moved), New(fresh, m.of))
  IN  IF ~Separate(fresh) THEN Failed("duplicate")
      ELSE IF m.ambiguous THEN Failed("ambiguous")
      ELSE IF result.full THEN Failed("ports")
      ELSE IF ~NamesUnique(result.nodes) THEN Failed("names")
      ELSE IF ~Validates(result.nodes) THEN Failed("invalid")
      ELSE [err |-> "", proxies |-> result.nodes,
            runtime |-> RuntimeMoves(fresh, m.of, moved)]

Update(body, url) ==
  LET feed == Fetched(body)
      r == IF Fetches(body) THEN Merged(feed, url) ELSE Failed("download")
  IN  /\ last' = [op |-> "update", err |-> r.err, runtime |-> r.runtime,
                  usable |-> Fetches(body) => AllUsable(Prepared(feed))]
      /\ proxies' = r.proxies
      /\ IF r.err # "" THEN UNCHANGED <<source, configured, migrated, feedKeys, prevKeys>>
         ELSE /\ source' = url /\ configured' = url /\ migrated' = TRUE
              /\ feedKeys' = {Prepared(feed)[i].key : i \in DOMAIN Prepared(feed)}
              /\ prevKeys' = IF source = url THEN feedKeys ELSE {}

-----------------------------------------------------------------------------
(* MergeManualProxy: replace the first node on the same endpoint that is   *)
(* not the subscription's, or add a node.                                  *)
Imported(e) ==
  LET name == IF e.name = Empty THEN <<e.at>> ELSE e.name
      node == [source |-> "manual", key |-> None, missing |-> 0, name |-> name,
               enabled |-> TRUE, port |-> 0, at |-> e.at, cred |-> e.cred]
      same == {c \in DOMAIN proxies : ~Subscribed(proxies[c]) /\ proxies[c].at = e.at}
      c == Min(same)
  IN  IF same # {}
      THEN [proxies EXCEPT ![c] =
              [node EXCEPT !.name = proxies[c].name, !.port = proxies[c].port]]
      ELSE With(proxies, [node EXCEPT !.port = Min(PortsFree(proxies))])

Edited ==
  /\ last' = [op |-> "edit", err |-> "", runtime |-> TRUE, usable |-> TRUE]
  /\ UNCHANGED <<source, configured, migrated, feedKeys, prevKeys>>

Import(e) ==
  /\ \/ PortsFree(proxies) # {}
     \/ \E c \in DOMAIN proxies : ~Subscribed(proxies[c]) /\ proxies[c].at = e.at
  /\ proxies' = Imported(e) /\ NamesUnique(proxies') /\ Validates(proxies')
  /\ Edited

(* The user gives a node another name and maybe switches it, in the file.  *)
Edit(c, n, on) ==
  /\ n \notin NamesTaken(proxies)
  /\ proxies' = [proxies EXCEPT ![c].name = n, ![c].enabled = on]
  /\ Edited

Init ==
  /\ proxies \in Stores
  /\ source = None /\ configured \in Urls \cup {None} /\ migrated \in BOOLEAN
  /\ last = [op |-> "edit", err |-> "", runtime |-> TRUE, usable |-> TRUE]
  /\ feedKeys = {} /\ prevKeys = {} /\ calls = 0

Next ==
  /\ calls < MaxCalls /\ calls' = calls + 1
  /\ \/ \E body \in Bodies, url \in Urls : Update(body, url)
     \/ \E e \in Imports : Import(e)
     \/ \E c \in DOMAIN proxies, n \in NewNames, on \in BOOLEAN : Edit(c, n, on)

Spec == Init /\ [][Next]_vars

-----------------------------------------------------------------------------
(* Properties *)

(* Type correctness; names and local ports are unique, what is stored can  *)
(* be used, and only nodes of the subscription carry its marks.  An update *)
(* is refused for a feed that cannot be parsed or told apart, or when the  *)
(* ports run out; and as an invalid configuration when the feed itself     *)
(* brings a node that cannot be used, as in                                *)
(* TestMergeSubscriptionInvalidImportKeepsExample, never because of the    *)
(* names and ports that merging has chosen.                                *)
TypeOK ==
  /\ \A c \in DOMAIN proxies : NodeOK(proxies[c])
  /\ NamesUnique(proxies) /\ PortsUnique(proxies) /\ AllUsable(proxies)
  /\ source \in Urls \cup {None} /\ configured \in Urls \cup {None}
  /\ migrated \in BOOLEAN
  /\ feedKeys \subseteq Keys /\ prevKeys \subseteq Keys
  /\ calls \in 0..MaxCalls
  /\ last.err \in {"", "download", "duplicate", "ambiguous", "ports", "invalid"}
  /\ (last.err = "" => last.usable) /\ (last.err = "invalid" => ~last.usable)

(* The stored subscription follows the downloads: each entry of the last   *)
(* feed is stored exactly once, and what else is stored was in the feed    *)
(* before it, from the same URL.  So a node is dropped no later than when  *)
(* two updates in a row did not have it (README.md); that it is dropped no *)
(* sooner is part of StableIdentity.                                       *)
FollowsFeeds ==
  LET present(n) ==
        {c \in DOMAIN proxies : Subscribed(proxies[c]) /\ proxies[c].missing = n}
      keys(n) == {proxies[c].key : c \in present(n)}
  IN  /\ keys(0) = feedKeys
      /\ keys(1) \subseteq prevKeys \ feedKeys
      /\ \A c, d \in present(0) \cup present(1) : proxies[c].key = proxies[d].key => c = d

UpdateDone == last'.op = "update" /\ last'.err = ""

(* A node that is in the feed again under its key keeps its place, name,   *)
(* port and switch, whatever the user renamed and whatever else the feed   *)
(* holds: no other entry takes them over.  So does a node that was in the  *)
(* feed before and is missing from this one: it is not dropped at once     *)
(* (README.md, TestMergeSubscriptionDeletesAfterTwoMissingUpdates).  No    *)
(* update touches a node that was added by hand, or its place.             *)
StableIdentity ==
  [][/\ UpdateDone /\ source' = source =>
          \A c \in DOMAIN proxies :
            LET p == proxies[c] q == proxies'[c]
            IN  Subscribed(p) /\ (p.key \in feedKeys' \/ p.missing = 0) =>
                  /\ c \in DOMAIN proxies' /\ Subscribed(q)
                  /\ p.key \in feedKeys' => q.key = p.key
                  /\ <<q.name, q.port, q.enabled>> = <<p.name, p.port, p.enabled>>
     /\ last'.op = "update" =>
          LET manual(s) == {c \in DOMAIN s : s[c].source = "manual"}
          IN  [c \in manual(proxies') |-> proxies'[c]] =
              [c \in manual(proxies) |-> proxies[c]]]_vars

(* Every node of the subscription was in the last feed, and the example is *)
(* gone.                                                                   *)
Settled ==
  \A c \in DOMAIN proxies :
    ~Bundled(proxies[c]) /\ (Subscribed(proxies[c]) => proxies[c].missing = 0)

(* An update that says that the runtime does not change may be saved       *)
(* without a restart of the core (subscription.go:139-147).  The periodic  *)
(* one, which mostly brings what the one before it brought, neither adds   *)
(* nor removes a node then, and asks for no restart unless a node that     *)
(* stays has changed.                                                      *)
RuntimeTold ==
  [][UpdateDone =>
       /\ ~last'.runtime =>
            [c \in DOMAIN proxies' |-> Runtime(proxies'[c])] =
            [c \in DOMAIN proxies |-> Runtime(proxies[c])]
       /\ source' = source /\ feedKeys' = feedKeys /\ Settled =>
            /\ DOMAIN proxies' = DOMAIN proxies
            /\ last'.runtime =>
                 \E c \in DOMAIN proxies : Runtime(proxies'[c]) # Runtime(proxies[c])]_vars

(* A feed without a key that the last one did not have can be merged if all*)
(* of its nodes can be used: it is not refused as ambiguous, or for want of*)
(* a port, whatever the user has added and renamed since.                  *)
MergesAgain ==
  \A body \in Bodies :
    LET fresh == Prepared(Fetched(body))
    IN  /\ source # None /\ Fetches(body) /\ Separate(fresh)
        /\ \A i \in DOMAIN fresh : fresh[i].key \in feedKeys
        => Merged(Fetched(body), source).err = IF AllUsable(fresh) THEN "" ELSE "invalid"

=============================================================================
