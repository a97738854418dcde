--------------------------- MODULE MCSubscription ---------------------------
(***************************************************************************)
(* SubscriptionMerge.tla for TLC: a VLESS node that is known by its address*)
(* and by its domain, and a server with two accounts.                      *)
(***************************************************************************)
EXTENDS SubscriptionMerge

Entry(a, n, c) == [at |-> a, name |-> n, cred |-> c]

MCEntries(c) ==
  {Entry("ip", <<"a">>, c), Entry("domain", <<"a">>, c),
   Entry("ss", <<"a">>, c), Entry("ss", <<"b">>, c)}

\* Two entries with the credentials of the stored nodes, or one with others;
\* one body names a key twice, two have an entry without a name in one place or
\* the other, one has a node without a password, and three are of no use.
MCBodies ==
  {SetToSeq(S) : S \in kSubset(2, MCEntries(1))} \cup {<<e>> : e \in MCEntries(2)}
    \cup {<<Entry("ss", <<"a">>, 1), Entry("ss", <<"a">>, 2)>>,
           <<Entry("ss", Empty, 1), Entry("ip", <<"a">>, 1)>>,
           <<Entry("ip", <<"a">>, 1), Skipped, Entry("ss", Empty, 1)>>,
           <<Entry("ss", <<"a">>, 0), Entry("ip", <<"a">>, 1)>>,
           <<Entry("ss", <<"a">>, 1), Invalid>>, <<Skipped>>, <<>>}

MCBroken == {<<"ss", 0>>}

Symmetry == Permutations(Urls)

Node(s, n, p, a) ==
  [source |-> s, key |-> None, missing |-> 0, name |-> n, enabled |-> TRUE,
   port |-> p, at |-> a, cred |-> 1]

\* The bundled example; legacy nodes beside nodes added by hand.
MCStores ==
  {<<Node("", <<Example>>, 1, Example)>>,
   <<Node("", <<"a">>, 1, "ss"), Node("manual", <<"b">>, 0, "ss")>>,
   <<Node("manual", <<"a">>, 3, "ip"), Node("", <<"c">>, 0, "ip")>>}

MCImports == {Entry("ss", Empty, 2), Entry("ss", Empty, 0)}

MCNewNames == {<<"c">>}
=============================================================================
