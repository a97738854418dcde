----------------------- MODULE SubscriptionMergeProofs -----------------------
(***************************************************************************)
(* Theorems about SubscriptionMerge, for any feeds, any stored nodes and   *)
(* any number of calls: names and ports stay unique, what is stored        *)
(* follows the downloads, a node that is in the feed again keeps its       *)
(* identity, and a change that the core can see is told.                   *)
(***************************************************************************)
EXTENDS SubscriptionMerge, FiniteSetTheorems, FunctionTheorems,
        WellFoundedInduction, SequenceTheorems, TLAPS

-----------------------------------------------------------------------------
(* Numbers, and the walk over a feed *)

(* The least of a set of numbers.                                          *)
LEMMA Least ==
  ASSUME NEW S \in SUBSET Nat, S # {}
  PROVE  Min(S) \in S /\ \A i \in S : Min(S) <= i
<1> DEFINE R == OpToRel(<, Nat)
<1>1. \A m, k \in Nat : <<k, m>> \in R <=> k < m
  BY DEF OpToRel
<1>2. IsWellFoundedOn(R, Nat)
  BY NatLessThanWellFounded
<1> HIDE DEF R
<1>3. \E m \in S : \A k \in S : ~(<<k, m>> \in R)
  BY <1>2, WFMin, Zenon
<1>4. PICK m \in S : \A k \in S : ~(<<k, m>> \in R)
  BY <1>3
<1>5. \A k \in S : k \in Nat /\ m \in Nat /\ ~(k < m)
  BY <1>1, <1>4, Zenon
<1>6. \A k \in S : m <= k
  BY <1>5, SMT
<1> QED
  BY <1>6, Zenon DEF Min

(* Induction over a set of numbers.                                        *)
LEMMA Upwards ==
  ASSUME NEW S, 0 \in S, \A n \in Nat : n \in S => n + 1 \in S
  PROVE  Nat \subseteq S
<1> DEFINE R == Nat \ S
<1> SUFFICES ASSUME R # {} PROVE FALSE
  OBVIOUS
<1>1. PICK n \in R : \A k \in R : n <= k
  BY Least, Zenon
<1>2. n # 0 /\ n \in Nat
  BY Zenon
<1>3. n - 1 \in Nat /\ ~(n <= n - 1) /\ (n - 1) + 1 = n
  BY <1>2, SMT
<1> QED
  BY <1>1, <1>3, Zenon

(* The last place of a list that has one.                                  *)
LEMMA TopIs ==
  ASSUME NEW s, NEW n \in Nat, DOMAIN s \subseteq 1..n
  PROVE  /\ Top(s) \in 0..n /\ \A c \in DOMAIN s : c <= Top(s)
         /\ Top(s) # 0 => Top(s) \in DOMAIN s
<1> DEFINE S == {0} \cup DOMAIN s
           B == {b \in 0..n : \A c \in S : c <= b}
<1>1. B \in SUBSET Nat /\ n \in B
  BY SMT
<1>2. PICK b \in B : \A d \in B : b <= d
  BY <1>1, Least, Zenon
<1>3. b \in S
  <2> SUFFICES ASSUME b \notin S PROVE FALSE
    OBVIOUS
  <2>1. b # 0 /\ b - 1 \in 0..n /\ \A c \in S : c <= b - 1
    BY SMT
  <2> QED
    BY <2>1, <1>2, SMT
<1>4. \A c \in S : b >= c
  BY SMT
<1>5. Max(S) \in S /\ \A c \in S : Max(S) >= c
  BY <1>3, <1>4, Zenon DEF Max
<1>6. Top(s) = Max(S)
  BY DEF Top
<1> HIDE DEF B
<1> QED
  BY <1>5, <1>6, SMT

(* f is the match as the walk of one pass leaves it after each place.      *)
Walk(f, fresh, legacy, pass, m, n) ==
  f = [i \in 0..n |-> IF i = 0 THEN m ELSE Tried(fresh, legacy, pass, i, f[i - 1])]

(* That walk exists.                                                       *)
LEMMA PassedIs ==
  ASSUME NEW fresh, NEW legacy, NEW pass, NEW m, Top(fresh) \in Nat
  PROVE  \E f : /\ Walk(f, fresh, legacy, pass, m, Top(fresh))
                /\ Passed(fresh, legacy, pass, m) = f[Top(fresh)]
<1> DEFINE Is(f, n) == f = [i \in 0..n |->
                              IF i = 0 THEN m ELSE Tried(fresh, legacy, pass, i, f[i - 1])]
           S == {n \in Nat : \E f : Is(f, n)}
<1>1. 0 \in S
  <2>1. Is([i \in 0..0 |-> m], 0)
    BY SMT
  <2> QED
    BY <2>1
<1>2. ASSUME NEW n \in Nat, n \in S PROVE n + 1 \in S
  <2>1. PICK f : Is(f, n)
    BY <1>2
  <2> DEFINE g == [i \in 0..(n + 1) |->
                     IF i = n + 1 THEN Tried(fresh, legacy, pass, i, f[n]) ELSE f[i]]
  <2>2. \A i \in 0..(n + 1) :
          g[i] = IF i = 0 THEN m ELSE Tried(fresh, legacy, pass, i, g[i - 1])
    BY <2>1, SMT
  <2>3. \E h : Is(h, n + 1)
    BY <2>2
  <2> HIDE DEF Is
  <2> QED
    BY <2>3
<1>3. \E f : Is(f, Top(fresh))
  BY <1>1, <1>2, Upwards, Zenon
<1> QED
  BY <1>3, Zenon DEF Passed, Walk

-----------------------------------------------------------------------------
(* Lists *)

(* What follows a list is at a new place.                                  *)
LEMMA WithIs ==
  ASSUME NEW s, NEW n \in Nat, DOMAIN s \subseteq 1..n, NEW p
  PROVE  /\ Top(s) \in 0..n /\ Top(s) + 1 \notin DOMAIN s
         /\ DOMAIN With(s, p) = DOMAIN s \cup {Top(s) + 1}
         /\ DOMAIN With(s, p) \subseteq 1..(n + 1)
         /\ With(s, p)[Top(s) + 1] = p
         /\ \A c \in DOMAIN s : With(s, p)[c] = s[c]
<1>1. Top(s) \in 0..n /\ \A c \in DOMAIN s : c <= Top(s)
  BY TopIs
<1>2. Top(s) + 1 \notin DOMAIN s /\ Top(s) + 1 \in 1..(n + 1)
  BY <1>1, SMT
<1>3. DOMAIN s \cup {Top(s) + 1} \subseteq 1..(n + 1)
  BY <1>2, SMT
<1> QED
  BY <1>1, <1>2, <1>3, Zenon DEF With

(* A sequence with something appended.                                     *)
LEMMA AppendIs ==
  ASSUME NEW s, IsSequence(s), NEW x
  PROVE  /\ IsSequence(Append(s, x)) /\ Append(s, x) # s /\ Append(s, x) # Empty
         /\ Append(s, x)[Len(s) + 1] = x
<1> DEFINE S == {s[i] : i \in 1..Len(s)} \cup {x}
<1>1. s \in [1..Len(s) -> S] /\ Len(s) \in Nat
  BY DEF IsSequence
<1>2. s \in Seq(S)
  BY <1>1, SeqDef, Zenon
<1> HIDE DEF S
<1>3. x \in S
  BY DEF S
<1>4. /\ Append(s, x) \in Seq(S) /\ Len(Append(s, x)) = Len(s) + 1
      /\ Append(s, x)[Len(s) + 1] = x
  BY <1>2, <1>3, AppendProperties, Zenon
<1>5. Append(s, x) \in [1..Len(Append(s, x)) -> S] /\ Len(Append(s, x)) \in Nat
  BY <1>4, LenProperties, Zenon
<1>6. IsSequence(Append(s, x))
  BY <1>5 DEF IsSequence
<1>7. \A n \in Nat : n + 1 # n /\ n + 1 # 0
  BY SMT
<1>8. Len(Empty) = 0
  BY EmptySeq, Zenon DEF Empty
<1> QED
  BY <1>1, <1>4, <1>6, <1>7, <1>8, Zenon

(* The names that a new node may get differ.                               *)
LEMMA NamedIs ==
  ASSUME NEW p, IsSequence(p.name)
  PROVE  /\ \A n \in Nat \ {0} : IsName(Named(p, n))
         /\ \A n, k \in Nat \ {0} : Named(p, n) = Named(p, k) => n = k
<1> DEFINE base == IF p.name = Empty THEN <<p.at>> ELSE p.name
<1>1. IsName(base)
  <2>1. IsSequence(<<p.at>>) /\ <<p.at>> # Empty
    BY SMT DEF IsSequence, Empty
  <2> QED
    BY <2>1, Zenon DEF IsName
<1>2. \A n : Named(p, n) = IF n = 1 THEN base ELSE Append(base, n)
  BY Zenon DEF Named
<1> HIDE DEF base
<1>3. \A n : /\ IsName(Append(base, n)) /\ Append(base, n) # base
             /\ Append(base, n)[Len(base) + 1] = n
  BY <1>1, AppendIs, Zenon DEF IsName
<1> QED
  BY <1>1, <1>2, <1>3, Zenon

(* A name is found that nobody has, since there are more candidates than   *)
(* nodes.                                                                  *)
LEMMA FreshNameIs ==
  ASSUME NEW s, NEW n \in Nat, DOMAIN s \subseteq 1..n, NEW p, IsSequence(p.name)
  PROVE  IsName(FreshName(s, p)) /\ FreshName(s, p) \notin NamesTaken(s)
<1> DEFINE k == Cardinality(DOMAIN s)
           N == {i \in 1..(k + 1) : Named(p, i) \notin NamesTaken(s)}
<1>1. IsFiniteSet(DOMAIN s) /\ k \in Nat
  <2>1. IsFiniteSet(1..n)
    BY FS_Interval, SMT
  <2> QED
    BY <2>1, FS_Subset, FS_CardinalityType, Zenon
<1>2. IsFiniteSet(1..(k + 1)) /\ Cardinality(1..(k + 1)) = k + 1
  BY <1>1, FS_Interval, SMT
<1> HIDE DEF k
<1>3. N # {}
  <2> SUFFICES ASSUME \A i \in 1..(k + 1) : Named(p, i) \in NamesTaken(s) PROVE FALSE
    BY DEF N
  <2> DEFINE f == [i \in 1..(k + 1) |-> CHOOSE c \in DOMAIN s : s[c].name = Named(p, i)]
  <2>1. \A i \in 1..(k + 1) : \E c \in DOMAIN s : s[c].name = Named(p, i)
    BY Zenon DEF NamesTaken
  <2>2. \A i \in 1..(k + 1) : f[i] \in DOMAIN s /\ s[f[i]].name = Named(p, i)
    BY <2>1, Zenon
  <2>3. f \in [1..(k + 1) -> DOMAIN s]
    BY <2>2, Zenon
  <2> HIDE DEF f
  <2>4. \E i, j \in 1..(k + 1) : i # j /\ f[i] = f[j]
    <3>1. Cardinality(DOMAIN s) < Cardinality(1..(k + 1))
      BY <1>1, <1>2, SMT DEF k
    <3> QED
      BY <1>1, <1>2, <2>3, <3>1, FS_PigeonHole, Zenon
  <2>5. PICK i, j \in 1..(k + 1) : i # j /\ f[i] = f[j]
    BY <2>4, Zenon
  <2>6. Named(p, i) = Named(p, j)
    BY <2>2, <2>5, Zenon
  <2>7. i \in Nat \ {0} /\ j \in Nat \ {0}
    BY <1>1, SMT
  <2> QED
    BY <2>5, <2>6, <2>7, NamedIs, Zenon
<1>4. N \in SUBSET Nat /\ 0 \notin N
  BY <1>1, SMT
<1> HIDE DEF N
<1>5. Min(N) \in N
  BY <1>3, <1>4, Least, Zenon
<1>6. Named(p, Min(N)) \notin NamesTaken(s)
  BY <1>5, Zenon DEF N
<1>7. Min(N) \in Nat \ {0}
  BY <1>4, <1>5, Zenon
<1> QED
  BY <1>6, <1>7, NamedIs, Zenon DEF FreshName, N, k

(* The port of a new node is free, and not the unified one.                *)
LEMMA PortIs ==
  ASSUME NEW s, PortsFree(s) # {}
  PROVE  /\ Min(PortsFree(s)) \in 1..MaxPort /\ Min(PortsFree(s)) # UnifiedPort
         /\ \A c \in DOMAIN s : s[c].port # Min(PortsFree(s))
<1>1. PortsFree(s) \in SUBSET Nat
  BY MergeAssumption, SMT DEF PortsFree
<1>2. Min(PortsFree(s)) \in PortsFree(s)
  BY <1>1, Least, Zenon
<1> QED
  BY <1>2, Zenon DEF PortsFree

-----------------------------------------------------------------------------
(* Matching *)

(* The keys of the stored subscription differ.                             *)
KeysDistinct ==
  \A c, d \in DOMAIN proxies :
    Subscribed(proxies[c]) /\ Subscribed(proxies[d]) /\ proxies[c].key = proxies[d].key
      => c = d

(* A match gives entries nodes of their own, none of them by hand.         *)
MatchOK(fresh, of) ==
  /\ of \in [DOMAIN fresh -> {Unmatched} \cup DOMAIN proxies]
  /\ \A i \in DOMAIN fresh : of[i] # Unmatched =>
       ~Bundled(proxies[of[i]]) /\ proxies[of[i]].source # "manual"
  /\ \A i, j \in DOMAIN fresh : of[i] = of[j] /\ of[i] # Unmatched => i = j

(* Entries up to n are matched with the node that is stored under their    *)
(* key, if there is one.                                                   *)
Found(fresh, of, n) ==
  \A i \in DOMAIN fresh, c \in DOMAIN proxies :
    i <= n /\ Subscribed(proxies[c]) /\ proxies[c].key = fresh[i].key => of[i] = c

(* No entry is matched with another node than that.                        *)
ByKey(fresh, of) ==
  \A i \in DOMAIN fresh : of[i] # Unmatched =>
    Subscribed(proxies[of[i]]) /\ proxies[of[i]].key = fresh[i].key

(* The entry at place i is matched with one that was found for it.         *)
Extended(of, i, found, after) == \E c \in found : after = [of EXCEPT ![i] = c]

(* Trying an entry leaves the match alone or extends it with a candidate.  *)
LEMMA TriedIs ==
  ASSUME NEW fresh, NEW legacy, NEW pass, NEW i, NEW m
  PROVE  \/ /\ Tried(fresh, legacy, pass, i, m).of = m.of
            /\ i \in DOMAIN fresh /\ m.of[i] = Unmatched /\ Alone(pass, fresh, i)
                 => Candidates(m, legacy, pass, fresh[i]) = {}
         \/ /\ i \in DOMAIN fresh /\ m.of[i] = Unmatched
            /\ Extended(m.of, i, Candidates(m, legacy, pass, fresh[i]),
                        Tried(fresh, legacy, pass, i, m).of)
<1> DEFINE found == Candidates(m, legacy, pass, fresh[i])
<1>1. CASE \/ i \notin DOMAIN fresh \/ m.of[i] # Unmatched
           \/ ~Alone(pass, fresh, i) \/ found = {}
  BY <1>1, Zenon DEF Tried
<1>2. CASE ~(\/ i \notin DOMAIN fresh \/ m.of[i] # Unmatched
             \/ ~Alone(pass, fresh, i) \/ found = {})
  <2>1. \A x, y : [ambiguous |-> x, of |-> y].of = y
    OBVIOUS
  <2>2. Tried(fresh, legacy, pass, i, m).of = [m.of EXCEPT ![i] = CHOOSE c \in found : TRUE]
    BY <1>2, <2>1, Zenon DEF Tried
  <2>3. (CHOOSE c \in found : TRUE) \in found
    BY <1>2, Zenon
  <2> QED
    BY <1>2, <2>2, <2>3, Zenon DEF Extended
<1> QED
  BY <1>1, <1>2, Zenon

(* Trying an entry keeps the match a match, and what it matched.           *)
LEMMA TriedKeeps ==
  ASSUME NEW fresh, NEW legacy, NEW pass, NEW i, NEW m, MatchOK(fresh, m.of)
  PROVE  /\ MatchOK(fresh, Tried(fresh, legacy, pass, i, m).of)
         /\ \A j \in DOMAIN fresh : m.of[j] # Unmatched =>
              Tried(fresh, legacy, pass, i, m).of[j] = m.of[j]
<1> DEFINE of == Tried(fresh, legacy, pass, i, m).of
<1>1. CASE of = m.of
  BY <1>1, Zenon
<1>2. ASSUME i \in DOMAIN fresh, m.of[i] = Unmatched,
             NEW c \in Candidates(m, legacy, pass, fresh[i]),
             of = [m.of EXCEPT ![i] = c]
      PROVE  /\ MatchOK(fresh, of)
             /\ \A j \in DOMAIN fresh : m.of[j] # Unmatched => of[j] = m.of[j]
  <2>1. /\ c \in DOMAIN proxies /\ \A j \in DOMAIN m.of : m.of[j] # c
        /\ ~Bundled(proxies[c]) /\ proxies[c].source # "manual"
    <3>1. "subscription" # "manual" /\ "" # "manual"
      OBVIOUS
    <3> QED
      BY <3>1, Zenon DEF Candidates, Matchable, Subscribed, Range
  <2>2. DOMAIN m.of = DOMAIN fresh
    BY DEF MatchOK
  <2>3. /\ DOMAIN of = DOMAIN fresh /\ of[i] = c
        /\ \A j \in DOMAIN fresh : j # i => of[j] = m.of[j]
    BY <1>2, <2>2
  <2> HIDE DEF of
  <2>4. of \in [DOMAIN fresh -> {Unmatched} \cup DOMAIN proxies]
    BY <1>2, <2>1, <2>2 DEF MatchOK
  <2> QED
    BY <1>2, <2>1, <2>2, <2>3, <2>4, Zenon DEF MatchOK
<1>3. \/ of = m.of
      \/ /\ i \in DOMAIN fresh /\ m.of[i] = Unmatched
         /\ Extended(m.of, i, Candidates(m, legacy, pass, fresh[i]), of)
  BY TriedIs, Zenon
<1> HIDE DEF of
<1>4. /\ MatchOK(fresh, of)
      /\ \A j \in DOMAIN fresh : m.of[j] # Unmatched => of[j] = m.of[j]
  BY <1>1, <1>2, <1>3, Zenon DEF Extended
<1> QED
  BY <1>4, Zenon DEF of

(* So a pass does.                                                         *)
LEMMA PassedKeeps ==
  ASSUME NEW fresh, NEW legacy, NEW pass, NEW m, MatchOK(fresh, m.of), Top(fresh) \in Nat
  PROVE  /\ MatchOK(fresh, Passed(fresh, legacy, pass, m).of)
         /\ \A j \in DOMAIN fresh : m.of[j] # Unmatched =>
              Passed(fresh, legacy, pass, m).of[j] = m.of[j]
<1>1. PICK f : /\ Walk(f, fresh, legacy, pass, m, Top(fresh))
               /\ Passed(fresh, legacy, pass, m) = f[Top(fresh)]
  BY PassedIs, Zenon
<1>2. f[0] = m
  <2>1. 0 \in 0..Top(fresh)
    BY SMT
  <2> QED
    BY <1>1, <2>1, Zenon DEF Walk
<1>3. ASSUME NEW n \in Nat, n + 1 <= Top(fresh)
      PROVE  f[n + 1] = Tried(fresh, legacy, pass, n + 1, f[n])
  <2>1. n + 1 \in 0..Top(fresh) /\ n + 1 # 0 /\ (n + 1) - 1 = n
    BY <1>3, SMT
  <2> QED
    BY <1>1, <2>1, Zenon DEF Walk
<1> DEFINE Kept1(n) == /\ MatchOK(fresh, f[n].of)
                      /\ \A j \in DOMAIN fresh : m.of[j] # Unmatched => f[n].of[j] = m.of[j]
           S == {n \in Nat : n <= Top(fresh) => Kept1(n)}
<1>4. 0 \in S
  BY <1>2, Zenon
<1>5. ASSUME NEW n \in Nat, n \in S PROVE n + 1 \in S
  <2> SUFFICES ASSUME n + 1 <= Top(fresh) PROVE Kept1(n + 1)
    OBVIOUS
  <2>1. n <= Top(fresh)
    BY SMT
  <2>2. Kept1(n)
    BY <1>5, <2>1, Zenon
  <2>3. f[n + 1] = Tried(fresh, legacy, pass, n + 1, f[n])
    BY <1>3
  <2>4. MatchOK(fresh, f[n].of)
    BY <2>2, Zenon
  <2> DEFINE g == Tried(fresh, legacy, pass, n + 1, f[n])
  <2>5. /\ MatchOK(fresh, g.of)
        /\ \A j \in DOMAIN fresh : f[n].of[j] # Unmatched => g.of[j] = f[n].of[j]
    BY <2>4, TriedKeeps
  <2> HIDE DEF g
  <2>6. f[n + 1] = g
    BY <2>3, Zenon DEF g
  <2> QED
    BY <2>2, <2>5, <2>6, Zenon
<1> HIDE DEF Kept1
<1>6. Top(fresh) \in S
  BY <1>4, <1>5, Upwards, Zenon
<1>7. Kept1(Top(fresh))
  BY <1>6, SMT
<1> QED
  BY <1>1, <1>7, Zenon DEF Kept1

(* The first pass goes by keys: a node that is stored under the key of the *)
(* entry it tries is what that entry is matched with.                      *)
LEMMA FirstTried ==
  ASSUME NEW fresh, DOMAIN fresh \subseteq Nat, Separate(fresh), NEW legacy, NEW m,
         MatchOK(fresh, m.of), ByKey(fresh, m.of), NEW n \in Nat, Found(fresh, m.of, n),
         KeysDistinct, Unmatched \notin DOMAIN proxies
  PROVE  /\ ByKey(fresh, Tried(fresh, legacy, 0, n + 1, m).of)
         /\ Found(fresh, Tried(fresh, legacy, 0, n + 1, m).of, n + 1)
<1> DEFINE i == n + 1
           of == Tried(fresh, legacy, 0, i, m).of
           found == Candidates(m, legacy, 0, fresh[i])
<1> SUFFICES ByKey(fresh, of) /\ Found(fresh, of, i)
  BY Zenon
<1>1. \A j \in DOMAIN fresh : j <= i /\ j # i => j <= n
  BY SMT
<1> HIDE DEF i, of, found
<1>2. \/ /\ of = m.of
         /\ i \in DOMAIN fresh /\ m.of[i] = Unmatched /\ Alone(0, fresh, i) => found = {}
      \/ /\ i \in DOMAIN fresh /\ m.of[i] = Unmatched
         /\ Extended(m.of, i, found, of)
  BY TriedIs, Zenon DEF of, found
<1>3. Alone(0, fresh, i) /\ \A p, q : Fits(0, p, q) <=> Subscribed(p) /\ p.key = q.key
  BY SMT DEF Alone, Fits
<1>4. DOMAIN m.of = DOMAIN fresh
  BY DEF MatchOK
<1>5. ASSUME i \in DOMAIN fresh, m.of[i] = Unmatched, NEW c \in DOMAIN proxies,
             Subscribed(proxies[c]), proxies[c].key = fresh[i].key
      PROVE  c \in found
  <2>1. c # Unmatched
    BY Zenon
  <2>2. \A j \in DOMAIN m.of : m.of[j] # c
    <3> SUFFICES ASSUME NEW j \in DOMAIN m.of, m.of[j] = c PROVE FALSE
      OBVIOUS
    <3>1. fresh[j].key = fresh[i].key
      BY <1>4, <1>5, <2>1, Zenon DEF ByKey
    <3> QED
      BY <1>4, <1>5, <2>1, <3>1, Zenon DEF Separate
  <2>3. ~Bundled(proxies[c])
    <3>1. "subscription" # ""
      OBVIOUS
    <3> QED
      BY <1>5, <3>1, Zenon DEF Bundled, Subscribed
  <2>4. c \in DOMAIN proxies \ Range(m.of)
    BY <2>2, Zenon DEF Range
  <2>5. Matchable(proxies[c], legacy)
    BY <1>5, <2>3, Zenon DEF Matchable
  <2>6. Fits(0, proxies[c], fresh[i])
    BY <1>3, <1>5, Zenon
  <2> QED
    BY <2>4, <2>5, <2>6, Zenon DEF found, Candidates
<1>6. CASE of = m.of /\ i \notin DOMAIN fresh
  BY <1>1, <1>6, Zenon DEF Found
<1>7. CASE of = m.of /\ i \in DOMAIN fresh /\ m.of[i] # Unmatched
  <2>1. ASSUME NEW c \in DOMAIN proxies, Subscribed(proxies[c]), proxies[c].key = fresh[i].key
        PROVE  m.of[i] = c
    <3>1. m.of[i] \in DOMAIN proxies
      BY <1>7 DEF MatchOK
    <3> QED
      BY <1>7, <2>1, <3>1, Zenon DEF ByKey, KeysDistinct
  <2> QED
    BY <1>1, <1>7, <2>1, Zenon DEF Found
<1>8. CASE of = m.of /\ i \in DOMAIN fresh /\ m.of[i] = Unmatched /\ found = {}
  BY <1>1, <1>5, <1>8, Zenon DEF Found
<1>9. ASSUME i \in DOMAIN fresh, m.of[i] = Unmatched, Extended(m.of, i, found, of)
      PROVE  ByKey(fresh, of) /\ Found(fresh, of, i)
  <2>1. PICK c \in found : of = [m.of EXCEPT ![i] = c]
    BY <1>9, Zenon DEF Extended
  <2>2. of[i] = c /\ \A j \in DOMAIN fresh : j # i => of[j] = m.of[j]
    BY <1>4, <1>9, <2>1
  <2>3. c \in DOMAIN proxies /\ Subscribed(proxies[c]) /\ proxies[c].key = fresh[i].key
    BY <1>3, Zenon DEF found, Candidates
  <2>4. ByKey(fresh, of)
    BY <2>2, <2>3, Zenon DEF ByKey
  <2>5. \A d \in DOMAIN proxies :
          Subscribed(proxies[d]) /\ proxies[d].key = fresh[i].key => d = c
    BY <2>3, Zenon DEF KeysDistinct
  <2> QED
    BY <1>1, <2>2, <2>4, <2>5, Zenon DEF Found
<1> QED
  BY <1>2, <1>3, <1>6, <1>7, <1>8, <1>9, Zenon

(* After the first pass every entry has the node stored under its key.     *)
LEMMA FirstPassed ==
  ASSUME NEW fresh, NEW n \in Nat, DOMAIN fresh \subseteq 1..n, Separate(fresh), NEW legacy,
         KeysDistinct, Unmatched \notin DOMAIN proxies
  PROVE  LET of == Passed(fresh, legacy, 0, NoMatch(fresh)).of
         IN  MatchOK(fresh, of) /\ Found(fresh, of, Top(fresh))
<1> DEFINE top == Top(fresh) m == NoMatch(fresh)
<1>1. top \in Nat
  BY TopIs, SMT
<1>2. PICK f : Walk(f, fresh, legacy, 0, m, top) /\ Passed(fresh, legacy, 0, m) = f[top]
  BY <1>1, PassedIs, Zenon
<1>3. f[0] = m
  <2>1. 0 \in 0..top
    BY <1>1, SMT
  <2> QED
    BY <1>2, <2>1, Zenon DEF Walk
<1>4. m.of = [i \in DOMAIN fresh |-> Unmatched]
  BY DEF NoMatch
<1> HIDE DEF top, m
<1>5. ASSUME NEW k \in Nat, k + 1 <= top
      PROVE  f[k + 1] = Tried(fresh, legacy, 0, k + 1, f[k])
  <2>1. k + 1 \in 0..top /\ k + 1 # 0 /\ (k + 1) - 1 = k
    BY <1>1, <1>5, SMT
  <2> QED
    BY <1>2, <2>1, Zenon DEF Walk
<1> DEFINE Done(k) == /\ MatchOK(fresh, f[k].of) /\ ByKey(fresh, f[k].of)
                      /\ Found(fresh, f[k].of, k)
           S == {k \in Nat : k <= top => Done(k)}
<1>6. 0 \in S
  <2>1. Done(0)
    <3>1. MatchOK(fresh, m.of) /\ ByKey(fresh, m.of)
      BY <1>4 DEF MatchOK, ByKey
    <3>2. \A i \in DOMAIN fresh : ~(i <= 0)
      BY SMT
    <3>3. Found(fresh, m.of, 0)
      BY <3>2, Zenon DEF Found
    <3> QED
      BY <1>3, <3>1, <3>3, Zenon
  <2> QED
    BY <2>1, Zenon
<1>7. DOMAIN fresh \subseteq Nat
  BY SMT
<1>8. ASSUME NEW k \in Nat, k \in S PROVE k + 1 \in S
  <2> SUFFICES ASSUME k + 1 <= top PROVE Done(k + 1)
    OBVIOUS
  <2>1. k <= top
    BY <1>1, SMT
  <2>2. Done(k)
    BY <1>8, <2>1, Zenon
  <2>3. f[k + 1] = Tried(fresh, legacy, 0, k + 1, f[k])
    BY <1>5
  <2>4. MatchOK(fresh, Tried(fresh, legacy, 0, k + 1, f[k]).of)
    BY <2>2, TriedKeeps
  <2>5. /\ ByKey(fresh, Tried(fresh, legacy, 0, k + 1, f[k]).of)
        /\ Found(fresh, Tried(fresh, legacy, 0, k + 1, f[k]).of, k + 1)
    BY <1>7, <2>2, FirstTried, Zenon
  <2> QED
    BY <2>3, <2>4, <2>5, Zenon
<1> HIDE DEF Done
<1>9. top \in S
  BY <1>1, <1>6, <1>8, Upwards, Zenon
<1>10. Done(top)
  BY <1>1, <1>9, SMT
<1> QED
  BY <1>2, <1>10, Zenon DEF Done, top, m

(* A match of the whole feed: every entry has the node that is stored under*)
(* its key.                                                                *)
Complete(fresh, of) ==
  /\ MatchOK(fresh, of)
  /\ \A i \in DOMAIN fresh, c \in DOMAIN proxies :
       Subscribed(proxies[c]) /\ proxies[c].key = fresh[i].key => of[i] = c

(* The later passes leave that as it is.                                   *)
LEMMA LaterPassed ==
  ASSUME NEW fresh, NEW legacy, NEW pass, NEW m, Complete(fresh, m.of), Top(fresh) \in Nat,
         Unmatched \notin DOMAIN proxies
  PROVE  Complete(fresh, Passed(fresh, legacy, pass, m).of)
<1> DEFINE of == Passed(fresh, legacy, pass, m).of
<1>1. MatchOK(fresh, m.of)
  BY DEF Complete
<1>2. MatchOK(fresh, of) /\ \A j \in DOMAIN fresh : m.of[j] # Unmatched => of[j] = m.of[j]
  BY <1>1, PassedKeeps
<1> HIDE DEF of
<1>3. Complete(fresh, of)
  BY <1>2, Zenon DEF Complete
<1> QED
  BY <1>3, Zenon DEF of

(* So do the five passes together.                                         *)
LEMMA MatchingIs ==
  ASSUME NEW fresh, NEW n \in Nat, DOMAIN fresh \subseteq 1..n, Separate(fresh), NEW legacy,
         KeysDistinct, Unmatched \notin DOMAIN proxies
  PROVE  Complete(fresh, Matching(fresh, legacy).of)
<1> DEFINE pass(k, m) == Passed(fresh, legacy, Passes[k], m)
<1>1. Top(fresh) \in Nat /\ \A i \in DOMAIN fresh : i <= Top(fresh)
  BY TopIs, SMT
<1>2. Passes[1] = 0
  BY DEF Passes
<1>3. Complete(fresh, pass(1, NoMatch(fresh)).of)
  <2>1. LET of == Passed(fresh, legacy, 0, NoMatch(fresh)).of
        IN  MatchOK(fresh, of) /\ Found(fresh, of, Top(fresh))
    BY FirstPassed, Zenon
  <2> QED
    BY <1>1, <1>2, <2>1, Zenon DEF Complete, Found
<1>4. \A k, m : Complete(fresh, m.of) => Complete(fresh, pass(k, m).of)
  BY <1>1, LaterPassed, Zenon
<1> HIDE DEF pass
<1>5. Complete(fresh, pass(5, pass(4, pass(3, pass(2, pass(1, NoMatch(fresh)))))).of)
  BY <1>3, <1>4, Zenon
<1> QED
  BY <1>5, Zenon DEF Matching, pass

(* The key of an entry is stored, of one node at most: nothing ambiguous.  *)
LEMMA TriedClear ==
  ASSUME NEW fresh, NEW legacy, NEW i, NEW m, ~m.ambiguous, KeysDistinct
  PROVE  ~Tried(fresh, legacy, 0, i, m).ambiguous
<1> DEFINE found == Candidates(m, legacy, 0, fresh[i])
<1>1. \A p, q : Fits(0, p, q) <=> Subscribed(p) /\ p.key = q.key
  BY SMT DEF Fits
<1>2. \A c, d \in found : c = d
  BY <1>1, Zenon DEF Candidates, KeysDistinct
<1>3. \A x, y : [ambiguous |-> x, of |-> y].ambiguous = x
  OBVIOUS
<1>4. \/ Tried(fresh, legacy, 0, i, m) = m
      \/ \E y : Tried(fresh, legacy, 0, i, m) =
                 [ambiguous |-> m.ambiguous \/ \E c, d \in found : c # d, of |-> y]
  BY Zenon DEF Tried
<1> HIDE DEF found
<1> QED
  BY <1>2, <1>3, <1>4, Zenon

(* In the first pass nothing is.                                           *)
LEMMA FirstClear ==
  ASSUME NEW fresh, Top(fresh) \in Nat, NEW legacy, KeysDistinct
  PROVE  ~Passed(fresh, legacy, 0, NoMatch(fresh)).ambiguous
<1> DEFINE top == Top(fresh) m == NoMatch(fresh)
<1>1. PICK f : Walk(f, fresh, legacy, 0, m, top) /\ Passed(fresh, legacy, 0, m) = f[top]
  BY PassedIs, Zenon
<1>2. ~m.ambiguous
  BY DEF NoMatch
<1>3. top \in Nat
  BY Zenon
<1> HIDE DEF top, m
<1> DEFINE S == {k \in Nat : k <= top => ~f[k].ambiguous}
<1>4. 0 \in S
  <2>1. 0 \in 0..top
    BY <1>3, SMT
  <2>2. f[0] = m
    BY <1>1, <2>1, Zenon DEF Walk
  <2> QED
    BY <1>2, <2>2, Zenon
<1>5. ASSUME NEW k \in Nat, k \in S PROVE k + 1 \in S
  <2> SUFFICES ASSUME k + 1 <= top PROVE ~f[k + 1].ambiguous
    OBVIOUS
  <2>1. k <= top /\ k + 1 \in 0..top /\ k + 1 # 0 /\ (k + 1) - 1 = k
    BY <1>3, SMT
  <2>2. f[k + 1] = Tried(fresh, legacy, 0, k + 1, f[k])
    BY <1>1, <2>1, Zenon DEF Walk
  <2> QED
    BY <1>5, <2>1, <2>2, TriedClear, Zenon
<1>6. top \in S
  BY <1>3, <1>4, <1>5, Upwards, Zenon
<1> QED
  BY <1>1, <1>3, <1>6, SMT DEF top, m

(* A pass has nothing to do when every entry has its node.                 *)
LEMMA PassedAll ==
  ASSUME NEW fresh, Top(fresh) \in Nat, NEW legacy, NEW pass, NEW m,
         \A i \in DOMAIN fresh : m.of[i] # Unmatched
  PROVE  Passed(fresh, legacy, pass, m) = m
<1> DEFINE top == Top(fresh)
<1>1. PICK f : Walk(f, fresh, legacy, pass, m, top) /\ Passed(fresh, legacy, pass, m) = f[top]
  BY PassedIs, Zenon
<1>2. top \in Nat
  BY Zenon
<1>3. \A i : Tried(fresh, legacy, pass, i, m) = m
  BY Zenon DEF Tried
<1> HIDE DEF top
<1> DEFINE S == {k \in Nat : k <= top => f[k] = m}
<1>4. 0 \in S
  <2>1. 0 \in 0..top
    BY <1>2, SMT
  <2> QED
    BY <1>1, <2>1, Zenon DEF Walk
<1>5. ASSUME NEW k \in Nat, k \in S PROVE k + 1 \in S
  <2> SUFFICES ASSUME k + 1 <= top PROVE f[k + 1] = m
    OBVIOUS
  <2>1. k <= top /\ k + 1 \in 0..top /\ k + 1 # 0 /\ (k + 1) - 1 = k
    BY <1>2, SMT
  <2>2. f[k + 1] = Tried(fresh, legacy, pass, k + 1, f[k])
    BY <1>1, <2>1, Zenon DEF Walk
  <2> QED
    BY <1>3, <1>5, <2>1, <2>2, Zenon
<1>6. top \in S
  BY <1>2, <1>4, <1>5, Upwards, Zenon
<1> QED
  BY <1>1, <1>2, <1>6, SMT DEF top

(* A feed whose keys are all stored is matched by them.                    *)
LEMMA MatchingAll ==
  ASSUME NEW fresh, NEW n \in Nat, DOMAIN fresh \subseteq 1..n, Separate(fresh), NEW legacy,
         KeysDistinct, Unmatched \notin DOMAIN proxies,
         \A i \in DOMAIN fresh : \E c \in DOMAIN proxies :
           Subscribed(proxies[c]) /\ proxies[c].key = fresh[i].key
  PROVE  LET m == Matching(fresh, legacy)
         IN  ~m.ambiguous /\ \A i \in DOMAIN fresh : m.of[i] # Unmatched
<1> DEFINE pass(k, m) == Passed(fresh, legacy, Passes[k], m)
           first == pass(1, NoMatch(fresh))
<1>1. Top(fresh) \in Nat /\ \A i \in DOMAIN fresh : i <= Top(fresh)
  BY TopIs, SMT
<1>2. first = Passed(fresh, legacy, 0, NoMatch(fresh))
  BY DEF Passes
<1> HIDE DEF first
<1>3. Found(fresh, first.of, Top(fresh))
  BY <1>2, FirstPassed, Zenon
<1>4. ASSUME NEW i \in DOMAIN fresh PROVE first.of[i] # Unmatched
  <2>1. PICK c \in DOMAIN proxies : Subscribed(proxies[c]) /\ proxies[c].key = fresh[i].key
    OBVIOUS
  <2>2. first.of[i] = c
    BY <1>1, <1>3, <2>1, Zenon DEF Found
  <2> QED
    BY <2>2, Zenon
<1>5. ~first.ambiguous
  BY <1>1, <1>2, FirstClear, Zenon
<1>6. \A k : pass(k, first) = first
  <2>1. \A i \in DOMAIN fresh : first.of[i] # Unmatched
    BY <1>4
  <2>2. ASSUME NEW k PROVE Passed(fresh, legacy, k, first) = first
    BY <1>1, <2>1, PassedAll
  <2> QED
    BY <2>2
<1> HIDE DEF pass
<1>7. Matching(fresh, legacy) = pass(5, pass(4, pass(3, pass(2, first))))
  BY Zenon DEF Matching, pass, first
<1>8. Matching(fresh, legacy) = first
  BY <1>6, <1>7, Zenon
<1> QED
  BY <1>4, <1>5, <1>8, Zenon

-----------------------------------------------------------------------------
(* New nodes *)

(* The elements of a finite set in some order, each of them once.          *)
LEMMA OrderIs ==
  ASSUME NEW K, IsFiniteSet(K)
  PROVE  /\ SetToSeq(K) \in [1..Cardinality(K) -> K]
         /\ \A i, j \in 1..Cardinality(K) : SetToSeq(K)[i] = SetToSeq(K)[j] => i = j
         /\ \A x \in K : \E i \in 1..Cardinality(K) : SetToSeq(K)[i] = x
<1> DEFINE N == 1..Cardinality(K) f == SetToSeq(K)
<1>1. Cardinality(K) \in Nat /\ ExistsBijection(N, K)
  BY FS_CardinalityType, Zenon
<1>2. PICK b : b \in Bijection(N, K)
  BY <1>1, Zenon DEF ExistsBijection
<1>3. b \in [N -> K] /\ \A i, j \in N : b[i] = b[j] => i = j
  BY <1>2, Fun_BijectionProperties, Zenon
<1>4. DOMAIN b = N
  BY <1>3, Zenon
<1>5. IsInjective(b)
  BY <1>3, <1>4, Zenon DEF IsInjective
<1>6. f \in [N -> K] /\ IsInjective(f)
  BY <1>3, <1>5, Zenon DEF SetToSeq
<1>7. IsFiniteSet(N) /\ Cardinality(N) = Cardinality(K)
  BY <1>1, FS_Interval, SMT
<1> HIDE DEF f, N
<1>8. DOMAIN f = N
  BY <1>6, Zenon
<1>9. \A i, j \in N : f[i] = f[j] => i = j
  BY <1>6, <1>8, Zenon DEF IsInjective
<1>10. f \in Injection(N, K)
  BY <1>6, <1>9, Fun_IsInj, Zenon
<1>11. f \in Surjection(N, K)
  BY <1>7, <1>10, FS_Injection, Zenon
<1>12. \A x \in K : \E i \in N : f[i] = x
  BY <1>11, Fun_SurjectionProperties, Zenon
<1> QED
  BY <1>6, <1>9, <1>12, Zenon DEF f, N

(* The new nodes are the entries without a match, each of them once.       *)
LEMMA NewIs ==
  ASSUME NEW fresh, NEW n \in Nat, DOMAIN fresh \subseteq 1..n, Separate(fresh), NEW of
  PROVE  /\ Len(New(fresh, of)) \in Nat
         /\ \A k \in 1..Len(New(fresh, of)) : \E i \in DOMAIN fresh :
              of[i] = Unmatched /\ New(fresh, of)[k] = fresh[i]
         /\ \A i \in DOMAIN fresh : of[i] = Unmatched =>
              \E k \in 1..Len(New(fresh, of)) : New(fresh, of)[k] = fresh[i]
         /\ \A k, l \in 1..Len(New(fresh, of)) :
              New(fresh, of)[k].key = New(fresh, of)[l].key => k = l
<1> DEFINE U == {i \in DOMAIN fresh : of[i] = Unmatched}
           K == {fresh[i].key : i \in U}
           C == Cardinality(K)
           order == SetToSeq(K)
           new == New(fresh, of)
<1>1. new = [k \in DOMAIN order |-> fresh[CHOOSE i \in U : fresh[i].key = order[k]]]
  BY Zenon DEF New
<1>2. IsFiniteSet(K)
  <2>1. IsFiniteSet(1..n)
    BY FS_Interval, SMT
  <2>2. U \in SUBSET (1..n)
    BY Zenon
  <2>3. IsFiniteSet(U)
    BY <2>1, <2>2, FS_Subset, Zenon
  <2> DEFINE g == [i \in U |-> fresh[i].key]
  <2> HIDE DEF U
  <2>4. g \in [U -> K] /\ \A x \in K : \E i \in U : g[i] = x
    BY Zenon
  <2>5. g \in Surjection(U, K)
    BY <2>4, Fun_IsSurj, Zenon
  <2> QED
    BY <2>3, <2>5, FS_Surjection, Zenon
<1>3. /\ order \in [1..C -> K] /\ \A i, j \in 1..C : order[i] = order[j] => i = j
      /\ \A x \in K : \E i \in 1..C : order[i] = x
  BY <1>2, OrderIs, Zenon
<1>4. C \in Nat
  BY <1>2, FS_CardinalityType, Zenon
<1> HIDE DEF order, C, new
<1>5. DOMAIN order = 1..C
  BY <1>3, Zenon
<1>6. \A k \in 1..C : \E i \in U : fresh[i].key = order[k]
  <2>1. \A x \in K : \E i \in U : fresh[i].key = x
    BY Zenon
  <2>2. \A k \in 1..C : order[k] \in K
    BY <1>3, Zenon
  <2> HIDE DEF K, U
  <2> QED
    BY <2>1, <2>2, Zenon
<1>7. \A k \in 1..C : \E i \in U : new[k] = fresh[i] /\ fresh[i].key = order[k]
  <2> SUFFICES ASSUME NEW k \in 1..C
               PROVE  \E i \in U : new[k] = fresh[i] /\ fresh[i].key = order[k]
    OBVIOUS
  <2> DEFINE i == CHOOSE i \in U : fresh[i].key = order[k]
  <2>1. i \in U /\ fresh[i].key = order[k]
    BY <1>6, Zenon
  <2>2. new[k] = fresh[i]
    BY <1>1, <1>5, Zenon
  <2> QED
    BY <2>1, <2>2, Zenon
<1>8. DOMAIN new = 1..C
  BY <1>1, <1>5, Zenon
<1>9. Len(new) = C
  <2> DEFINE R == {fresh[i] : i \in U}
  <2> HIDE DEF U
  <2>1. \A k \in 1..C : new[k] \in R
    BY <1>7, Zenon
  <2>2. new \in [1..C -> R]
    BY <2>1, <1>1, <1>5, Zenon
  <2> HIDE DEF R
  <2>3. new \in Seq(R)
    BY <1>4, <2>2, SeqDef
  <2>4. DOMAIN new = 1..Len(new) /\ Len(new) \in Nat
    BY <2>3, LenProperties, Zenon
  <2> QED
    BY <1>4, <1>8, <2>4, SMT
<1>10. \A k \in 1..C : new[k].key = order[k]
  BY <1>7, Zenon
<1>11. \A i \in U : \E k \in 1..C : new[k] = fresh[i]
  <2> SUFFICES ASSUME NEW i \in U PROVE \E k \in 1..C : new[k] = fresh[i]
    OBVIOUS
  <2>1. PICK k \in 1..C : order[k] = fresh[i].key
    BY <1>3, Zenon
  <2>2. PICK j \in U : new[k] = fresh[j] /\ fresh[j].key = order[k]
    BY <1>7, Zenon
  <2>3. i = j
    BY <2>1, <2>2, Zenon DEF Separate
  <2> QED
    BY <2>2, <2>3, Zenon
<1>12. \A k, l \in 1..C : new[k].key = new[l].key => k = l
  <2>1. \A k, l \in 1..C : order[k] = order[l] => k = l
    BY <1>3
  <2> QED
    BY <1>10, <2>1, Zenon
<1>13. \A k \in 1..C : \E i \in DOMAIN fresh : of[i] = Unmatched /\ new[k] = fresh[i]
  BY <1>7, Zenon
<1>14. \A i \in DOMAIN fresh : of[i] = Unmatched => \E k \in 1..C : new[k] = fresh[i]
  BY <1>11, Zenon
<1> QED
  BY <1>4, <1>9, <1>12, <1>13, <1>14, Zenon DEF new

-----------------------------------------------------------------------------
(* Lists of nodes *)

(* A list of nodes that may be stored.                                     *)
ListOK(s) ==
  /\ \E n \in Nat : DOMAIN s \subseteq 1..n
  /\ \A c \in DOMAIN s : NodeOK(s[c])
  /\ NamesUnique(s) /\ PortsUnique(s)

(* What is where in such a list.                                           *)
LEMMA WithAt ==
  ASSUME NEW s, ListOK(s), NEW q
  PROVE  /\ Top(s) + 1 \notin DOMAIN s
         /\ DOMAIN With(s, q) = DOMAIN s \cup {Top(s) + 1}
         /\ With(s, q)[Top(s) + 1] = q
         /\ \A c \in DOMAIN s : With(s, q)[c] = s[c]
<1>1. PICK n \in Nat : DOMAIN s \subseteq 1..n
  BY Zenon DEF ListOK
<1> QED
  BY <1>1, WithIs, Zenon

(* One more node with a name and a port of its own.                        *)
LEMMA WithKeeps ==
  ASSUME NEW s, ListOK(s), NEW q, NodeOK(q), q.name \notin NamesTaken(s),
         q.port # UnifiedPort, \A c \in DOMAIN s : s[c].port # q.port
  PROVE  ListOK(With(s, q))
<1> DEFINE w == With(s, q) new == Top(s) + 1
<1>1. PICK n \in Nat : DOMAIN s \subseteq 1..n
  BY Zenon DEF ListOK
<1>2. /\ new \notin DOMAIN s /\ DOMAIN w = DOMAIN s \cup {new} /\ DOMAIN w \subseteq 1..(n + 1)
      /\ w[new] = q /\ \A c \in DOMAIN s : w[c] = s[c]
  BY <1>1, WithIs, Zenon
<1>3. n + 1 \in Nat
  BY SMT
<1> HIDE DEF w, new
<1>4. \A c \in DOMAIN w : NodeOK(w[c])
  BY <1>2, Zenon DEF ListOK
<1>5. NamesUnique(w)
  <2>1. \A c \in DOMAIN s : s[c].name # q.name
    BY Zenon DEF NamesTaken
  <2>2. \A c, d \in DOMAIN s : s[c].name = s[d].name => c = d
    BY Zenon DEF ListOK, NamesUnique
  <2> QED
    BY <1>2, <2>1, <2>2, Zenon DEF NamesUnique
<1>6. PortsUnique(w)
  BY <1>2, Zenon DEF ListOK, PortsUnique
<1>7. ListOK(w)
  BY <1>2, <1>3, <1>4, <1>5, <1>6, Zenon DEF ListOK
<1> QED
  BY <1>7, Zenon DEF w

(* The list that s is, as a record of Added.                               *)
IsGrowing(a) == a \in [full : BOOLEAN, nodes : {a.nodes}]

(* Adding a node changes its name and port only.                           *)
LEMMA AddedIs ==
  ASSUME NEW a, IsGrowing(a), ListOK(a.nodes), NEW p, NodeOK(p), ~Added(a, p).full
  PROVE  /\ ~a.full
         /\ \E q : /\ Added(a, p).nodes = With(a.nodes, q)
                   /\ ListOK(With(a.nodes, q))
                   /\ q.source = p.source /\ q.key = p.key /\ q.missing = p.missing
                   /\ Usable(q) <=> Usable(p)
<1> DEFINE s == a.nodes
           q == [p EXCEPT !.name = FreshName(s, p), !.port = Min(PortsFree(s))]
<1>1. PICK n \in Nat : DOMAIN s \subseteq 1..n
  BY Zenon DEF ListOK
<1>2. IsSequence(p.name)
  BY DEF NodeOK, IsName
<1>3. IsName(FreshName(s, p)) /\ FreshName(s, p) \notin NamesTaken(s)
  BY <1>1, <1>2, FreshNameIs, Zenon
<1>4. PortsFree(s) # {}
  <2> SUFFICES ASSUME PortsFree(s) = {} PROVE FALSE
    OBVIOUS
  <2>1. Added(a, p) = [a EXCEPT !.full = TRUE]
    BY Zenon DEF Added
  <2> QED
    BY <2>1 DEF IsGrowing
<1>5. Added(a, p) = [a EXCEPT !.nodes = With(s, q)]
  BY <1>4, Zenon DEF Added
<1>6. /\ Min(PortsFree(s)) \in 1..MaxPort /\ Min(PortsFree(s)) # UnifiedPort
      /\ \A c \in DOMAIN s : s[c].port # Min(PortsFree(s))
  BY <1>4, PortIs, Zenon
<1>7. /\ q.source = p.source /\ q.key = p.key /\ q.missing = p.missing
      /\ q.name = FreshName(s, p) /\ q.port = Min(PortsFree(s))
      /\ q.at = p.at /\ q.cred = p.cred /\ NodeOK(q)
  <2> DEFINE r(x, y) == [p EXCEPT !.name = x, !.port = y]
             Is(z, x, y) ==
               /\ z.source = p.source /\ z.key = p.key /\ z.missing = p.missing
               /\ z.name = x /\ z.port = y /\ z.at = p.at /\ z.cred = p.cred
               /\ z \in [source : {"", "manual", "subscription"}, key : {z.key},
                          missing : 0..1, name : {z.name}, enabled : BOOLEAN,
                          port : 0..MaxPort, at : Endpoints \cup {Example},
                          cred : {z.cred}]
  <2>1. Min(PortsFree(s)) \in 0..MaxPort
    BY <1>6, MergeAssumption, SMT
  <2>2. ASSUME NEW x, NEW y \in 0..MaxPort PROVE Is(r(x, y), x, y)
    BY DEF NodeOK
  <2>3. q = r(FreshName(s, p), Min(PortsFree(s)))
    OBVIOUS
  <2> HIDE DEF r, q, Is
  <2>4. Is(q, FreshName(s, p), Min(PortsFree(s)))
    BY <2>1, <2>2, <2>3, Zenon
  <2> USE DEF Is
  <2>5. IF Subscribed(q) THEN q.key \in Keys ELSE q.key = None /\ q.missing = 0
    BY <2>4, Zenon DEF NodeOK, Subscribed
  <2> QED
    BY <1>3, <2>4, <2>5, Zenon DEF NodeOK
<1> HIDE DEF q
<1>8. ListOK(With(s, q))
  BY <1>3, <1>6, <1>7, WithKeeps, Zenon
<1>9. Added(a, p).nodes = With(s, q) /\ Added(a, p).full = a.full
  BY <1>5 DEF IsGrowing
<1> QED
  BY <1>7, <1>8, <1>9, Zenon DEF Usable

(* A list that is growing stays one.                                       *)
LEMMA AddedGrows ==
  ASSUME NEW a, IsGrowing(a), NEW p
  PROVE  IsGrowing(Added(a, p))
<1>1. \A x : IsGrowing([a EXCEPT !.nodes = x]) /\ IsGrowing([a EXCEPT !.full = TRUE])
  BY DEF IsGrowing
<1> QED
  BY <1>1, Zenon DEF Added

(* The nodes new are new ones of the subscription, with keys that differ.  *)
NewOK(new) ==
  /\ Len(new) \in Nat
  /\ \A k \in 1..Len(new) : NodeOK(new[k]) /\ Subscribed(new[k]) /\ new[k].missing = 0
  /\ \A k, l \in 1..Len(new) : new[k].key = new[l].key => k = l

(* s is the list stored, and a place for each of the first k nodes of new. *)
Grown(s, stored, new, k) ==
  /\ ListOK(s)
  /\ DOMAIN stored \subseteq DOMAIN s /\ \A c \in DOMAIN stored : s[c] = stored[c]
  /\ \A c \in DOMAIN s \ DOMAIN stored :
       /\ Subscribed(s[c]) /\ s[c].missing = 0
       /\ \E j \in 1..k : s[c].key = new[j].key
  /\ \A j \in 1..k : \E c \in DOMAIN s \ DOMAIN stored : s[c].key = new[j].key
  /\ \A c \in DOMAIN s \ DOMAIN stored, j \in 1..Len(new) :
       s[c].key = new[j].key => (Usable(s[c]) <=> Usable(new[j]))
  /\ \A c, d \in DOMAIN s \ DOMAIN stored : s[c].key = s[d].key => c = d

(* Adding the next of the new nodes makes it grow.                         *)
LEMMA GrownStep ==
  ASSUME NEW stored, NEW new, NewOK(new), NEW k \in Nat, k + 1 <= Len(new),
         NEW s, Grown(s, stored, new, k), NEW q, ListOK(With(s, q)),
         q.source = new[k + 1].source, q.key = new[k + 1].key,
         q.missing = new[k + 1].missing, Usable(q) <=> Usable(new[k + 1])
  PROVE  Grown(With(s, q), stored, new, k + 1)
<1> DEFINE w == With(s, q) place == Top(s) + 1 l == k + 1
<1>1. ListOK(s)
  BY Zenon DEF Grown
<1>2. /\ place \notin DOMAIN s /\ DOMAIN w = DOMAIN s \cup {place}
      /\ w[place] = q /\ \A c \in DOMAIN s : w[c] = s[c]
  BY <1>1, WithAt, Zenon
<1>3. l \in 1..Len(new) /\ \A j \in 1..l : j = l \/ j \in 1..k
  BY SMT DEF NewOK
<1>4. 1..k \subseteq 1..l /\ l \in 1..l /\ l \notin 1..k /\ 1..k \subseteq 1..Len(new)
  BY <1>3, SMT DEF NewOK
<1>5. ListOK(w)
  OBVIOUS
<1>6. /\ q.source = new[l].source /\ q.key = new[l].key /\ q.missing = new[l].missing
      /\ Usable(q) <=> Usable(new[l])
  OBVIOUS
<1> HIDE DEF w, place, l
<1>7. Subscribed(q) /\ q.missing = 0
  BY <1>3, <1>6, Zenon DEF NewOK, Subscribed
<1>8. DOMAIN stored \subseteq DOMAIN w /\ \A c \in DOMAIN stored : w[c] = stored[c]
  BY <1>2, Zenon DEF Grown
<1>9. place \notin DOMAIN stored
  BY <1>2, Zenon DEF Grown
<1>10. \A c \in DOMAIN w \ DOMAIN stored :
         /\ Subscribed(w[c]) /\ w[c].missing = 0
         /\ \E j \in 1..l : w[c].key = new[j].key
  <2> SUFFICES ASSUME NEW c \in DOMAIN w \ DOMAIN stored
               PROVE  /\ Subscribed(w[c]) /\ w[c].missing = 0
                      /\ \E j \in 1..l : w[c].key = new[j].key
    OBVIOUS
  <2>1. CASE c = place
    BY <1>2, <1>4, <1>6, <1>7, <2>1, Zenon
  <2>2. CASE c # place
    <3>1. c \in DOMAIN s \ DOMAIN stored /\ w[c] = s[c]
      BY <1>2, <2>2, Zenon
    <3>2. Subscribed(s[c]) /\ s[c].missing = 0 /\ \E j \in 1..k : s[c].key = new[j].key
      BY <3>1, Zenon DEF Grown
    <3> QED
      BY <1>4, <3>1, <3>2, Zenon
  <2> QED
    BY <2>1, <2>2
<1>11. \A j \in 1..l : \E c \in DOMAIN w \ DOMAIN stored : w[c].key = new[j].key
  <2>1. \A j \in 1..k : \E c \in DOMAIN s \ DOMAIN stored : s[c].key = new[j].key
    BY Zenon DEF Grown
  <2>2. \A c \in DOMAIN s \ DOMAIN stored : c \in DOMAIN w \ DOMAIN stored /\ w[c] = s[c]
    BY <1>2, Zenon
  <2>3. place \in DOMAIN w \ DOMAIN stored /\ w[place].key = new[l].key
    BY <1>2, <1>6, <1>9, Zenon
  <2> QED
    BY <1>3, <2>1, <2>2, <2>3, Zenon
<1>12. \A c \in DOMAIN s \ DOMAIN stored : s[c].key # q.key
  <2> SUFFICES ASSUME NEW c \in DOMAIN s \ DOMAIN stored, s[c].key = q.key PROVE FALSE
    OBVIOUS
  <2>1. PICK j \in 1..k : s[c].key = new[j].key
    BY Zenon DEF Grown
  <2>2. j = l
    BY <1>3, <1>4, <1>6, <2>1, Zenon DEF NewOK
  <2> QED
    BY <1>4, <2>2, Zenon
<1>13. \A c, d \in DOMAIN s \ DOMAIN stored : s[c].key = s[d].key => c = d
  BY Zenon DEF Grown
<1>14. \A c, d \in DOMAIN w \ DOMAIN stored : w[c].key = w[d].key => c = d
  BY <1>2, <1>12, <1>13, Zenon
<1>16. \A c \in DOMAIN w \ DOMAIN stored, j \in 1..Len(new) :
         w[c].key = new[j].key => (Usable(w[c]) <=> Usable(new[j]))
  <2> SUFFICES ASSUME NEW c \in DOMAIN w \ DOMAIN stored, NEW j \in 1..Len(new),
                      w[c].key = new[j].key
               PROVE  Usable(w[c]) <=> Usable(new[j])
    OBVIOUS
  <2>1. CASE c = place
    <3>1. j = l
      BY <1>2, <1>3, <1>6, <2>1, Zenon DEF NewOK
    <3> QED
      BY <1>2, <1>6, <2>1, <3>1, Zenon
  <2>2. CASE c # place
    <3>1. c \in DOMAIN s \ DOMAIN stored /\ w[c] = s[c]
      BY <1>2, <2>2, Zenon
    <3> QED
      BY <3>1, Zenon DEF Grown
  <2> QED
    BY <2>1, <2>2
<1>15. Grown(w, stored, new, l)
  BY <1>5, <1>8, <1>10, <1>11, <1>14, <1>16, Zenon DEF Grown
<1> QED
  BY <1>15, Zenon DEF w, l

(* a is the list after each of the new nodes.                              *)
Adding(a, stored, new, n) ==
  a = [k \in 0..n |-> IF k = 0 THEN [full |-> FALSE, nodes |-> stored]
                       ELSE Added(a[k - 1], new[k])]

(* That list exists for as many nodes as there are.                        *)
LEMMA AddingIs ==
  ASSUME NEW stored, NEW new, Len(new) \in Nat
  PROVE  \E f : Adding(f, stored, new, Len(new)) /\ WithNew(stored, new) = f[Len(new)]
<1> DEFINE first == [full |-> FALSE, nodes |-> stored]
           Is(f, n) == f = [k \in 0..n |-> IF k = 0 THEN first ELSE Added(f[k - 1], new[k])]
           S == {n \in Nat : \E f : Is(f, n)}
<1> HIDE DEF first
<1>1. 0 \in S
  <2>1. Is([k \in 0..0 |-> first], 0)
    BY SMT
  <2> QED
    BY <2>1
<1>2. ASSUME NEW n \in Nat, n \in S PROVE n + 1 \in S
  <2>1. PICK f : Is(f, n)
    BY <1>2
  <2> DEFINE g == [k \in 0..(n + 1) |-> IF k = n + 1 THEN Added(f[n], new[k]) ELSE f[k]]
  <2>2. \A k \in 0..(n + 1) : g[k] = IF k = 0 THEN first ELSE Added(g[k - 1], new[k])
    BY <2>1, SMT
  <2>3. \E h : Is(h, n + 1)
    BY <2>2
  <2> HIDE DEF Is
  <2> QED
    BY <2>3
<1>3. \E f : Is(f, Len(new))
  BY <1>1, <1>2, Upwards, Zenon
<1> QED
  BY <1>3, Zenon DEF WithNew, Adding, first

(* The list with all the new nodes, unless the ports run out.              *)
LEMMA WithNewIs ==
  ASSUME NEW stored, ListOK(stored), NEW new, NewOK(new), ~WithNew(stored, new).full
  PROVE  Grown(WithNew(stored, new).nodes, stored, new, Len(new))
<1> DEFINE top == Len(new)
<1>1. top \in Nat
  BY Zenon DEF NewOK
<1>2. PICK f : Adding(f, stored, new, top) /\ WithNew(stored, new) = f[top]
  BY <1>1, AddingIs, Zenon
<1> HIDE DEF top
<1> DEFINE Is(k) == IsGrowing(f[k]) /\ (~f[k].full => Grown(f[k].nodes, stored, new, k))
           S == {k \in Nat : k <= top => Is(k)}
<1>3. 0 \in S
  <2>1. 0 \in 0..top /\ \A j : j \notin 1..0
    BY <1>1, SMT
  <2>2. f[0] = [full |-> FALSE, nodes |-> stored]
    BY <1>2, <2>1, Zenon DEF Adding
  <2>3. Grown(stored, stored, new, 0)
    BY <2>1, Zenon DEF Grown
  <2>4. IsGrowing(f[0]) /\ f[0].nodes = stored
    BY <2>2 DEF IsGrowing
  <2> QED
    BY <2>3, <2>4, Zenon
<1>4. ASSUME NEW k \in Nat, k \in S PROVE k + 1 \in S
  <2> SUFFICES ASSUME k + 1 <= top PROVE Is(k + 1)
    OBVIOUS
  <2>1. k <= top /\ k + 1 \in 0..top /\ k + 1 # 0 /\ (k + 1) - 1 = k /\ k + 1 \in 1..top
    BY <1>1, SMT
  <2>2. Is(k)
    BY <1>4, <2>1, Zenon
  <2>3. f[k + 1] = Added(f[k], new[k + 1])
    BY <1>2, <2>1, Zenon DEF Adding
  <2>4. IsGrowing(f[k + 1])
    BY <2>2, <2>3, AddedGrows, Zenon
  <2>5. ASSUME ~f[k + 1].full PROVE Grown(f[k + 1].nodes, stored, new, k + 1)
    <3> DEFINE s == f[k].nodes p == new[k + 1]
    <3>1. NodeOK(p)
      BY <2>1, Zenon DEF NewOK, top
    <3>2. ASSUME ListOK(s)
          PROVE  /\ ~f[k].full
                 /\ \E q : /\ f[k + 1].nodes = With(s, q) /\ ListOK(With(s, q))
                           /\ q.source = p.source /\ q.key = p.key /\ q.missing = p.missing
                           /\ Usable(q) <=> Usable(p)
      BY <2>2, <2>3, <2>5, <3>1, <3>2, AddedIs
    <3>3. ~f[k].full
      <4>1. \A x : /\ [f[k] EXCEPT !.nodes = x].full = f[k].full
                   /\ [f[k] EXCEPT !.full = TRUE].full
        BY <2>2 DEF IsGrowing
      <4> QED
        BY <2>3, <2>5, <4>1, Zenon DEF Added
    <3>4. Grown(s, stored, new, k)
      BY <2>2, <3>3, Zenon
    <3>5. PICK q : /\ f[k + 1].nodes = With(s, q) /\ ListOK(With(s, q))
                   /\ q.source = p.source /\ q.key = p.key /\ q.missing = p.missing
                   /\ Usable(q) <=> Usable(p)
      <4>1. ListOK(s)
        BY <3>4, Zenon DEF Grown
      <4> HIDE DEF s, p
      <4> QED
        BY <3>2, <4>1
    <3>6. k + 1 <= Len(new)
      BY DEF top
    <3>7. Grown(With(s, q), stored, new, k + 1)
      BY <3>4, <3>5, <3>6, GrownStep, Zenon
    <3> QED
      BY <3>5, <3>7, Zenon
  <2> QED
    BY <2>4, <2>5, Zenon
<1> HIDE DEF Is
<1>5. top \in S
  BY <1>1, <1>3, <1>4, Upwards, Zenon
<1>6. Is(top)
  BY <1>1, <1>5, SMT
<1> QED
  BY <1>2, <1>6, Zenon DEF Is, top

-----------------------------------------------------------------------------
(* The feed and the stored nodes *)

(* The entries of a feed, as nodes of the subscription.                    *)
FeedOK(fresh) ==
  /\ \E n \in Nat : DOMAIN fresh \subseteq 1..n
  /\ DOMAIN fresh # {}
  /\ \A i \in DOMAIN fresh : NodeOK(fresh[i]) /\ Subscribed(fresh[i]) /\ fresh[i].missing = 0

(* A download that does not fail is such a feed.                           *)
LEMMA FreshIs ==
  ASSUME NEW body \in Bodies, Fetches(body)
  PROVE  FeedOK(Prepared(Fetched(body)))
<1> DEFINE feed == Fetched(body) fresh == Prepared(feed) E == Entries(body)
<1>1. /\ Len(body) \in Nat /\ DOMAIN body = 1..Len(body)
      /\ \A i \in E : IsEntry(body[i])
  <2>1. IsSequence(body) /\ \A i \in E : body[i] = Invalid \/ IsEntry(body[i])
    BY MergeAssumption, Zenon
  <2> QED
    BY <2>1, Zenon DEF IsSequence, Fetches
<1>2. E \subseteq 1..Len(body) /\ E # {}
  BY <1>1, Zenon DEF Entries, Fetches
<1>3. DOMAIN feed = E
  BY Zenon DEF Fetched
<1>4. \A i \in E : feed[i].at \in Endpoints /\ IsName(feed[i].name)
  <2> SUFFICES ASSUME NEW i \in E PROVE feed[i].at \in Endpoints /\ IsName(feed[i].name)
    OBVIOUS
  <2>1. IsEntry(body[i])
    BY <1>1
  <2>2. CASE body[i].name # Empty
    <3>1. feed[i] = body[i]
      BY <2>2, Zenon DEF Fetched
    <3> QED
      BY <2>1, <2>2, <3>1 DEF IsEntry, IsName
  <2>3. CASE body[i].name = Empty
    <3> DEFINE word == "Server" \o ToString(Place(body, i))
    <3>1. feed[i] = [body[i] EXCEPT !.name = <<word>>]
      BY <2>3, Zenon DEF Fetched
    <3> HIDE DEF word
    <3>2. feed[i].at = body[i].at /\ feed[i].name = <<word>> /\ body[i].at \in Endpoints
      BY <2>1, <3>1 DEF IsEntry
    <3>3. IsSequence(<<word>>) /\ <<word>> # Empty
      BY SMT DEF IsSequence, Empty
    <3> QED
      BY <3>2, <3>3, Zenon DEF IsName
  <2> QED
    BY <2>2, <2>3
<1>5. DOMAIN fresh = {i \in E : \A j \in E : j < i => feed[j] # feed[i]}
  BY <1>3, Zenon DEF Prepared
<1>6. DOMAIN fresh # {}
  <2>1. E \in SUBSET Nat
    BY <1>1, <1>2, SMT
  <2>2. Min(E) \in E /\ \A j \in E : Min(E) <= j
    BY <1>2, <2>1, Least, Zenon
  <2>3. \A j \in E : ~(j < Min(E))
    BY <2>1, <2>2, SMT
  <2> QED
    BY <1>5, <2>2, <2>3, Zenon
<1>7. \A i \in DOMAIN fresh : fresh[i] = FromFeed(feed[i])
  BY Zenon DEF Prepared
<1>8. \A i \in DOMAIN fresh : Key(feed[i]) \in Keys
  <2> DEFINE Of(b) == {Key(Fetched(b)[i]) : i \in Entries(b)}
  <2>2. Keys = UNION {Of(b) : b \in {b \in Bodies : Fetches(b)}}
    BY DEF Keys
  <2>3. \A i \in E : Key(feed[i]) \in Of(body)
    BY Zenon
  <2> HIDE DEF Of
  <2>1. \A i \in E : Key(feed[i]) \in Keys
    BY <2>2, <2>3, Zenon
  <2> QED
    BY <1>5, <2>1, Zenon
<1>9. ASSUME NEW i \in DOMAIN fresh
      PROVE  NodeOK(fresh[i]) /\ Subscribed(fresh[i]) /\ fresh[i].missing = 0
  <2>1. i \in E
    BY <1>5, <1>9, Zenon
  <2> HIDE DEF feed, fresh
  <2>2. feed[i].at \in Endpoints /\ IsName(feed[i].name) /\ Key(feed[i]) \in Keys
    BY <1>4, <1>8, <2>1
  <2>3. fresh[i] = FromFeed(feed[i]) /\ MaxPort \in Nat
    BY <1>7, MergeAssumption
  <2>4. /\ Subscribed(fresh[i]) /\ fresh[i].missing = 0 /\ fresh[i].key \in Keys
        /\ IsName(fresh[i].name)
    BY <2>2, <2>3 DEF FromFeed, Subscribed
  <2>5. fresh[i] \in [source : {"", "manual", "subscription"}, key : {fresh[i].key},
            missing : 0..1, name : {fresh[i].name}, enabled : BOOLEAN, port : 0..MaxPort,
            at : Endpoints \cup {Example}, cred : {fresh[i].cred}]
    BY <2>2, <2>3 DEF FromFeed
  <2> QED
    BY <2>4, <2>5, Zenon DEF NodeOK
<1>10. DOMAIN fresh \subseteq 1..Len(body)
  BY <1>2, <1>5, Zenon
<1> HIDE DEF fresh
<1>11. FeedOK(fresh)
  BY <1>1, <1>6, <1>9, <1>10, Zenon DEF FeedOK
<1> QED
  BY <1>11, Zenon DEF fresh, feed

(* No place is Unmatched.                                                  *)
LEMMA UnmatchedIsNone ==
  ASSUME NEW s, ListOK(s)
  PROVE  Unmatched \notin DOMAIN s
<1>1. PICK n \in Nat : DOMAIN s \subseteq 1..n
  BY Zenon DEF ListOK
<1> QED
  BY <1>1, SMT DEF Unmatched

(* The entry that a stored node is matched with.                           *)
LEMMA EntryIs ==
  ASSUME NEW fresh, NEW of, MatchOK(fresh, of), Unmatched \notin DOMAIN proxies,
         NEW c \in DOMAIN proxies, Matched(of, c)
  PROVE  /\ EntryOf(of, c) \in DOMAIN fresh /\ of[EntryOf(of, c)] = c
         /\ \A i \in DOMAIN fresh : of[i] = c => i = EntryOf(of, c)
         /\ proxies[c].source # "manual"
<1>1. DOMAIN of = DOMAIN fresh
  BY DEF MatchOK
<1>2. c # Unmatched
  BY Zenon
<1>3. EntryOf(of, c) \in DOMAIN of /\ of[EntryOf(of, c)] = c
  BY Zenon DEF EntryOf, Matched
<1> QED
  BY <1>1, <1>2, <1>3, Zenon DEF MatchOK

(* What becomes of a stored node: it is one of the feed, one that is       *)
(* missing for the first time, or one that stays as it was.                *)
Becomes(fresh, of, moved, c, q) ==
  LET p == proxies[c]
  IN  /\ q.name = p.name /\ q.port = p.port /\ NodeOK(q)
      /\ \/ /\ Matched(of, c) /\ q.enabled = p.enabled
            /\ \E i \in DOMAIN fresh :
                 /\ of[i] = c /\ Subscribed(q) /\ q.missing = 0 /\ q.key = fresh[i].key
                 /\ Usable(q) <=> Usable(fresh[i])
         \/ /\ ~Matched(of, c) /\ ~moved /\ Subscribed(p) /\ p.missing = 0
            /\ Subscribed(q) /\ q.missing = 1 /\ q.key = p.key /\ Runtime(q) = Runtime(p)
            /\ q.enabled = p.enabled /\ (Usable(q) <=> Usable(p))
         \/ ~Matched(of, c) /\ ~Subscribed(p) /\ q = p

(* What Stored keeps of a node is what becomes of it.                      *)
LEMMA KeptIs ==
  ASSUME NEW fresh, FeedOK(fresh), NEW of, MatchOK(fresh, of), ListOK(proxies), NEW moved,
         NEW c \in DOMAIN proxies, ~Lost(of, moved, c)
  PROVE  Becomes(fresh, of, moved, c, Kept(fresh, of, c))
<1> DEFINE p == proxies[c] q == Kept(fresh, of, c)
<1>1. NodeOK(p)
  BY Zenon DEF ListOK
<1>2. p \in [source : {"", "manual", "subscription"}, key : {p.key}, missing : 0..1,
             name : {p.name}, enabled : BOOLEAN, port : 0..MaxPort,
             at : Endpoints \cup {Example}, cred : {p.cred}]
  BY <1>1, Zenon DEF NodeOK
<1> HIDE DEF p, q
<1>3. CASE Matched(of, c)
  <2> DEFINE e == fresh[EntryOf(of, c)]
  <2>1. Unmatched \notin DOMAIN proxies
    BY UnmatchedIsNone, Zenon
  <2>2. EntryOf(of, c) \in DOMAIN fresh /\ of[EntryOf(of, c)] = c
    BY <1>3, <2>1, EntryIs
  <2>3. NodeOK(e) /\ Subscribed(e) /\ e.missing = 0
    BY <2>2, Zenon DEF FeedOK
  <2>4. q = Updated(p, e)
    BY <1>3, Zenon DEF q, p, Kept
  <2> HIDE DEF e
  <2>5. e \in [source : {"", "manual", "subscription"}, key : {e.key}, missing : 0..1,
             name : {e.name}, enabled : BOOLEAN, port : 0..MaxPort,
             at : Endpoints \cup {Example}, cred : {e.cred}]
    BY <2>3, Zenon DEF NodeOK
  <2>6. /\ q.name = p.name /\ q.port = p.port /\ q.enabled = p.enabled
        /\ q.key = e.key /\ q.missing = e.missing /\ q.source = e.source
        /\ q.at = e.at /\ q.cred = e.cred
    BY <2>4, <2>5 DEF Updated
  <2>7. q \in [source : {"", "manual", "subscription"}, key : {q.key}, missing : 0..1,
             name : {q.name}, enabled : BOOLEAN, port : 0..MaxPort,
             at : Endpoints \cup {Example}, cred : {q.cred}]
    BY <1>2, <2>4, <2>5 DEF Updated
  <2>8. NodeOK(q) /\ Subscribed(q)
    BY <1>1, <2>3, <2>6, <2>7, Zenon DEF NodeOK, Subscribed
  <2> QED
    BY <1>3, <2>2, <2>3, <2>6, <2>8, Zenon DEF Becomes, Usable, q, p, e
<1>4. CASE ~Matched(of, c) /\ Subscribed(p)
  <2>1. q = [p EXCEPT !.missing = @ + 1]
    BY <1>4, Zenon DEF q, p, Kept
  <2>2. ~moved /\ ~Expires(p)
    BY <1>4, Zenon DEF Lost, p
  <2>3. p.missing = 0
    <3>1. p.missing \in 0..1
      BY <1>2
    <3>2. ~(p.missing + 1 >= 2)
      BY <2>2, Zenon DEF Expires
    <3> QED
      BY <3>1, <3>2, SMT
  <2>9. q = [p EXCEPT !.missing = 1]
    BY <2>1, <2>3, SMT
  <2>4. /\ q.name = p.name /\ q.port = p.port /\ q.key = p.key /\ q.missing = 1
        /\ q.source = p.source /\ q.enabled = p.enabled /\ q.at = p.at /\ q.cred = p.cred
    BY <1>2, <2>9
  <2>5. q \in [source : {"", "manual", "subscription"}, key : {q.key}, missing : 0..1,
             name : {q.name}, enabled : BOOLEAN, port : 0..MaxPort,
             at : Endpoints \cup {Example}, cred : {q.cred}]
    <3>1. 1 \in 0..1
      BY SMT
    <3>2. q \in [source : {"", "manual", "subscription"}, key : {p.key}, missing : 0..1,
               name : {p.name}, enabled : BOOLEAN, port : 0..MaxPort,
               at : Endpoints \cup {Example}, cred : {p.cred}]
      BY <1>2, <2>9, <3>1, Zenon
    <3> QED
      BY <2>4, <3>2, Zenon
  <2>6. NodeOK(q) /\ Subscribed(q)
    BY <1>1, <1>4, <2>4, <2>5, Zenon DEF NodeOK, Subscribed
  <2>7. Runtime(q) = Runtime(p)
    BY <2>4, Zenon DEF Runtime
  <2> QED
    BY <1>4, <2>2, <2>3, <2>4, <2>6, <2>7, Zenon DEF Becomes, Usable, q, p
<1>5. CASE ~Matched(of, c) /\ ~Subscribed(p)
  <2>1. q = p
    BY <1>5, Zenon DEF q, p, Kept
  <2> QED
    BY <1>1, <1>5, <2>1, Zenon DEF Becomes, q, p
<1> QED
  BY <1>3, <1>4, <1>5

(* What stays of the stored nodes is a list, and what became of each.      *)
LEMMA StoredIs ==
  ASSUME NEW fresh, FeedOK(fresh), NEW of, MatchOK(fresh, of), ListOK(proxies), NEW moved
  PROVE  /\ ListOK(Stored(fresh, of, moved))
         /\ DOMAIN Stored(fresh, of, moved) = {c \in DOMAIN proxies : ~Lost(of, moved, c)}
         /\ \A c \in DOMAIN Stored(fresh, of, moved) :
              Becomes(fresh, of, moved, c, Stored(fresh, of, moved)[c])
<1> DEFINE s == Stored(fresh, of, moved)
<1>1. /\ DOMAIN s = {c \in DOMAIN proxies : ~Lost(of, moved, c)}
      /\ \A c \in DOMAIN s : s[c] = Kept(fresh, of, c)
  BY Zenon DEF Stored
<1> HIDE DEF s
<1>2. ASSUME NEW c \in DOMAIN s
      PROVE  c \in DOMAIN proxies /\ Becomes(fresh, of, moved, c, s[c])
  <2>1. c \in DOMAIN proxies /\ ~Lost(of, moved, c) /\ s[c] = Kept(fresh, of, c)
    BY <1>1, Zenon
  <2> QED
    BY <2>1, KeptIs, Zenon
<1>3. PICK n \in Nat : DOMAIN proxies \subseteq 1..n
  BY Zenon DEF ListOK
<1>4. \A c \in DOMAIN s : /\ c \in DOMAIN proxies /\ NodeOK(s[c])
                          /\ s[c].name = proxies[c].name /\ s[c].port = proxies[c].port
  BY <1>2, Zenon DEF Becomes
<1>5. DOMAIN s \subseteq 1..n /\ NamesUnique(s)
  BY <1>3, <1>4, Zenon DEF ListOK, NamesUnique
<1>6. PortsUnique(s)
  BY <1>4, Zenon DEF ListOK, PortsUnique
<1>7. ListOK(s) /\ \A c \in DOMAIN s : Becomes(fresh, of, moved, c, s[c])
  BY <1>2, <1>4, <1>5, <1>6, Zenon DEF ListOK
<1> QED
  BY <1>1, <1>7, Zenon DEF s

-----------------------------------------------------------------------------
(* The merge *)

(* The node at c is the entry i of the feed; s is what stays of the stored *)
(* nodes.                                                                  *)
Holds(fresh, of, s, q, c, i) ==
  /\ i \in DOMAIN fresh /\ Subscribed(q) /\ q.missing = 0 /\ q.key = fresh[i].key
  /\ Usable(q) <=> Usable(fresh[i])
  /\ IF c \in DOMAIN s THEN of[i] = c ELSE of[i] = Unmatched

(* The new list r: what each of its nodes is, and a node for every entry.  *)
Outcome(fresh, of, moved, r) ==
  LET s == Stored(fresh, of, moved)
  IN  /\ ListOK(r) /\ DOMAIN s \subseteq DOMAIN r
      /\ DOMAIN s = {c \in DOMAIN proxies : ~Lost(of, moved, c)}
      /\ \A c \in DOMAIN s : r[c] = Kept(fresh, of, c) /\ Becomes(fresh, of, moved, c, r[c])
      /\ \A c \in DOMAIN r \ DOMAIN s : \E i \in DOMAIN fresh : Holds(fresh, of, s, r[c], c, i)
      /\ \A i \in DOMAIN fresh : \E c \in DOMAIN r : Holds(fresh, of, s, r[c], c, i)
      /\ \A c, d \in DOMAIN r \ DOMAIN s : r[c].key = r[d].key => c = d

(* New nodes that can be added.                                            *)
LEMMA NewIsOK ==
  ASSUME NEW fresh, FeedOK(fresh), Separate(fresh), NEW of
  PROVE  NewOK(New(fresh, of))
<1> DEFINE new == New(fresh, of)
<1>1. PICK n \in Nat : DOMAIN fresh \subseteq 1..n
  BY Zenon DEF FeedOK
<1>2. /\ Len(new) \in Nat
      /\ \A k \in 1..Len(new) : \E i \in DOMAIN fresh : of[i] = Unmatched /\ new[k] = fresh[i]
      /\ \A i \in DOMAIN fresh : of[i] = Unmatched => \E k \in 1..Len(new) : new[k] = fresh[i]
      /\ \A k, l \in 1..Len(new) : new[k].key = new[l].key => k = l
  BY <1>1, NewIs
<1> HIDE DEF new
<1>3. \A i \in DOMAIN fresh : NodeOK(fresh[i]) /\ Subscribed(fresh[i]) /\ fresh[i].missing = 0
  BY Zenon DEF FeedOK
<1>4. \A k \in 1..Len(new) : NodeOK(new[k]) /\ Subscribed(new[k]) /\ new[k].missing = 0
  <2> SUFFICES ASSUME NEW k \in 1..Len(new)
               PROVE  NodeOK(new[k]) /\ Subscribed(new[k]) /\ new[k].missing = 0
    OBVIOUS
  <2>1. PICK i \in DOMAIN fresh : new[k] = fresh[i]
    BY <1>2
  <2> QED
    BY <1>3, <2>1, Zenon
<1>5. NewOK(new)
  BY <1>2, <1>4, Zenon DEF NewOK
<1> QED
  BY <1>5, Zenon DEF new

(* The merge has that outcome.                                             *)
LEMMA OutcomeIs ==
  ASSUME NEW fresh, FeedOK(fresh), Separate(fresh), NEW of, MatchOK(fresh, of),
         ListOK(proxies), NEW moved,
         ~WithNew(Stored(fresh, of, moved), New(fresh, of)).full
  PROVE  Outcome(fresh, of, moved, WithNew(Stored(fresh, of, moved), New(fresh, of)).nodes)
<1> DEFINE s == Stored(fresh, of, moved) new == New(fresh, of) r == WithNew(s, new).nodes
<1>1. /\ ListOK(s) /\ DOMAIN s = {c \in DOMAIN proxies : ~Lost(of, moved, c)}
      /\ \A c \in DOMAIN s : Becomes(fresh, of, moved, c, s[c])
  BY StoredIs, Zenon
<1>2. PICK n \in Nat : DOMAIN fresh \subseteq 1..n
  BY Zenon DEF FeedOK
<1>3. /\ Len(new) \in Nat
      /\ \A k \in 1..Len(new) : \E i \in DOMAIN fresh : of[i] = Unmatched /\ new[k] = fresh[i]
      /\ \A i \in DOMAIN fresh : of[i] = Unmatched => \E k \in 1..Len(new) : new[k] = fresh[i]
  BY <1>2, NewIs
<1>4. NewOK(new)
  BY NewIsOK
<1>13. \A c \in DOMAIN s : s[c] = Kept(fresh, of, c)
  BY Zenon DEF Stored
<1>5. ~WithNew(s, new).full
  OBVIOUS
<1> HIDE DEF s, new
<1>6. Grown(r, s, new, Len(new))
  BY <1>1, <1>4, <1>5, WithNewIs, Zenon
<1> HIDE DEF r
<1>7. /\ ListOK(r) /\ DOMAIN s \subseteq DOMAIN r
      /\ \A c \in DOMAIN s : r[c] = Kept(fresh, of, c) /\ Becomes(fresh, of, moved, c, r[c])
  BY <1>1, <1>6, <1>13, Zenon DEF Grown
<1>8. \A c \in DOMAIN r \ DOMAIN s :
        /\ Subscribed(r[c]) /\ r[c].missing = 0
        /\ \E j \in 1..Len(new) : r[c].key = new[j].key
        /\ \A j \in 1..Len(new) : r[c].key = new[j].key => (Usable(r[c]) <=> Usable(new[j]))
  <2>1. /\ \A c \in DOMAIN r \ DOMAIN s :
             /\ Subscribed(r[c]) /\ r[c].missing = 0
             /\ \E j \in 1..Len(new) : r[c].key = new[j].key
        /\ \A c \in DOMAIN r \ DOMAIN s, j \in 1..Len(new) :
             r[c].key = new[j].key => (Usable(r[c]) <=> Usable(new[j]))
    BY <1>6, Zenon DEF Grown
  <2> QED
    BY <2>1, Zenon
<1>9. \A c \in DOMAIN r \ DOMAIN s : \E i \in DOMAIN fresh : Holds(fresh, of, s, r[c], c, i)
  <2> SUFFICES ASSUME NEW c \in DOMAIN r \ DOMAIN s
               PROVE  \E i \in DOMAIN fresh : Holds(fresh, of, s, r[c], c, i)
    OBVIOUS
  <2>1. PICK j \in 1..Len(new) : r[c].key = new[j].key
    BY <1>8, Zenon
  <2>2. PICK i \in DOMAIN fresh : of[i] = Unmatched /\ new[j] = fresh[i]
    BY <1>3, Zenon
  <2>3. Holds(fresh, of, s, r[c], c, i)
    BY <1>8, <2>1, <2>2, Zenon DEF Holds
  <2> QED
    BY <2>3, Zenon
<1>10. \A i \in DOMAIN fresh : \E c \in DOMAIN r : Holds(fresh, of, s, r[c], c, i)
  <2> SUFFICES ASSUME NEW i \in DOMAIN fresh
               PROVE  \E c \in DOMAIN r : Holds(fresh, of, s, r[c], c, i)
    OBVIOUS
  <2>1. CASE of[i] = Unmatched
    <3>1. PICK j \in 1..Len(new) : new[j] = fresh[i]
      BY <1>3, <2>1, Zenon
    <3>2. \A k \in 1..Len(new) : \E c \in DOMAIN r \ DOMAIN s : r[c].key = new[k].key
      BY <1>6, Zenon DEF Grown
    <3>3. PICK c \in DOMAIN r \ DOMAIN s : r[c].key = new[j].key
      BY <3>2, Zenon
    <3>4. Holds(fresh, of, s, r[c], c, i)
      BY <1>8, <2>1, <3>1, <3>3, Zenon DEF Holds
    <3> QED
      BY <3>4, Zenon
  <2>2. CASE of[i] # Unmatched
    <3> DEFINE c == of[i]
    <3>1. c \in DOMAIN proxies /\ ~Bundled(proxies[c]) /\ DOMAIN of = DOMAIN fresh
      BY <2>2 DEF MatchOK
    <3>2. Matched(of, c)
      BY <3>1, Zenon DEF Matched
    <3>3. c \in DOMAIN s
      BY <1>1, <3>1, <3>2, Zenon DEF Lost
    <3>4. PICK j \in DOMAIN fresh : /\ of[j] = c /\ Subscribed(r[c]) /\ r[c].missing = 0
                                    /\ r[c].key = fresh[j].key
                                    /\ Usable(r[c]) <=> Usable(fresh[j])
      BY <1>7, <3>2, <3>3, Zenon DEF Becomes
    <3>5. j = i
      BY <2>2, <3>4, Zenon DEF MatchOK
    <3>6. Holds(fresh, of, s, r[c], c, i)
      BY <3>3, <3>4, <3>5, Zenon DEF Holds
    <3> QED
      BY <1>7, <3>3, <3>6, Zenon
  <2> QED
    BY <2>1, <2>2
<1>11. \A c, d \in DOMAIN r \ DOMAIN s : r[c].key = r[d].key => c = d
  BY <1>6, Zenon DEF Grown
<1>12. Outcome(fresh, of, moved, r)
  BY <1>1, <1>7, <1>9, <1>10, <1>11, Zenon DEF Outcome, s
<1> QED
  BY <1>12, Zenon DEF r, s, new

(* A node of the new list is by hand, of the feed, or missing from it.     *)
LEMMA KindIs ==
  ASSUME NEW fresh, NEW of, NEW moved, NEW r, Outcome(fresh, of, moved, r),
         NEW c \in DOMAIN r, Subscribed(r[c])
  PROVE  \/ \E i \in DOMAIN fresh : Holds(fresh, of, Stored(fresh, of, moved), r[c], c, i)
         \/ /\ c \in DOMAIN proxies /\ c \in DOMAIN Stored(fresh, of, moved)
            /\ ~Matched(of, c) /\ ~moved
            /\ Subscribed(proxies[c]) /\ proxies[c].missing = 0
            /\ r[c].missing = 1 /\ r[c].key = proxies[c].key
<1> DEFINE s == Stored(fresh, of, moved)
<1>1. /\ DOMAIN s = {d \in DOMAIN proxies : ~Lost(of, moved, d)}
      /\ \A d \in DOMAIN s : Becomes(fresh, of, moved, d, r[d])
      /\ \A d \in DOMAIN r \ DOMAIN s : \E i \in DOMAIN fresh : Holds(fresh, of, s, r[d], d, i)
  BY Zenon DEF Outcome
<1> HIDE DEF s
<1>2. CASE c \notin DOMAIN s
  BY <1>1, <1>2, Zenon DEF s
<1>3. CASE c \in DOMAIN s
  <2>1. c \in DOMAIN proxies /\ Becomes(fresh, of, moved, c, r[c])
    BY <1>1, <1>3, Zenon
  <2>2. CASE Matched(of, c)
    <3>1. PICK i \in DOMAIN fresh :
            /\ of[i] = c /\ Subscribed(r[c]) /\ r[c].missing = 0 /\ r[c].key = fresh[i].key
            /\ Usable(r[c]) <=> Usable(fresh[i])
      BY <2>1, <2>2, Zenon DEF Becomes
    <3>2. Holds(fresh, of, s, r[c], c, i)
      BY <1>3, <3>1, Zenon DEF Holds
    <3> QED
      BY <3>2, Zenon DEF s
  <2>3. CASE ~Matched(of, c)
    <3> DEFINE q == r[c] p == proxies[c]
    <3>1. Becomes(fresh, of, moved, c, q) /\ Subscribed(q)
      BY <2>1
    <3> HIDE DEF q
    <3>2. \/ /\ ~moved /\ Subscribed(p) /\ p.missing = 0
             /\ q.missing = 1 /\ q.key = p.key
          \/ ~Subscribed(p) /\ q = p
      BY <2>3, <3>1, Zenon DEF Becomes
    <3>3. ~moved /\ Subscribed(p) /\ p.missing = 0 /\ q.missing = 1 /\ q.key = p.key
      BY <3>1, <3>2, Zenon
    <3> QED
      BY <1>3, <2>1, <2>3, <3>3, Zenon DEF s, q
  <2> QED
    BY <2>2, <2>3
<1> QED
  BY <1>2, <1>3

(* The new list can be used if, and only if, every entry of the feed can.  *)
LEMMA OutcomeUsable ==
  ASSUME NEW fresh, NEW of, NEW moved, NEW r, Outcome(fresh, of, moved, r),
         AllUsable(proxies)
  PROVE  AllUsable(r) <=> AllUsable(fresh)
<1> DEFINE s == Stored(fresh, of, moved)
<1>1. /\ DOMAIN s = {c \in DOMAIN proxies : ~Lost(of, moved, c)}
      /\ \A c \in DOMAIN s : Becomes(fresh, of, moved, c, r[c])
      /\ \A c \in DOMAIN r \ DOMAIN s : \E i \in DOMAIN fresh : Holds(fresh, of, s, r[c], c, i)
      /\ \A i \in DOMAIN fresh : \E c \in DOMAIN r : Holds(fresh, of, s, r[c], c, i)
  BY Zenon DEF Outcome
<1> HIDE DEF s
<1>2. ASSUME AllUsable(r), NEW i \in DOMAIN fresh PROVE Usable(fresh[i])
  <2>1. PICK c \in DOMAIN r : Usable(r[c]) <=> Usable(fresh[i])
    BY <1>1, Zenon DEF Holds
  <2> QED
    BY <1>2, <2>1, Zenon DEF AllUsable
<1>3. ASSUME AllUsable(fresh), NEW c \in DOMAIN r PROVE Usable(r[c])
  <2>1. CASE c \notin DOMAIN s
    <3>1. PICK i \in DOMAIN fresh : Usable(r[c]) <=> Usable(fresh[i])
      BY <1>1, <2>1, Zenon DEF Holds
    <3> QED
      BY <1>3, <3>1, Zenon DEF AllUsable
  <2>2. CASE c \in DOMAIN s
    <3>1. Usable(proxies[c])
      BY <1>1, <2>2, Zenon DEF AllUsable
    <3>2. \/ \E i \in DOMAIN fresh : Usable(r[c]) <=> Usable(fresh[i])
          \/ Usable(r[c]) <=> Usable(proxies[c])
          \/ r[c] = proxies[c]
      BY <1>1, <2>2, Zenon DEF Becomes
    <3> QED
      BY <1>3, <3>1, <3>2, Zenon DEF AllUsable
  <2> QED
    BY <2>1, <2>2
<1> QED
  BY <1>2, <1>3, Zenon DEF AllUsable

(* The nodes of a list follow the feed.                                    *)
FollowsFeed(fresh, moved, r) ==
  /\ \A i \in DOMAIN fresh : \E c \in DOMAIN r :
       Subscribed(r[c]) /\ r[c].missing = 0 /\ r[c].key = fresh[i].key
  /\ \A c \in DOMAIN r : Subscribed(r[c]) =>
       IF r[c].missing = 0 THEN \E i \in DOMAIN fresh : r[c].key = fresh[i].key
       ELSE /\ ~moved /\ c \in DOMAIN proxies
            /\ Subscribed(proxies[c]) /\ proxies[c].missing = 0
            /\ r[c].key = proxies[c].key
            /\ \A i \in DOMAIN fresh : r[c].key # fresh[i].key
  /\ \A c, d \in DOMAIN r :
       Subscribed(r[c]) /\ Subscribed(r[d]) /\ r[c].key = r[d].key => c = d

(* Those of the new list do.                                               *)
LEMMA OutcomeFollows ==
  ASSUME NEW fresh, FeedOK(fresh), Separate(fresh), NEW of, NEW moved,
         moved \/ Complete(fresh, of), ListOK(proxies), KeysDistinct,
         NEW r, Outcome(fresh, of, moved, r)
  PROVE  FollowsFeed(fresh, moved, r)
<1> DEFINE s == Stored(fresh, of, moved)
           Of(c, i) == Holds(fresh, of, s, r[c], c, i)
           Left(c) == /\ c \in DOMAIN proxies /\ c \in DOMAIN s
                      /\ ~Matched(of, c) /\ ~moved
                      /\ Subscribed(proxies[c]) /\ proxies[c].missing = 0
                      /\ r[c].missing = 1 /\ r[c].key = proxies[c].key
<1>1. \A c \in DOMAIN r : Subscribed(r[c]) => Left(c) \/ \E i \in DOMAIN fresh : Of(c, i)
  BY KindIs
<1>2. /\ DOMAIN s \subseteq DOMAIN proxies
      /\ \A i \in DOMAIN fresh : \E c \in DOMAIN r : Of(c, i)
      /\ \A c, d \in DOMAIN r \ DOMAIN s : r[c].key = r[d].key => c = d
  BY Zenon DEF Outcome
<1>3. Unmatched \notin DOMAIN proxies
  BY UnmatchedIsNone, Zenon
<1> HIDE DEF s, Of, Left
<1>4. \A c, i : Of(c, i) =>
        /\ i \in DOMAIN fresh /\ Subscribed(r[c]) /\ r[c].missing = 0
        /\ r[c].key = fresh[i].key
        /\ IF c \in DOMAIN s THEN of[i] = c ELSE of[i] = Unmatched
  BY Zenon DEF Of, Holds
<1>5. \A c : Left(c) => r[c].missing # 0
  BY SMT DEF Left
<1>6. ASSUME NEW c, Left(c), NEW i \in DOMAIN fresh, r[c].key = fresh[i].key PROVE FALSE
  <2>1. /\ c \in DOMAIN proxies /\ Subscribed(proxies[c]) /\ proxies[c].key = fresh[i].key
        /\ ~moved /\ ~Matched(of, c)
    BY <1>6, Zenon DEF Left
  <2>2. of[i] = c /\ DOMAIN of = DOMAIN fresh
    <3>1. Complete(fresh, of)
      BY <2>1, Zenon
    <3>2. of[i] = c
      BY <2>1, <3>1, Zenon DEF Complete
    <3>3. DOMAIN of = DOMAIN fresh
      BY <3>1 DEF Complete, MatchOK
    <3> QED
      BY <3>2, <3>3
  <2>3. "subscription" # ""
    OBVIOUS
  <2>4. ~Bundled(proxies[c])
    BY <2>1, <2>3, Zenon DEF Bundled, Subscribed
  <2> QED
    BY <2>1, <2>2, <2>4, Zenon DEF Matched
<1>7. \A i \in DOMAIN fresh : \E c \in DOMAIN r :
        Subscribed(r[c]) /\ r[c].missing = 0 /\ r[c].key = fresh[i].key
  BY <1>2, <1>4, Zenon
<1>8. ASSUME NEW c \in DOMAIN r, Subscribed(r[c])
      PROVE  IF r[c].missing = 0 THEN \E i \in DOMAIN fresh : r[c].key = fresh[i].key
             ELSE /\ ~moved /\ c \in DOMAIN proxies
                  /\ Subscribed(proxies[c]) /\ proxies[c].missing = 0
                  /\ r[c].key = proxies[c].key
                  /\ \A i \in DOMAIN fresh : r[c].key # fresh[i].key
  <2>1. CASE Left(c)
    BY <1>5, <1>6, <2>1, Zenon DEF Left
  <2>2. CASE \E i \in DOMAIN fresh : Of(c, i)
    BY <1>4, <2>2, Zenon
  <2> QED
    BY <1>1, <1>8, <2>1, <2>2
<1>9. ASSUME NEW c \in DOMAIN r, NEW d \in DOMAIN r, Subscribed(r[c]), Subscribed(r[d]),
             r[c].key = r[d].key
      PROVE  c = d
  <2>1. CASE Left(c) /\ Left(d)
    BY <1>9, <2>1, Zenon DEF Left, KeysDistinct
  <2>2. ASSUME NEW i \in DOMAIN fresh, NEW j \in DOMAIN fresh, Of(c, i), Of(d, j)
        PROVE  c = d
    <3>1. i = j
      BY <1>4, <1>9, <2>2, Zenon DEF Separate
    <3>2. /\ IF c \in DOMAIN s THEN of[i] = c ELSE of[i] = Unmatched
          /\ IF d \in DOMAIN s THEN of[i] = d ELSE of[i] = Unmatched
      BY <1>4, <2>2, <3>1, Zenon
    <3>3. Unmatched \notin DOMAIN s
      BY <1>2, <1>3, Zenon
    <3>4. CASE c \notin DOMAIN s /\ d \notin DOMAIN s
      BY <1>2, <1>9, <3>4, Zenon
    <3> QED
      BY <3>2, <3>3, <3>4, Zenon
  <2>3. \A e, f, i : Left(e) /\ Of(f, i) /\ r[e].key = r[f].key => FALSE
    BY <1>4, <1>6, Zenon
  <2> QED
    BY <1>1, <1>9, <2>1, <2>2, <2>3, Zenon
<1> QED
  BY <1>7, <1>8, <1>9, Zenon DEF FollowsFeed

-----------------------------------------------------------------------------
(* The inductive invariant *)

(* FollowsFeeds, node by node.                                             *)
Followed(s, feed, prev) ==
  /\ \A k \in feed : \E c \in DOMAIN s : Subscribed(s[c]) /\ s[c].missing = 0 /\ s[c].key = k
  /\ \A c \in DOMAIN s : Subscribed(s[c]) =>
       IF s[c].missing = 0 THEN s[c].key \in feed ELSE s[c].key \in prev \ feed
  /\ \A c, d \in DOMAIN s :
       Subscribed(s[c]) /\ Subscribed(s[d]) /\ s[c].key = s[d].key => c = d

(* What the other variables are; nothing is stored of a subscription that  *)
(* was never merged.                                                       *)
OthersOK ==
  /\ source \in Urls \cup {None} /\ configured \in Urls \cup {None}
  /\ migrated \in BOOLEAN
  /\ feedKeys \subseteq Keys /\ prevKeys \subseteq Keys
  /\ calls \in 0..MaxCalls
  /\ last.err \in {"", "download", "duplicate", "ambiguous", "ports", "invalid"}
  /\ (last.err = "" => last.usable) /\ (last.err = "invalid" => ~last.usable)
  /\ source = None => feedKeys = {}

(* The names and ports of the list, that its nodes can be used, what it    *)
(* holds of the subscription, and the rest of the state.                   *)
IndInv ==
  /\ ListOK(proxies) /\ AllUsable(proxies)
  /\ Followed(proxies, feedKeys, prevKeys) /\ OthersOK

(* The invariant implies the types,                                        *)
LEMMA IndInvTypes == ASSUME IndInv PROVE TypeOK
BY Zenon DEF IndInv, ListOK, OthersOK, TypeOK

(* and, by its second part, that the stored nodes follow the feeds.        *)
LEMMA IndInvFollows == ASSUME IndInv PROVE FollowsFeeds
<1> DEFINE present(n) ==
             {c \in DOMAIN proxies : Subscribed(proxies[c]) /\ proxies[c].missing = n}
           keys(n) == {proxies[c].key : c \in present(n)}
<1>1. \A c \in DOMAIN proxies : Subscribed(proxies[c]) =>
        IF proxies[c].missing = 0 THEN proxies[c].key \in feedKeys
        ELSE proxies[c].key \in prevKeys \ feedKeys
  BY Zenon DEF IndInv, Followed
<1>2. \A k \in feedKeys : \E c \in present(0) : proxies[c].key = k
  BY Zenon DEF IndInv, Followed
<1>3. keys(0) = feedKeys
  <2>1. keys(0) \subseteq feedKeys
    BY <1>1, Zenon
  <2>2. feedKeys \subseteq keys(0)
    BY <1>2, Zenon
  <2> QED
    BY <2>1, <2>2, Zenon
<1>4. 1 # 0
  OBVIOUS
<1>5. keys(1) \subseteq prevKeys \ feedKeys
  BY <1>1, <1>4, Zenon
<1>6. \A c, d \in present(0) \cup present(1) : proxies[c].key = proxies[d].key => c = d
  BY Zenon DEF IndInv, Followed
<1> HIDE DEF present
<1>7. FollowsFeeds <=> /\ keys(0) = feedKeys /\ keys(1) \subseteq prevKeys \ feedKeys
                       /\ \A c, d \in present(0) \cup present(1) :
                            proxies[c].key = proxies[d].key => c = d
  BY DEF FollowsFeeds, present
<1> QED
  BY <1>3, <1>5, <1>6, <1>7, Zenon

(* Of the subscription no two nodes are stored under one key.              *)
LEMMA KeysDiffer == ASSUME IndInv PROVE KeysDistinct
BY Zenon DEF IndInv, Followed, KeysDistinct

-----------------------------------------------------------------------------
(* An update that succeeds merges the feed fresh with the match of into r. *)
Merging(fresh, of, url, r) ==
  LET moved == source # None /\ source # url
  IN  /\ FeedOK(fresh) /\ Separate(fresh) /\ MatchOK(fresh, of)
      /\ IF moved THEN \A i \in DOMAIN fresh : of[i] = Unmatched ELSE Complete(fresh, of)
      /\ Outcome(fresh, of, moved, r.proxies) /\ AllUsable(r.proxies)
      /\ r.runtime = RuntimeMoves(fresh, of, moved)

(* The errors of an update.                                                *)
Refusals == {"download", "duplicate", "ambiguous", "ports", "invalid"}

(* One that fails leaves the nodes alone; usable says whether all entries  *)
(* of the feed can be used.                                                *)
Refused(r, usable) ==
  /\ r.err \in Refusals /\ (r.err = "invalid" => ~usable)
  /\ r.proxies = proxies /\ r.runtime = FALSE

(* Merged does one or the other.                                           *)
LEMMA MergedIs ==
  ASSUME IndInv, NEW body \in Bodies, Fetches(body), NEW url \in Urls
  PROVE  \/ Refused(Merged(Fetched(body), url), AllUsable(Prepared(Fetched(body))))
         \/ /\ Merged(Fetched(body), url).err = "" /\ AllUsable(Prepared(Fetched(body)))
            /\ \E of : Merging(Prepared(Fetched(body)), of, url, Merged(Fetched(body), url))
<1> DEFINE feed == Fetched(body)
           fresh == Prepared(feed)
           moved == source # None /\ source # url
           m == IF moved THEN NoMatch(fresh) ELSE Matching(fresh, ~migrated /\ configured = url)
           of == m.of
           result == WithNew(Stored(fresh, of, moved), New(fresh, of))
           r == Merged(feed, url)
<1>1. FeedOK(fresh)
  BY FreshIs, Zenon
<1>2. /\ ListOK(proxies) /\ KeysDistinct /\ Unmatched \notin DOMAIN proxies
      /\ AllUsable(proxies)
  BY KeysDiffer, UnmatchedIsNone, Zenon DEF IndInv
<1>3. r = IF ~Separate(fresh) THEN Failed("duplicate")
          ELSE IF m.ambiguous THEN Failed("ambiguous")
          ELSE IF result.full THEN Failed("ports")
          ELSE IF ~NamesUnique(result.nodes) THEN Failed("names")
          ELSE IF ~Validates(result.nodes) THEN Failed("invalid")
          ELSE [err |-> "", proxies |-> result.nodes,
                runtime |-> RuntimeMoves(fresh, of, moved)]
  BY DEF Merged
<1>4. /\ Refused(Failed("duplicate"), AllUsable(fresh))
      /\ Refused(Failed("ambiguous"), AllUsable(fresh))
      /\ Refused(Failed("ports"), AllUsable(fresh))
      /\ ~AllUsable(fresh) => Refused(Failed("invalid"), AllUsable(fresh))
  <2>1. \A why : /\ Failed(why).err = why /\ Failed(why).proxies = proxies
                 /\ Failed(why).runtime = FALSE
    BY DEF Failed
  <2>2. /\ {"duplicate", "ambiguous", "ports", "invalid"} \subseteq Refusals
        /\ "invalid" \notin {"duplicate", "ambiguous", "ports"}
    BY DEF Refusals
  <2> QED
    BY <2>1, <2>2, Zenon DEF Refused
<1>5. PICK n \in Nat : DOMAIN fresh \subseteq 1..n
  BY <1>1, Zenon DEF FeedOK
<1> HIDE DEF r, fresh, feed, result
<1>6. ASSUME Separate(fresh)
      PROVE  /\ MatchOK(fresh, of)
             /\ IF moved THEN \A i \in DOMAIN fresh : of[i] = Unmatched ELSE Complete(fresh, of)
  <2>1. CASE moved
    <3>1. of = [i \in DOMAIN fresh |-> Unmatched]
      BY <2>1 DEF NoMatch
    <3> HIDE DEF of
    <3>2. MatchOK(fresh, of)
      BY <3>1 DEF MatchOK
    <3> QED
      BY <2>1, <3>1, <3>2, Zenon
  <2>2. CASE ~moved
    <3>1. Complete(fresh, Matching(fresh, ~migrated /\ configured = url).of)
      BY <1>2, <1>5, <1>6, MatchingIs
    <3>2. of = Matching(fresh, ~migrated /\ configured = url).of
      BY <2>2, Zenon
    <3> QED
      BY <2>2, <3>1, <3>2, Zenon DEF Complete
  <2> QED
    BY <2>1, <2>2
<1> HIDE DEF m, moved
<1>7. CASE ~Separate(fresh)
  BY <1>3, <1>4, <1>7, Zenon DEF r, feed, fresh
<1>8. CASE Separate(fresh) /\ m.ambiguous
  BY <1>3, <1>4, <1>8, Zenon DEF r, feed, fresh
<1>9. CASE Separate(fresh) /\ ~m.ambiguous /\ result.full
  BY <1>3, <1>4, <1>9, Zenon DEF r, feed, fresh
<1>10. CASE Separate(fresh) /\ ~m.ambiguous /\ ~result.full
  <2>1. Outcome(fresh, of, moved, result.nodes)
    BY <1>1, <1>2, <1>6, <1>10, OutcomeIs, Zenon DEF result
  <2>2. NamesUnique(result.nodes) /\ PortsUnique(result.nodes)
    BY <2>1, Zenon DEF Outcome, ListOK
  <2>3. AllUsable(result.nodes) <=> AllUsable(fresh)
    BY <1>2, <2>1, OutcomeUsable, Zenon
  <2>4. CASE ~AllUsable(fresh)
    <3>1. r = Failed("invalid")
      BY <1>3, <1>10, <2>2, <2>3, <2>4, Zenon DEF Validates
    <3> QED
      BY <1>4, <2>4, <3>1, Zenon DEF r, feed, fresh
  <2>5. CASE AllUsable(fresh)
    <3>1. r = [err |-> "", proxies |-> result.nodes, runtime |-> RuntimeMoves(fresh, of, moved)]
      BY <1>3, <1>10, <2>2, <2>3, <2>5, Zenon DEF Validates
    <3>2. r.err = "" /\ r.proxies = result.nodes /\ r.runtime = RuntimeMoves(fresh, of, moved)
      BY <3>1
    <3>3. Merging(fresh, of, url, r)
      BY <1>1, <1>6, <1>10, <2>1, <2>3, <2>5, <3>2, Zenon DEF Merging, moved
    <3> QED
      BY <2>5, <3>2, <3>3, Zenon DEF r, feed, fresh
  <2> QED
    BY <2>4, <2>5
<1> QED
  BY <1>7, <1>8, <1>9, <1>10, Zenon

(* The initial states satisfy the invariant.                               *)
LEMMA Initially == ASSUME Init PROVE IndInv
<1>1. /\ IsSequence(proxies) /\ NamesUnique(proxies) /\ PortsUnique(proxies)
      /\ AllUsable(proxies)
      /\ \A c \in DOMAIN proxies : NodeOK(proxies[c]) /\ ~Subscribed(proxies[c])
  BY MergeAssumption, Zenon DEF Init, Validates
<1>2. Len(proxies) \in Nat /\ DOMAIN proxies \subseteq 1..Len(proxies)
  BY <1>1, Zenon DEF IsSequence
<1>3. ListOK(proxies)
  BY <1>1, <1>2, Zenon DEF ListOK
<1>4. Followed(proxies, feedKeys, prevKeys)
  BY <1>1, Zenon DEF Followed, Init
<1>5. 0 \in 0..MaxCalls
  BY MergeAssumption, SMT
<1>6. last.err = "" /\ last.usable /\ "" # "invalid"
  BY DEF Init
<1>7. OthersOK
  BY <1>5, <1>6, Zenon DEF OthersOK, Init
<1> QED
  BY <1>1, <1>3, <1>4, <1>7, Zenon DEF IndInv

(* A merge keeps what is stored as it should be.                           *)
LEMMA MergingKeeps ==
  ASSUME IndInv, NEW fresh, NEW of, NEW url \in Urls, NEW r, Merging(fresh, of, url, r)
  PROVE  /\ ListOK(r.proxies) /\ AllUsable(r.proxies)
         /\ Followed(r.proxies, {fresh[i].key : i \in DOMAIN fresh},
                     IF source = url THEN feedKeys ELSE {})
         /\ {fresh[i].key : i \in DOMAIN fresh} \subseteq Keys
<1> DEFINE moved == source # None /\ source # url
           s == r.proxies
           feed == {fresh[i].key : i \in DOMAIN fresh}
           prev == IF source = url THEN feedKeys ELSE {}
<1>1. /\ FeedOK(fresh) /\ Separate(fresh) /\ (moved \/ Complete(fresh, of))
      /\ Outcome(fresh, of, moved, s) /\ AllUsable(s)
  BY Zenon DEF Merging
<1>2. ListOK(proxies) /\ KeysDistinct
  BY KeysDiffer, Zenon DEF IndInv
<1> HIDE DEF s, moved
<1>3. /\ \A i \in DOMAIN fresh : \E c \in DOMAIN s :
           Subscribed(s[c]) /\ s[c].missing = 0 /\ s[c].key = fresh[i].key
      /\ \A c \in DOMAIN s : Subscribed(s[c]) =>
           IF s[c].missing = 0 THEN \E i \in DOMAIN fresh : s[c].key = fresh[i].key
           ELSE /\ ~moved /\ c \in DOMAIN proxies
                /\ Subscribed(proxies[c]) /\ proxies[c].missing = 0
                /\ s[c].key = proxies[c].key
                /\ \A i \in DOMAIN fresh : s[c].key # fresh[i].key
      /\ \A c, d \in DOMAIN s :
           Subscribed(s[c]) /\ Subscribed(s[d]) /\ s[c].key = s[d].key => c = d
  <2>1. FollowsFeed(fresh, moved, s)
    BY <1>1, <1>2, OutcomeFollows, Zenon
  <2> QED
    BY <2>1, Zenon DEF FollowsFeed
<1>4. \A c \in DOMAIN proxies : Subscribed(proxies[c]) /\ proxies[c].missing = 0 =>
        proxies[c].key \in feedKeys
  BY Zenon DEF IndInv, Followed
<1>5. ASSUME NEW c \in DOMAIN s, Subscribed(s[c])
      PROVE  IF s[c].missing = 0 THEN s[c].key \in feed ELSE s[c].key \in prev \ feed
  <2>1. CASE s[c].missing = 0
    BY <1>3, <1>5, <2>1, Zenon
  <2>2. CASE s[c].missing # 0
    <3>1. /\ ~moved /\ s[c].key \in feedKeys
          /\ \A i \in DOMAIN fresh : s[c].key # fresh[i].key
      BY <1>3, <1>4, <1>5, <2>2, Zenon
    <3>2. s[c].key \notin feed
      BY <3>1, Zenon
    <3>3. source = url
      BY <3>1, Zenon DEF moved, IndInv, OthersOK
    <3> QED
      BY <2>2, <3>1, <3>2, <3>3, Zenon
  <2> QED
    BY <2>1, <2>2
<1>6. \A k \in feed : \E c \in DOMAIN s : Subscribed(s[c]) /\ s[c].missing = 0 /\ s[c].key = k
  <2> SUFFICES ASSUME NEW i \in DOMAIN fresh
               PROVE  \E c \in DOMAIN s :
                        Subscribed(s[c]) /\ s[c].missing = 0 /\ s[c].key = fresh[i].key
    BY Zenon
  <2> QED
    BY <1>3, Zenon
<1>7. feed \subseteq Keys
  BY <1>1, Zenon DEF FeedOK, NodeOK
<1> HIDE DEF feed, prev
<1>8. Followed(s, feed, prev)
  BY <1>3, <1>5, <1>6, Zenon DEF Followed
<1>9. ListOK(s)
  BY <1>1, Zenon DEF Outcome
<1> QED
  BY <1>1, <1>7, <1>8, <1>9, Zenon DEF s, feed, prev

(* What an update does: nothing but to say why, or a merge.                *)
LEMMA UpdateIs ==
  ASSUME IndInv, NEW body \in Bodies, NEW url \in Urls, Update(body, url)
  PROVE  LET fresh == Prepared(Fetched(body)) r == Merged(Fetched(body), url)
         IN  /\ last'.op = "update"
             /\ \/ /\ last'.err \in Refusals /\ (last'.err = "invalid" => ~last'.usable)
                   /\ UNCHANGED <<store, feedKeys, prevKeys>>
                \/ /\ last'.err = "" /\ last'.usable
                   /\ last'.runtime = r.runtime /\ proxies' = r.proxies
                   /\ source' = url /\ configured' = url /\ migrated' = TRUE
                   /\ feedKeys' = {fresh[i].key : i \in DOMAIN fresh}
                   /\ prevKeys' = IF source = url THEN feedKeys ELSE {}
                   /\ \E of : Merging(fresh, of, url, r)
<1> DEFINE feed == Fetched(body) m == Merged(feed, url)
           r == IF Fetches(body) THEN m ELSE Failed("download")
           usable == AllUsable(Prepared(feed))
<1>1. /\ last' = [op |-> "update", err |-> r.err, runtime |-> r.runtime,
                  usable |-> Fetches(body) => usable]
      /\ proxies' = r.proxies
      /\ IF r.err # "" THEN UNCHANGED <<source, configured, migrated, feedKeys, prevKeys>>
         ELSE /\ source' = url /\ configured' = url /\ migrated' = TRUE
              /\ feedKeys' = {Prepared(feed)[i].key : i \in DOMAIN Prepared(feed)}
              /\ prevKeys' = IF source = url THEN feedKeys ELSE {}
  BY Zenon DEF Update
<1>2. CASE ~Fetches(body)
  <2>1. r = Failed("download")
    BY <1>2, Zenon
  <2>2. r.err = "download" /\ r.proxies = proxies
    BY <2>1 DEF Failed
  <2>3. "download" # "" /\ "download" # "invalid" /\ "download" \in Refusals
    BY DEF Refusals
  <2> HIDE DEF r
  <2>4. last'.op = "update" /\ last'.err = "download"
    BY <1>1, <2>2
  <2> QED
    BY <1>1, <2>2, <2>3, <2>4, Zenon DEF store
<1>3. CASE Fetches(body)
  <2>1. r = m
    BY <1>3, Zenon
  <2>2. \/ Refused(m, usable)
        \/ m.err = "" /\ usable /\ \E of : Merging(Prepared(feed), of, url, m)
    BY <1>3, MergedIs, Zenon
  <2> HIDE DEF r, m, usable
  <2>3. /\ last'.op = "update" /\ last'.err = m.err /\ last'.runtime = m.runtime
        /\ last'.usable = (Fetches(body) => usable)
    BY <1>1, <2>1
  <2>4. CASE Refused(m, usable)
    <3>1. m.err # ""
      BY <2>4 DEF Refused, Refusals
    <3>2. last'.err \in Refusals /\ (last'.err = "invalid" => ~last'.usable)
      BY <1>3, <2>3, <2>4, Zenon DEF Refused
    <3> QED
      BY <1>1, <2>1, <2>3, <2>4, <3>1, <3>2, Zenon DEF Refused, store
  <2>5. CASE m.err = "" /\ usable /\ \E of : Merging(Prepared(feed), of, url, m)
    <3>1. last'.usable
      BY <2>3, <2>5, Zenon
    <3> QED
      BY <1>1, <2>1, <2>3, <2>5, <3>1, Zenon DEF m
  <2> QED
    BY <2>2, <2>4, <2>5
<1> QED
  BY <1>2, <1>3

(* A node in the place of another one, with its port.                      *)
LEMMA ReplacedKeeps ==
  ASSUME NEW s, ListOK(s), NEW c \in DOMAIN s, NEW q, NodeOK(q), q.port = s[c].port,
         NamesUnique([s EXCEPT ![c] = q])
  PROVE  ListOK([s EXCEPT ![c] = q])
<1> DEFINE w == [s EXCEPT ![c] = q]
<1>1. DOMAIN w = DOMAIN s /\ \A d \in DOMAIN s : w[d] = IF d = c THEN q ELSE s[d]
  BY Zenon
<1>2. NamesUnique(w)
  OBVIOUS
<1> HIDE DEF w
<1>3. \A d \in DOMAIN s : w[d].port = s[d].port /\ NodeOK(w[d])
  BY <1>1, Zenon DEF ListOK
<1>4. PortsUnique(w)
  BY <1>1, <1>3, Zenon DEF ListOK, PortsUnique
<1>5. ListOK(w)
  BY <1>1, <1>2, <1>3, <1>4, Zenon DEF ListOK
<1> QED
  BY <1>5, Zenon DEF w

(* A list with the same nodes of the subscription follows the same feeds.  *)
LEMMA FollowedKeeps ==
  ASSUME NEW s, NEW feed, NEW prev, Followed(s, feed, prev), NEW w,
         \A c \in DOMAIN s : Subscribed(s[c]) => c \in DOMAIN w /\ Subscribed(w[c]),
         \A c \in DOMAIN w : Subscribed(w[c]) =>
           /\ c \in DOMAIN s /\ Subscribed(s[c])
           /\ w[c].key = s[c].key /\ w[c].missing = s[c].missing
  PROVE  Followed(w, feed, prev)
<1>1. ASSUME NEW k \in feed
      PROVE  \E c \in DOMAIN w : Subscribed(w[c]) /\ w[c].missing = 0 /\ w[c].key = k
  <2>1. PICK c \in DOMAIN s : Subscribed(s[c]) /\ s[c].missing = 0 /\ s[c].key = k
    BY Zenon DEF Followed
  <2>2. c \in DOMAIN w /\ Subscribed(w[c])
    BY <2>1
  <2>3. w[c].key = s[c].key /\ w[c].missing = s[c].missing
    BY <2>2
  <2> QED
    BY <2>1, <2>2, <2>3, Zenon
<1>2. ASSUME NEW c \in DOMAIN w, Subscribed(w[c])
      PROVE  IF w[c].missing = 0 THEN w[c].key \in feed ELSE w[c].key \in prev \ feed
  <2>1. /\ c \in DOMAIN s /\ Subscribed(s[c])
        /\ w[c].key = s[c].key /\ w[c].missing = s[c].missing
    BY <1>2
  <2>2. IF s[c].missing = 0 THEN s[c].key \in feed ELSE s[c].key \in prev \ feed
    BY <2>1, Zenon DEF Followed
  <2> QED
    BY <2>1, <2>2, Zenon
<1>3. ASSUME NEW c \in DOMAIN w, NEW d \in DOMAIN w, Subscribed(w[c]), Subscribed(w[d]),
             w[c].key = w[d].key
      PROVE  c = d
  <2>1. /\ c \in DOMAIN s /\ Subscribed(s[c]) /\ w[c].key = s[c].key
        /\ d \in DOMAIN s /\ Subscribed(s[d]) /\ w[d].key = s[d].key
    BY <1>3
  <2> QED
    BY <1>3, <2>1, Zenon DEF Followed
<1> QED
  BY <1>1, <1>2, <1>3, Zenon DEF Followed

(* Edits leave the subscription's history alone.                           *)
LEMMA EditedKeeps ==
  ASSUME OthersOK, Edited, calls < MaxCalls, calls' = calls + 1
  PROVE  OthersOK'
<1>1. calls' \in 0..MaxCalls
  <2>1. calls \in 0..MaxCalls /\ MaxCalls \in Nat
    BY MergeAssumption, Zenon DEF OthersOK
  <2> QED
    BY <2>1, SMT
<1>2. last'.err = "" /\ last'.usable /\ "" # "invalid"
  BY DEF Edited
<1> QED
  BY <1>1, <1>2, Zenon DEF OthersOK, Edited

(* Importing a node keeps the invariant.                                   *)
LEMMA ImportKeeps ==
  ASSUME IndInv, NEW e \in Imports, Import(e)
  PROVE  ListOK(proxies') /\ AllUsable(proxies') /\ Followed(proxies', feedKeys, prevKeys)
<1> DEFINE name == IF e.name = Empty THEN <<e.at>> ELSE e.name
           node == [source |-> "manual", key |-> None, missing |-> 0, name |-> name,
                    enabled |-> TRUE, port |-> 0, at |-> e.at, cred |-> e.cred]
           same == {c \in DOMAIN proxies : ~Subscribed(proxies[c]) /\ proxies[c].at = e.at}
           c == Min(same)
           replaced == [node EXCEPT !.name = proxies[c].name, !.port = proxies[c].port]
           added == [node EXCEPT !.port = Min(PortsFree(proxies))]
<1>1. /\ ListOK(proxies) /\ Followed(proxies, feedKeys, prevKeys)
      /\ \A d \in DOMAIN proxies : NodeOK(proxies[d])
  BY Zenon DEF IndInv, ListOK
<1>2. /\ proxies' = IF same # {} THEN [proxies EXCEPT ![c] = replaced]
                    ELSE With(proxies, added)
      /\ NamesUnique(proxies')
      /\ same = {} => PortsFree(proxies) # {}
  BY Zenon DEF Import, Imported
<1>3. IsName(name) /\ e.at \in Endpoints
  <2>1. IsEntry(e)
    BY MergeAssumption, Zenon
  <2>2. IsSequence(<<e.at>>) /\ <<e.at>> # Empty
    BY SMT DEF IsSequence, Empty
  <2>3. e.at \in Endpoints /\ IsSequence(e.name)
    BY <2>1 DEF IsEntry
  <2> QED
    BY <2>2, <2>3, Zenon DEF IsName
<1> HIDE DEF name
<1>4. ASSUME NEW q, NEW x, IsName(x), NEW y \in 0..MaxPort,
             q \in [source : {"manual"}, key : {None}, missing : {0}, name : {x},
                   enabled : {TRUE}, port : {y}, at : {e.at}, cred : {e.cred}]
      PROVE  NodeOK(q) /\ ~Subscribed(q) /\ q.name = x /\ q.port = y
  <2>1. /\ q.source = "manual" /\ q.key = None /\ q.missing = 0 /\ q.name = x /\ q.port = y
        /\ q.cred = e.cred
    BY <1>4
  <2>2. 0 \in 0..1
    BY SMT
  <2>3. q \in [source : {"", "manual", "subscription"}, key : {None}, missing : 0..1,
             name : {x}, enabled : BOOLEAN, port : 0..MaxPort,
             at : Endpoints \cup {Example}, cred : {e.cred}]
    BY <1>3, <1>4, <2>2
  <2>4. "manual" # "subscription"
    OBVIOUS
  <2> QED
    BY <1>4, <2>1, <2>3, <2>4, Zenon DEF NodeOK, Subscribed
<1>7. node \in [source : {"manual"}, key : {None}, missing : {0}, name : {name},
               enabled : {TRUE}, port : {0}, at : {e.at}, cred : {e.cred}]
  BY Zenon
<1>8. AllUsable(proxies')
  BY Zenon DEF Import, Validates
<1> HIDE DEF node
<1>5. CASE same # {}
  <2>1. same \in SUBSET Nat
    <3>1. PICK n \in Nat : DOMAIN proxies \subseteq 1..n
      BY <1>1, Zenon DEF ListOK
    <3> QED
      BY <3>1, SMT
  <2>2. c \in same
    BY <1>5, <2>1, Least, Zenon
  <2>3. c \in DOMAIN proxies /\ ~Subscribed(proxies[c])
    BY <2>2, Zenon
  <2>4. IsName(proxies[c].name) /\ proxies[c].port \in 0..MaxPort
    BY <1>1, <2>3 DEF NodeOK
  <2>5. /\ NodeOK(replaced) /\ ~Subscribed(replaced) /\ replaced.port = proxies[c].port
    <3>1. replaced \in [source : {"manual"}, key : {None}, missing : {0},
                       name : {proxies[c].name}, enabled : {TRUE},
                       port : {proxies[c].port}, at : {e.at}, cred : {e.cred}]
      BY <1>7
    <3> HIDE DEF replaced
    <3> QED
      BY <1>4, <2>4, <3>1, Zenon
  <2>6. proxies' = [proxies EXCEPT ![c] = replaced]
    BY <1>2, <1>5, Zenon
  <2> HIDE DEF replaced, c
  <2>7. ListOK(proxies')
    <3>1. NamesUnique([proxies EXCEPT ![c] = replaced])
      BY <1>2, <2>6, Zenon
    <3>2. ListOK([proxies EXCEPT ![c] = replaced])
      BY <1>1, <2>3, <2>5, <3>1, ReplacedKeeps, Zenon
    <3> QED
      BY <2>6, <3>2, Zenon
  <2>8. /\ DOMAIN proxies' = DOMAIN proxies
        /\ \A d \in DOMAIN proxies : proxies'[d] = IF d = c THEN replaced ELSE proxies[d]
    BY <2>6, Zenon
  <2>9. /\ \A d \in DOMAIN proxies : Subscribed(proxies[d]) =>
             d \in DOMAIN proxies' /\ Subscribed(proxies'[d])
        /\ \A d \in DOMAIN proxies' : Subscribed(proxies'[d]) =>
             /\ d \in DOMAIN proxies /\ Subscribed(proxies[d])
             /\ proxies'[d].key = proxies[d].key /\ proxies'[d].missing = proxies[d].missing
    BY <2>3, <2>5, <2>8, Zenon
  <2>10. Followed(proxies', feedKeys, prevKeys)
    BY <1>1, <2>9, FollowedKeeps
  <2> QED
    BY <1>8, <2>7, <2>10, Zenon
<1>6. CASE same = {}
  <2>1. proxies' = With(proxies, added) /\ PortsFree(proxies) # {}
    BY <1>2, <1>6, Zenon
  <2>2. /\ Min(PortsFree(proxies)) \in 1..MaxPort /\ Min(PortsFree(proxies)) # UnifiedPort
        /\ \A d \in DOMAIN proxies : proxies[d].port # Min(PortsFree(proxies))
    BY <2>1, PortIs, Zenon
  <2>3. Min(PortsFree(proxies)) \in 0..MaxPort
    BY <2>2, MergeAssumption, SMT
  <2>4. added \in [source : {"manual"}, key : {None}, missing : {0}, name : {name},
                  enabled : {TRUE}, port : {Min(PortsFree(proxies))}, at : {e.at},
                  cred : {e.cred}]
    BY <1>7
  <2>5. /\ NodeOK(added) /\ ~Subscribed(added) /\ added.port = Min(PortsFree(proxies))
    BY <1>3, <1>4, <2>3, <2>4, Zenon
  <2> HIDE DEF added
  <2> DEFINE new == Top(proxies) + 1
  <2>6. /\ new \notin DOMAIN proxies /\ DOMAIN proxies' = DOMAIN proxies \cup {new}
        /\ proxies'[new] = added /\ \A d \in DOMAIN proxies : proxies'[d] = proxies[d]
    BY <1>1, <2>1, WithAt
  <2> HIDE DEF new
  <2>7. added.name \notin NamesTaken(proxies)
    <3> SUFFICES ASSUME NEW d \in DOMAIN proxies, proxies[d].name = added.name PROVE FALSE
      BY Zenon DEF NamesTaken
    <3>1. /\ d \in DOMAIN proxies' /\ new \in DOMAIN proxies'
          /\ proxies'[d].name = proxies'[new].name
      BY <2>6, Zenon
    <3>2. d = new
      BY <1>2, <3>1, Zenon DEF NamesUnique
    <3> QED
      BY <2>6, <3>2, Zenon
  <2>8. ListOK(proxies')
    BY <1>1, <2>1, <2>2, <2>5, <2>7, WithKeeps, Zenon
  <2>9. /\ \A d \in DOMAIN proxies : Subscribed(proxies[d]) =>
             d \in DOMAIN proxies' /\ Subscribed(proxies'[d])
        /\ \A d \in DOMAIN proxies' : Subscribed(proxies'[d]) =>
             /\ d \in DOMAIN proxies /\ Subscribed(proxies[d])
             /\ proxies'[d].key = proxies[d].key /\ proxies'[d].missing = proxies[d].missing
    BY <2>5, <2>6, Zenon
  <2>10. Followed(proxies', feedKeys, prevKeys)
    BY <1>1, <2>9, FollowedKeeps
  <2> QED
    BY <1>8, <2>8, <2>10, Zenon
<1> QED
  BY <1>5, <1>6

(* So does editing one.                                                    *)
LEMMA EditKeeps ==
  ASSUME IndInv, NEW c \in DOMAIN proxies, NEW n \in NewNames, NEW on \in BOOLEAN,
         Edit(c, n, on)
  PROVE  ListOK(proxies') /\ AllUsable(proxies') /\ Followed(proxies', feedKeys, prevKeys)
<1> DEFINE p == proxies[c]
           q == [p EXCEPT !.name = n, !.enabled = on]
<1>1. /\ ListOK(proxies) /\ Followed(proxies, feedKeys, prevKeys) /\ NodeOK(p) /\ IsName(n)
  BY MergeAssumption, Zenon DEF IndInv, ListOK
<1>2. proxies' = [proxies EXCEPT ![c] = q] /\ n \notin NamesTaken(proxies)
  BY DEF Edit
<1>3. p \in [source : {"", "manual", "subscription"}, key : {p.key}, missing : 0..1,
             name : {p.name}, enabled : BOOLEAN, port : 0..MaxPort,
             at : Endpoints \cup {Example}, cred : {p.cred}]
  BY <1>1, Zenon DEF NodeOK
<1> HIDE DEF p
<1>4. /\ q.source = p.source /\ q.key = p.key /\ q.missing = p.missing
      /\ q.name = n /\ q.port = p.port /\ q.at = p.at /\ q.cred = p.cred
      /\ q \in [source : {"", "manual", "subscription"}, key : {q.key}, missing : 0..1,
               name : {q.name}, enabled : BOOLEAN, port : 0..MaxPort,
               at : Endpoints \cup {Example}, cred : {q.cred}]
  BY <1>3
<1> HIDE DEF q
<1>5. NodeOK(q)
  BY <1>1, <1>4, Zenon DEF NodeOK, Subscribed
<1> DEFINE w == [proxies EXCEPT ![c] = q]
<1>6. /\ DOMAIN w = DOMAIN proxies
      /\ \A d \in DOMAIN proxies : w[d] = IF d = c THEN q ELSE proxies[d]
  BY Zenon
<1>7. NamesUnique(w)
  <2>1. \A d \in DOMAIN proxies : proxies[d].name # n
    BY <1>2, Zenon DEF NamesTaken
  <2>2. NamesUnique(proxies)
    BY <1>1, Zenon DEF ListOK
  <2> HIDE DEF w
  <2>3. \A d \in DOMAIN proxies : w[d].name = IF d = c THEN n ELSE proxies[d].name
    BY <1>4, <1>6, Zenon
  <2> QED
    BY <1>6, <2>1, <2>2, <2>3, Zenon DEF NamesUnique
<1>8. ListOK(w)
  BY <1>1, <1>4, <1>5, <1>7, ReplacedKeeps, Zenon DEF p
<1> HIDE DEF w
<1>11. AllUsable(w)
  <2>1. AllUsable(proxies)
    BY Zenon DEF IndInv
  <2>2. Usable(q)
    BY <1>4, <2>1, Zenon DEF AllUsable, Usable, p
  <2> QED
    BY <1>6, <2>1, <2>2, Zenon DEF AllUsable
<1>9. /\ \A d \in DOMAIN proxies : Subscribed(proxies[d]) => d \in DOMAIN w /\ Subscribed(w[d])
      /\ \A d \in DOMAIN w : Subscribed(w[d]) =>
           /\ d \in DOMAIN proxies /\ Subscribed(proxies[d])
           /\ w[d].key = proxies[d].key /\ w[d].missing = proxies[d].missing
  BY <1>4, <1>6, Zenon DEF p, Subscribed
<1>10. Followed(w, feedKeys, prevKeys)
  BY <1>1, <1>9, FollowedKeeps
<1> QED
  BY <1>2, <1>8, <1>10, <1>11, Zenon DEF w

(* Every step keeps the invariant.                                         *)
LEMMA Keeps == ASSUME IndInv, [Next]_vars PROVE IndInv'
<1>1. CASE UNCHANGED vars
  <2>1. /\ proxies' = proxies /\ source' = source /\ configured' = configured
        /\ migrated' = migrated /\ last' = last /\ feedKeys' = feedKeys
        /\ prevKeys' = prevKeys /\ calls' = calls
    BY <1>1, Zenon DEF vars, store
  <2> QED
    BY <2>1, Zenon DEF IndInv, OthersOK, AllUsable
<1>2. ASSUME calls < MaxCalls, calls' = calls + 1,
             NEW body \in Bodies, NEW url \in Urls, Update(body, url)
      PROVE  IndInv'
  <2> DEFINE fresh == Prepared(Fetched(body)) r == Merged(Fetched(body), url)
             feed == {fresh[i].key : i \in DOMAIN fresh}
             prev == IF source = url THEN feedKeys ELSE {}
  <2>1. /\ last'.op = "update"
        /\ \/ /\ last'.err \in Refusals /\ (last'.err = "invalid" => ~last'.usable)
              /\ UNCHANGED <<store, feedKeys, prevKeys>>
           \/ /\ last'.err = "" /\ last'.usable
              /\ last'.runtime = r.runtime /\ proxies' = r.proxies
              /\ source' = url /\ configured' = url /\ migrated' = TRUE
              /\ feedKeys' = feed /\ prevKeys' = prev
              /\ \E of : Merging(fresh, of, url, r)
    BY <1>2, UpdateIs
  <2> HIDE DEF fresh, r
  <2>2. calls' \in 0..MaxCalls
    <3>1. calls \in 0..MaxCalls /\ MaxCalls \in Nat
      BY MergeAssumption, Zenon DEF IndInv, OthersOK
    <3> QED
      BY <1>2, <3>1, SMT
  <2>3. CASE /\ last'.err \in Refusals /\ (last'.err = "invalid" => ~last'.usable)
             /\ UNCHANGED <<store, feedKeys, prevKeys>>
    <3>1. /\ proxies' = proxies /\ source' = source /\ configured' = configured
          /\ migrated' = migrated /\ feedKeys' = feedKeys /\ prevKeys' = prevKeys
      BY <2>3, Zenon DEF store
    <3>2. /\ last'.err \in {"", "download", "duplicate", "ambiguous", "ports", "invalid"}
          /\ last'.err # ""
      BY <2>3 DEF Refusals
    <3> QED
      BY <2>2, <2>3, <3>1, <3>2, Zenon DEF IndInv, OthersOK, AllUsable
  <2>4. CASE /\ last'.err = "" /\ last'.usable
             /\ last'.runtime = r.runtime /\ proxies' = r.proxies
             /\ source' = url /\ configured' = url /\ migrated' = TRUE
             /\ feedKeys' = feed /\ prevKeys' = prev
             /\ \E of : Merging(fresh, of, url, r)
    <3>1. /\ ListOK(r.proxies) /\ AllUsable(r.proxies)
          /\ Followed(r.proxies, feed, prev) /\ feed \subseteq Keys
      BY <2>4, MergingKeeps
    <3> HIDE DEF feed
    <3>2. prev \subseteq Keys
      BY Zenon DEF IndInv, OthersOK
    <3> HIDE DEF prev
    <3>3. source' # None /\ source' \in Urls /\ configured' \in Urls
      BY <2>4, MergeAssumption, Zenon
    <3>4. "" # "invalid"
      OBVIOUS
    <3>5. AllUsable(proxies')
      BY <2>4, <3>1, Zenon
    <3> QED
      BY <2>2, <2>4, <3>1, <3>2, <3>3, <3>4, <3>5, Zenon DEF IndInv, OthersOK
  <2> QED
    BY <2>1, <2>3, <2>4
<1>3. ASSUME calls < MaxCalls, calls' = calls + 1, NEW e \in Imports, Import(e)
      PROVE  IndInv'
  <2>1. ListOK(proxies') /\ AllUsable(proxies') /\ Followed(proxies', feedKeys, prevKeys)
    BY <1>3, ImportKeeps, Zenon
  <2>2. Edited /\ OthersOK
    BY <1>3, Zenon DEF Import, IndInv
  <2>3. OthersOK' /\ feedKeys' = feedKeys /\ prevKeys' = prevKeys
    BY <1>3, <2>2, EditedKeeps, Zenon DEF Edited
  <2> QED
    BY <2>1, <2>3, Zenon DEF IndInv
<1>4. ASSUME calls < MaxCalls, calls' = calls + 1,
             NEW c \in DOMAIN proxies, NEW n \in NewNames, NEW on \in BOOLEAN, Edit(c, n, on)
      PROVE  IndInv'
  <2>1. ListOK(proxies') /\ AllUsable(proxies') /\ Followed(proxies', feedKeys, prevKeys)
    BY <1>4, EditKeeps, Zenon
  <2>2. Edited /\ OthersOK
    BY <1>4, Zenon DEF Edit, IndInv
  <2>3. OthersOK' /\ feedKeys' = feedKeys /\ prevKeys' = prevKeys
    BY <1>4, <2>2, EditedKeeps, Zenon DEF Edited
  <2> QED
    BY <2>1, <2>3, Zenon DEF IndInv
<1> QED
  BY <1>1, <1>2, <1>3, <1>4, Zenon DEF Next

(* The stored node at c has kept what it is known by.                      *)
SameIdentity(s, c) ==
  /\ c \in DOMAIN s /\ Subscribed(s[c])
  /\ s[c].name = proxies[c].name /\ s[c].port = proxies[c].port
  /\ s[c].enabled = proxies[c].enabled

(* A node of the subscription is not the bundled example.                  *)
LEMMA SubscribedIs == ASSUME NEW p, Subscribed(p) PROVE ~Bundled(p)
<1>1. "subscription" # ""
  OBVIOUS
<1> QED
  BY <1>1, Zenon DEF Bundled, Subscribed

(* A merge from the same URL does that to a node that is in the feed, which*)
(* keeps its key too,                                                      *)
LEMMA MergingKeepsIdentity ==
  ASSUME IndInv, NEW fresh, NEW of, NEW url, source = url, NEW r, Merging(fresh, of, url, r),
         NEW c \in DOMAIN proxies, Subscribed(proxies[c]),
         NEW i \in DOMAIN fresh, proxies[c].key = fresh[i].key
  PROVE  SameIdentity(r.proxies, c) /\ r.proxies[c].key = proxies[c].key
<1> DEFINE s == r.proxies
<1>1. MatchOK(fresh, of) /\ Complete(fresh, of) /\ Outcome(fresh, of, FALSE, s)
  <2>1. (source # None /\ source # url) = FALSE
    OBVIOUS
  <2> QED
    BY <2>1, Zenon DEF Merging
<1> HIDE DEF s
<1>2. DOMAIN of = DOMAIN fresh /\ of[i] = c /\ c # Unmatched
  <2>1. of[i] = c
    BY <1>1, Zenon DEF Complete
  <2>2. DOMAIN of = DOMAIN fresh
    BY <1>1 DEF MatchOK
  <2>3. c # Unmatched
    BY UnmatchedIsNone, Zenon DEF IndInv
  <2> QED
    BY <2>1, <2>2, <2>3
<1>3. ~Bundled(proxies[c])
  BY SubscribedIs, Zenon
<1>4. Matched(of, c)
  BY <1>2, <1>3, Zenon DEF Matched
<1>5. ~Lost(of, FALSE, c)
  BY <1>3, <1>4, Zenon DEF Lost
<1>6. SameIdentity(s, c) /\ \E j \in DOMAIN fresh : of[j] = c /\ s[c].key = fresh[j].key
  <2>1. c \in DOMAIN s /\ Becomes(fresh, of, FALSE, c, s[c])
    BY <1>1, <1>5, Zenon DEF Outcome
  <2> QED
    BY <1>4, <2>1, Zenon DEF Becomes, SameIdentity
<1>7. PICK j \in DOMAIN fresh : of[j] = c /\ s[c].key = fresh[j].key
  BY <1>6, Zenon
<1>8. j = i
  BY <1>1, <1>2, <1>7, Zenon DEF MatchOK
<1> QED
  BY <1>6, <1>7, <1>8, Zenon DEF s

(* and to one that was in the feed before.                                 *)
LEMMA MergingKeepsPresent ==
  ASSUME IndInv, NEW fresh, NEW of, NEW url, source = url, NEW r, Merging(fresh, of, url, r),
         NEW c \in DOMAIN proxies, Subscribed(proxies[c]), proxies[c].missing = 0
  PROVE  SameIdentity(r.proxies, c)
<1>1. Outcome(fresh, of, FALSE, r.proxies)
  <2>1. (source # None /\ source # url) = FALSE
    OBVIOUS
  <2> QED
    BY <2>1, Zenon DEF Merging
<1>2. ~Expires(proxies[c])
  <2>1. ~(0 + 1 >= 2)
    BY SMT
  <2> QED
    BY <2>1, Zenon DEF Expires
<1>3. ~Lost(of, FALSE, c)
  BY <1>2, SubscribedIs, Zenon DEF Lost
<1>4. c \in DOMAIN r.proxies /\ Becomes(fresh, of, FALSE, c, r.proxies[c])
  BY <1>1, <1>3, Zenon DEF Outcome
<1> QED
  BY <1>4, Zenon DEF Becomes, SameIdentity

(* The places of the nodes added by hand.                                  *)
Manual(s) == {c \in DOMAIN s : s[c].source = "manual"}

(* What it does to the nodes added by hand: nothing.                       *)
LEMMA MergingKeepsManual ==
  ASSUME IndInv, NEW fresh, NEW of, NEW url, NEW r, Merging(fresh, of, url, r)
  PROVE  /\ Manual(r.proxies) = Manual(proxies)
         /\ \A c \in Manual(proxies) : r.proxies[c] = proxies[c]
<1> DEFINE moved == source # None /\ source # url s == r.proxies
           kept == Stored(fresh, of, moved)
<1>1. MatchOK(fresh, of) /\ Outcome(fresh, of, moved, s)
  BY Zenon DEF Merging
<1>2. Unmatched \notin DOMAIN proxies
  BY UnmatchedIsNone, Zenon DEF IndInv
<1>3. "manual" # "" /\ "manual" # "subscription"
  OBVIOUS
<1>4. /\ DOMAIN kept \subseteq DOMAIN s
      /\ DOMAIN kept = {c \in DOMAIN proxies : ~Lost(of, moved, c)}
      /\ \A c \in DOMAIN kept : Becomes(fresh, of, moved, c, s[c])
      /\ \A c \in DOMAIN s \ DOMAIN kept :
           \E i \in DOMAIN fresh : Holds(fresh, of, kept, s[c], c, i)
  BY <1>1, Zenon DEF Outcome
<1> HIDE DEF s, moved, kept
<1>5. ASSUME NEW c \in DOMAIN proxies, proxies[c].source = "manual"
      PROVE  c \in DOMAIN s /\ s[c] = proxies[c]
  <2>1. ~Bundled(proxies[c]) /\ ~Subscribed(proxies[c])
    BY <1>3, <1>5, Zenon DEF Bundled, Subscribed
  <2>2. ~Matched(of, c)
    BY <1>1, <1>2, <1>5, EntryIs
  <2>3. c \in DOMAIN kept
    BY <1>4, <2>1, <2>2, Zenon DEF Lost
  <2>4. Becomes(fresh, of, moved, c, s[c])
    BY <1>4, <2>3, Zenon
  <2> QED
    BY <1>4, <2>1, <2>2, <2>3, <2>4, Zenon DEF Becomes
<1>6. ASSUME NEW c \in DOMAIN s, s[c].source = "manual"
      PROVE  c \in DOMAIN proxies /\ proxies[c].source = "manual"
  <2>1. ~Subscribed(s[c])
    BY <1>3, <1>6, Zenon DEF Subscribed
  <2>2. c \in DOMAIN kept
    BY <1>4, <2>1, Zenon DEF Holds
  <2>3. Becomes(fresh, of, moved, c, s[c]) /\ c \in DOMAIN proxies
    BY <1>4, <2>2, Zenon
  <2>4. s[c] = proxies[c]
    BY <2>1, <2>3, Zenon DEF Becomes
  <2> QED
    BY <1>6, <2>3, <2>4, Zenon
<1>7. Manual(s) = Manual(proxies)
  <2>1. Manual(s) \subseteq Manual(proxies)
    BY <1>6, Zenon DEF Manual
  <2>2. Manual(proxies) \subseteq Manual(s)
    BY <1>5, Zenon DEF Manual
  <2> QED
    BY <2>1, <2>2, Zenon
<1>8. \A c \in Manual(proxies) : s[c] = proxies[c]
  BY <1>5, Zenon DEF Manual
<1> QED
  BY <1>7, <1>8, Zenon DEF s

(* A merge that does not tell of a change makes none that the core sees.   *)
LEMMA MergingTold ==
  ASSUME IndInv, NEW fresh, NEW of, NEW url, NEW r, Merging(fresh, of, url, r), ~r.runtime
  PROVE  /\ DOMAIN r.proxies = DOMAIN proxies
         /\ \A c \in DOMAIN proxies : Runtime(r.proxies[c]) = Runtime(proxies[c])
<1> DEFINE moved == source # None /\ source # url s == r.proxies
           kept == Stored(fresh, of, moved)
<1>1. /\ FeedOK(fresh) /\ MatchOK(fresh, of) /\ Outcome(fresh, of, moved, s)
      /\ moved => \A i \in DOMAIN fresh : of[i] = Unmatched
      /\ ~RuntimeMoves(fresh, of, moved)
  BY Zenon DEF Merging
<1> HIDE DEF s, moved
<1>2. /\ \A i \in DOMAIN fresh : of[i] # Unmatched
      /\ \A c \in DOMAIN proxies :
           Matched(of, c) => Runtime(Kept(fresh, of, c)) = Runtime(proxies[c])
      /\ \A c \in DOMAIN proxies : Lost(of, moved, c) => ~RemovalCounts(proxies[c], moved)
  BY <1>1, Zenon DEF RuntimeMoves
<1>3. ~moved
  BY <1>1, <1>2, Zenon DEF FeedOK
<1>4. \A c \in DOMAIN proxies : ~Lost(of, moved, c)
  BY <1>2, <1>3, Zenon DEF Lost, RemovalCounts
<1>5. /\ DOMAIN kept = DOMAIN proxies
      /\ \A c \in DOMAIN kept :
           s[c] = Kept(fresh, of, c) /\ Becomes(fresh, of, moved, c, s[c])
      /\ \A c \in DOMAIN s \ DOMAIN kept :
           \E i \in DOMAIN fresh : Holds(fresh, of, kept, s[c], c, i)
      /\ DOMAIN kept \subseteq DOMAIN s
  <2>1. DOMAIN kept = {c \in DOMAIN proxies : ~Lost(of, moved, c)}
    BY <1>1, Zenon DEF Outcome
  <2>2. DOMAIN kept = DOMAIN proxies
    BY <1>4, <2>1, Zenon
  <2> QED
    BY <1>1, <2>2, Zenon DEF Outcome
<1>6. DOMAIN s = DOMAIN proxies
  <2>1. \A c \in DOMAIN s : c \in DOMAIN kept
    BY <1>2, <1>5, Zenon DEF Holds
  <2> QED
    BY <1>5, <2>1, Zenon
<1>7. ASSUME NEW c \in DOMAIN proxies PROVE Runtime(s[c]) = Runtime(proxies[c])
  <2>1. s[c] = Kept(fresh, of, c) /\ Becomes(fresh, of, moved, c, s[c])
    BY <1>5, Zenon
  <2>2. CASE Matched(of, c)
    BY <1>2, <2>1, <2>2, Zenon
  <2>3. CASE ~Matched(of, c)
    BY <2>1, <2>3, Zenon DEF Becomes
  <2> QED
    BY <2>2, <2>3
<1> QED
  BY <1>6, <1>7, Zenon DEF s

(* One of a feed with the same keys neither adds nor removes a node, and   *)
(* tells of a change only if a node has changed.                           *)
LEMMA MergingSettled ==
  ASSUME IndInv, NEW fresh, NEW of, NEW r, Merging(fresh, of, source, r), Settled,
         {fresh[i].key : i \in DOMAIN fresh} = feedKeys
  PROVE  /\ DOMAIN r.proxies = DOMAIN proxies
         /\ r.runtime =>
              \E c \in DOMAIN proxies : Runtime(r.proxies[c]) # Runtime(proxies[c])
<1> DEFINE moved == source # None /\ source # source s == r.proxies
           kept == Stored(fresh, of, moved)
<1>1. ~moved
  OBVIOUS
<1>2. /\ Complete(fresh, of) /\ Outcome(fresh, of, moved, s)
      /\ r.runtime = RuntimeMoves(fresh, of, moved)
  BY <1>1, Zenon DEF Merging
<1>3. Followed(proxies, feedKeys, prevKeys) /\ Unmatched \notin DOMAIN proxies
  BY UnmatchedIsNone, Zenon DEF IndInv
<1> HIDE DEF s, moved
<1>4. \A i \in DOMAIN fresh : of[i] # Unmatched
  <2> SUFFICES ASSUME NEW i \in DOMAIN fresh PROVE of[i] # Unmatched
    OBVIOUS
  <2>1. PICK c \in DOMAIN proxies : Subscribed(proxies[c]) /\ proxies[c].key = fresh[i].key
    BY <1>3, Zenon DEF Followed
  <2>2. of[i] = c
    BY <1>2, <2>1, Zenon DEF Complete
  <2> QED
    BY <1>3, <2>2, Zenon
<1>5. \A c \in DOMAIN proxies : ~Lost(of, moved, c)
  <2>1. ASSUME NEW c \in DOMAIN proxies, Subscribed(proxies[c]) PROVE Matched(of, c)
    <3>1. proxies[c].key \in feedKeys /\ ~Bundled(proxies[c])
      BY <1>3, <2>1, Zenon DEF Followed, Settled
    <3>2. PICK i \in DOMAIN fresh : proxies[c].key = fresh[i].key
      BY <3>1, Zenon
    <3>3. of[i] = c /\ DOMAIN of = DOMAIN fresh
      BY <1>2, <2>1, <3>2 DEF Complete, MatchOK
    <3> QED
      BY <3>1, <3>3, Zenon DEF Matched
  <2> QED
    BY <2>1, Zenon DEF Lost, Settled
<1>6. /\ DOMAIN kept = DOMAIN proxies
      /\ \A c \in DOMAIN kept : s[c] = Kept(fresh, of, c)
      /\ \A c \in DOMAIN s \ DOMAIN kept :
           \E i \in DOMAIN fresh : Holds(fresh, of, kept, s[c], c, i)
      /\ DOMAIN kept \subseteq DOMAIN s
  <2>1. DOMAIN kept = {c \in DOMAIN proxies : ~Lost(of, moved, c)}
    BY <1>2, Zenon DEF Outcome
  <2>2. DOMAIN kept = DOMAIN proxies
    BY <1>5, <2>1, Zenon
  <2> QED
    BY <1>2, <2>2, Zenon DEF Outcome
<1>7. DOMAIN s = DOMAIN proxies
  <2>1. \A c \in DOMAIN s : c \in DOMAIN kept
    BY <1>4, <1>6, Zenon DEF Holds
  <2> QED
    BY <1>6, <2>1, Zenon
<1>8. ASSUME r.runtime PROVE \E c \in DOMAIN proxies : Runtime(s[c]) # Runtime(proxies[c])
  <2>1. RuntimeMoves(fresh, of, moved)
    BY <1>2, <1>8, Zenon
  <2>2. PICK c \in DOMAIN proxies : Runtime(Kept(fresh, of, c)) # Runtime(proxies[c])
    BY <1>4, <1>5, <2>1, Zenon DEF RuntimeMoves
  <2> QED
    BY <1>6, <2>2, Zenon
<1> QED
  BY <1>7, <1>8, Zenon DEF s

(* There is always room for no new node.                                   *)
LEMMA NoneAdded ==
  ASSUME NEW stored, NEW fresh, FeedOK(fresh), Separate(fresh), NEW of,
         \A i \in DOMAIN fresh : of[i] # Unmatched
  PROVE  ~WithNew(stored, New(fresh, of)).full
<1> DEFINE new == New(fresh, of)
<1>1. PICK n \in Nat : DOMAIN fresh \subseteq 1..n
  BY Zenon DEF FeedOK
<1>2. /\ Len(new) \in Nat
      /\ \A k \in 1..Len(new) : \E i \in DOMAIN fresh : of[i] = Unmatched /\ new[k] = fresh[i]
  BY <1>1, NewIs
<1> HIDE DEF new
<1>3. \A k : k \notin 1..Len(new)
  BY <1>2, Zenon
<1>4. Len(new) = 0 /\ 0 \in 0..0
  BY <1>2, <1>3, SMT
<1>5. PICK f : Adding(f, stored, new, Len(new)) /\ WithNew(stored, new) = f[Len(new)]
  BY <1>2, AddingIs, Zenon
<1>6. f[0] = [full |-> FALSE, nodes |-> stored]
  BY <1>4, <1>5, Zenon DEF Adding
<1>7. ~f[0].full
  BY <1>6
<1> QED
  BY <1>4, <1>5, <1>7, Zenon DEF new

(* A feed without new keys merges if its entries can be used.              *)
LEMMA KnownMerges ==
  ASSUME IndInv, NEW body \in Bodies, Fetches(body), source \in Urls,
         Separate(Prepared(Fetched(body))),
         \A i \in DOMAIN Prepared(Fetched(body)) : Prepared(Fetched(body))[i].key \in feedKeys
  PROVE  Merged(Fetched(body), source).err =
           IF AllUsable(Prepared(Fetched(body))) THEN "" ELSE "invalid"
<1> DEFINE feed == Fetched(body)
           fresh == Prepared(feed)
           legacy == ~migrated /\ configured = source
           m == IF source # None /\ source # source THEN NoMatch(fresh)
                ELSE Matching(fresh, legacy)
           moved == source # None /\ source # source
           result == WithNew(Stored(fresh, m.of, moved), New(fresh, m.of))
           r == Merged(feed, source)
<1>1. FeedOK(fresh)
  BY FreshIs, Zenon
<1>2. /\ KeysDistinct /\ Unmatched \notin DOMAIN proxies
      /\ Followed(proxies, feedKeys, prevKeys)
  BY KeysDiffer, UnmatchedIsNone, Zenon DEF IndInv
<1>3. r = IF ~Separate(fresh) THEN Failed("duplicate")
          ELSE IF m.ambiguous THEN Failed("ambiguous")
          ELSE IF result.full THEN Failed("ports")
          ELSE IF ~NamesUnique(result.nodes) THEN Failed("names")
          ELSE IF ~Validates(result.nodes) THEN Failed("invalid")
          ELSE [err |-> "", proxies |-> result.nodes,
                runtime |-> RuntimeMoves(fresh, m.of, moved)]
  BY DEF Merged
<1>4. m = Matching(fresh, legacy)
  OBVIOUS
<1>5. PICK n \in Nat : DOMAIN fresh \subseteq 1..n
  BY <1>1, Zenon DEF FeedOK
<1>6. Separate(fresh) /\ \A i \in DOMAIN fresh : fresh[i].key \in feedKeys
  OBVIOUS
<1>7. Refused(r, AllUsable(fresh)) \/ (r.err = "" /\ AllUsable(fresh))
  BY MergedIs, Zenon
<1> HIDE DEF r, fresh, feed, result, m, moved, legacy
<1>8. \A i \in DOMAIN fresh : \E c \in DOMAIN proxies :
        Subscribed(proxies[c]) /\ proxies[c].key = fresh[i].key
  BY <1>2, <1>6, Zenon DEF Followed
<1>9. ~m.ambiguous /\ \A i \in DOMAIN fresh : m.of[i] # Unmatched
  BY <1>2, <1>4, <1>5, <1>6, <1>8, MatchingAll, Zenon
<1>10. ~result.full
  BY <1>1, <1>6, <1>9, NoneAdded, Zenon DEF result
<1>11. \/ r = Failed("names") \/ r = Failed("invalid")
       \/ r = [err |-> "", proxies |-> result.nodes,
                runtime |-> RuntimeMoves(fresh, m.of, moved)]
  BY <1>3, <1>6, <1>9, <1>10, Zenon
<1>12. r.err \in {"names", "invalid", ""}
  <2>1. \A e, x, y : [err |-> e, proxies |-> x, runtime |-> y].err = e
    OBVIOUS
  <2>2. CASE r = Failed("names")
    BY <2>1, <2>2, Zenon DEF Failed
  <2>3. CASE r = Failed("invalid")
    BY <2>1, <2>3, Zenon DEF Failed
  <2>4. CASE r = [err |-> "", proxies |-> result.nodes,
                  runtime |-> RuntimeMoves(fresh, m.of, moved)]
    BY <2>1, <2>4, Zenon
  <2> QED
    BY <1>11, <2>2, <2>3, <2>4
<1>13. "names" \notin Refusals /\ "" \notin Refusals /\ "names" # ""
  BY DEF Refusals
<1>14. r.err = IF AllUsable(fresh) THEN "" ELSE "invalid"
  BY <1>7, <1>12, <1>13, Zenon DEF Refused
<1> QED
  BY <1>14, Zenon DEF r, feed, fresh

-----------------------------------------------------------------------------
(* Theorems *)

(* The invariant holds in every state.                                     *)
THEOREM Inductive == Spec => []IndInv
<1>1. Init => IndInv
  BY Initially
<1>2. IndInv /\ [Next]_vars => IndInv'
  BY Keeps
<1> QED
  BY <1>1, <1>2, PTL DEF Spec

(* Names and local ports stay unique, every stored node can be used, and a *)
(* merge ends with "merged subscription config is invalid" exactly when it *)
(* would otherwise succeed and its feed has a node that cannot be used: the*)
(* names and ports that it chose never fail (subscription_merge.go:174-180)*)
THEOREM Types == Spec => []TypeOK
<1>1. IndInv => TypeOK
  BY IndInvTypes
<1> QED
  BY <1>1, Inductive, PTL

(* What is stored of the subscription follows the downloads.               *)
THEOREM StoredFollowsFeeds == Spec => []FollowsFeeds
<1>1. IndInv => FollowsFeeds
  BY IndInvFollows
<1> QED
  BY <1>1, Inductive, PTL

(* A node that is in the feed again, or was in it until now, keeps its     *)
(* place, name, port and switch, and no update touches a node that was     *)
(* added by hand.                                                          *)
THEOREM IdentitiesStable == Spec => StableIdentity
<1> DEFINE A ==
      /\ UpdateDone /\ source' = source =>
           \A c \in DOMAIN proxies :
             LET p == proxies[c] q == proxies'[c]
             IN  Subscribed(p) /\ (p.key \in feedKeys' \/ p.missing = 0) =>
                   /\ c \in DOMAIN proxies' /\ Subscribed(q)
                   /\ p.key \in feedKeys' => q.key = p.key
                   /\ <<q.name, q.port, q.enabled>> = <<p.name, p.port, p.enabled>>
      /\ last'.op = "update" =>
           LET manual(s) == {c \in DOMAIN s : s[c].source = "manual"}
           IN  [c \in manual(proxies') |-> proxies'[c]] =
               [c \in manual(proxies) |-> proxies[c]]
<1>1. ASSUME Edited PROVE A
  <2>1. last'.op = "edit"
    BY <1>1 DEF Edited
  <2>2. last'.op # "update"
    BY <2>1
  <2> QED
    BY <2>2, Zenon DEF UpdateDone
<1>2. ASSUME IndInv, NEW body \in Bodies, NEW url \in Urls, Update(body, url) PROVE A
  <2> DEFINE fresh == Prepared(Fetched(body)) r == Merged(Fetched(body), url)
             feed == {fresh[i].key : i \in DOMAIN fresh}
  <2>1. \/ /\ last'.err \in Refusals
           /\ UNCHANGED <<store, feedKeys, prevKeys>>
        \/ /\ last'.err = "" /\ proxies' = r.proxies /\ source' = url /\ feedKeys' = feed
           /\ \E of : Merging(fresh, of, url, r)
    BY <1>2, UpdateIs
  <2> HIDE DEF fresh, r
  <2>2. CASE /\ last'.err \in Refusals
             /\ UNCHANGED <<store, feedKeys, prevKeys>>
    <3>1. proxies' = proxies
      BY <2>2, Zenon DEF store
    <3>2. last'.err # ""
      BY <2>2 DEF Refusals
    <3>3. proxies' = proxies => [c \in Manual(proxies') |-> proxies'[c]] =
                                [c \in Manual(proxies) |-> proxies[c]]
      BY Zenon
    <3> QED
      BY <3>1, <3>2, <3>3, Zenon DEF UpdateDone, Manual
  <2>3. ASSUME NEW of, last'.err = "", proxies' = r.proxies, source' = url, feedKeys' = feed,
               Merging(fresh, of, url, r)
        PROVE  A
    <3>1. ASSUME source' = source, NEW c \in DOMAIN proxies, Subscribed(proxies[c]),
                 proxies[c].key \in feedKeys' \/ proxies[c].missing = 0
          PROVE  /\ c \in DOMAIN proxies' /\ Subscribed(proxies'[c])
                 /\ proxies[c].key \in feedKeys' => proxies'[c].key = proxies[c].key
                 /\ proxies'[c].name = proxies[c].name /\ proxies'[c].port = proxies[c].port
                 /\ proxies'[c].enabled = proxies[c].enabled
      <4>1. source = url
        BY <2>3, <3>1, Zenon
      <4>2. CASE proxies[c].key \in feedKeys'
        <5>1. PICK i \in DOMAIN fresh : proxies[c].key = fresh[i].key
          BY <2>3, <4>2, Zenon
        <5>2. SameIdentity(r.proxies, c) /\ r.proxies[c].key = proxies[c].key
          BY <1>2, <2>3, <3>1, <4>1, <5>1, MergingKeepsIdentity, Zenon
        <5> QED
          BY <2>3, <5>2, Zenon DEF SameIdentity
      <4>3. CASE proxies[c].key \notin feedKeys'
        <5>1. SameIdentity(r.proxies, c)
          BY <1>2, <2>3, <3>1, <4>1, <4>3, MergingKeepsPresent, Zenon
        <5> QED
          BY <2>3, <4>3, <5>1, Zenon DEF SameIdentity
      <4> QED
        BY <4>2, <4>3
    <3>2. /\ Manual(proxies') = Manual(proxies)
          /\ \A c \in Manual(proxies) : proxies'[c] = proxies[c]
      BY <1>2, <2>3, MergingKeepsManual, Zenon
    <3>3. [c \in Manual(proxies') |-> proxies'[c]] = [c \in Manual(proxies) |-> proxies[c]]
      BY <3>2, Zenon
    <3> QED
      BY <3>1, <3>3, Zenon DEF Manual
  <2> QED
    BY <2>1, <2>2, <2>3
<1>3. ASSUME IndInv, Next PROVE A
  <2>1. ASSUME NEW e \in Imports, Import(e) PROVE A
    BY <1>1, <2>1, Zenon DEF Import
  <2>2. ASSUME NEW c \in DOMAIN proxies, NEW n \in NewNames, NEW on \in BOOLEAN, Edit(c, n, on)
        PROVE  A
    BY <1>1, <2>2, Zenon DEF Edit
  <2> HIDE DEF A
  <2> QED
    BY <1>2, <1>3, <2>1, <2>2, Zenon DEF Next
<1>4. IndInv /\ [Next]_vars => [A]_vars
  BY <1>3
<1> QED
  BY <1>4, Inductive, PTL DEF Spec, StableIdentity

(* An update that says that the runtime does not change leaves all that    *)
(* the core sees as it was, so that it may be saved without a restart; and *)
(* one that brings what the last brought asks for none on its own account. *)
THEOREM RuntimeToldTruly == Spec => RuntimeTold
<1> DEFINE Same == [c \in DOMAIN proxies' |-> Runtime(proxies'[c])] =
                   [c \in DOMAIN proxies |-> Runtime(proxies[c])]
           Steady == /\ DOMAIN proxies' = DOMAIN proxies
                     /\ last'.runtime => \E c \in DOMAIN proxies :
                                           Runtime(proxies'[c]) # Runtime(proxies[c])
           A == UpdateDone =>
                  /\ ~last'.runtime => Same
                  /\ source' = source /\ feedKeys' = feedKeys /\ Settled => Steady
<1>1. ASSUME Edited PROVE A
  <2>1. last'.op = "edit"
    BY <1>1 DEF Edited
  <2>2. last'.op # "update"
    BY <2>1
  <2> QED
    BY <2>2, Zenon DEF UpdateDone
<1>2. ASSUME IndInv, NEW body \in Bodies, NEW url \in Urls, Update(body, url) PROVE A
  <2> SUFFICES ASSUME last'.err = ""
               PROVE  /\ ~last'.runtime => Same
                      /\ source' = source /\ feedKeys' = feedKeys /\ Settled => Steady
    BY Zenon DEF UpdateDone
  <2> DEFINE fresh == Prepared(Fetched(body)) r == Merged(Fetched(body), url)
             feed == {fresh[i].key : i \in DOMAIN fresh}
  <2>1. \/ last'.err \in Refusals
        \/ /\ last'.runtime = r.runtime /\ proxies' = r.proxies
           /\ source' = url /\ feedKeys' = feed
           /\ \E of : Merging(fresh, of, url, r)
    BY <1>2, UpdateIs
  <2> HIDE DEF fresh, r
  <2>2. "" \notin Refusals
    BY DEF Refusals
  <2>3. PICK of : /\ last'.runtime = r.runtime /\ proxies' = r.proxies
                  /\ source' = url /\ feedKeys' = feed
                  /\ Merging(fresh, of, url, r)
    BY <2>1, <2>2, Zenon
  <2>4. ASSUME ~last'.runtime PROVE Same
    <3>1. /\ DOMAIN r.proxies = DOMAIN proxies
          /\ \A c \in DOMAIN proxies : Runtime(r.proxies[c]) = Runtime(proxies[c])
      BY <1>2, <2>3, <2>4, MergingTold, Zenon
    <3> QED
      BY <2>3, <3>1, Zenon
  <2>5. ASSUME source' = source, feedKeys' = feedKeys, Settled PROVE Steady
    <3>1. Merging(fresh, of, source, r) /\ feed = feedKeys
      BY <2>3, <2>5, Zenon
    <3>2. /\ DOMAIN r.proxies = DOMAIN proxies
          /\ r.runtime =>
               \E c \in DOMAIN proxies : Runtime(r.proxies[c]) # Runtime(proxies[c])
      BY <1>2, <2>5, <3>1, MergingSettled, Zenon
    <3> QED
      BY <2>3, <3>2, Zenon
  <2> QED
    BY <2>4, <2>5
<1>3. ASSUME IndInv, Next PROVE A
  <2>1. ASSUME NEW e \in Imports, Import(e) PROVE A
    BY <1>1, <2>1, Zenon DEF Import
  <2>2. ASSUME NEW c \in DOMAIN proxies, NEW n \in NewNames, NEW on \in BOOLEAN,
               Edit(c, n, on)
        PROVE  A
    BY <1>1, <2>2, Zenon DEF Edit
  <2> HIDE DEF A
  <2> QED
    BY <1>2, <1>3, <2>1, <2>2, Zenon DEF Next
<1>4. IndInv /\ [Next]_vars => [A]_vars
  BY <1>3
<1> QED
  BY <1>4, Inductive, PTL DEF Spec, RuntimeTold

(* A feed that brings no new key, and no node that cannot be used, is never*)
(* refused, whatever the user has added and renamed since.                 *)
THEOREM KnownFeedMerges == Spec => []MergesAgain
<1>1. ASSUME IndInv PROVE MergesAgain
  <2> SUFFICES ASSUME NEW body \in Bodies, source # None, Fetches(body),
                      Separate(Prepared(Fetched(body))),
                      \A i \in DOMAIN Prepared(Fetched(body)) :
                        Prepared(Fetched(body))[i].key \in feedKeys
               PROVE  Merged(Fetched(body), source).err =
                        IF AllUsable(Prepared(Fetched(body))) THEN "" ELSE "invalid"
    BY Zenon DEF MergesAgain
  <2>1. source \in Urls
    BY <1>1, Zenon DEF IndInv, OthersOK
  <2> QED
    BY <1>1, <2>1, KnownMerges
<1> QED
  BY <1>1, Inductive, PTL

=============================================================================
