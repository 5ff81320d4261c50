----------------------------- MODULE ListProofs -----------------------------
(***************************************************************************)
(* The lists of the base classes, for any lists, nodes and objects.        *)
(*                                                                         *)
(* A heap stands for the contents of the lists (StandsFor) when some       *)
(* sequences of nodes, without repetition, are the chains of the lists in  *)
(* both directions and carry their objects, and every node has one place:  *)
(* free memory, the chain or the cache of one list.  Each operation gives  *)
(* the sequences of the new heap; what the walk along the links returns,   *)
(* a recursive function, is derived once from the links (WalkIs).          *)
(***************************************************************************)
EXTENDS MCToolbox, FiniteSetTheorems, SequenceTheorems, TLAPS

-----------------------------------------------------------------------------

\* A set of numbers has a least one: what stands for induction here.
LEMMA LeastExists ==
    ASSUME NEW T, T \subseteq Nat, T # {}
    PROVE  \E x \in T : \A y \in T : x <= y
<1>1. PICK x \in T : \A y \in T : ~(<<y, x>> \in OpToRel(<, Nat))
  <2>1. \E x \in T : \A y \in T : ~(<<y, x>> \in OpToRel(<, Nat))
    BY NatLessThanWellFounded, WFMin
  <2> QED BY <2>1
<1>2. \A y \in T : ~(y < x)
  BY <1>1 DEF OpToRel
<1> QED BY <1>2

-----------------------------------------------------------------------------
(* Lists: chains of nodes. *)

\* The node at a position of a sequence, the null pointer at the ends.
NodeAt(s, k) == IF k \in 1..Len(s) THEN s[k] ELSE Null

\* From p along the links to the end.
IsPath(link, s, p) ==
    /\ s \in Seq(Nodes) /\ p = NodeAt(s, 1)
    /\ \A k \in 1..Len(s) : link[s[k]] = NodeAt(s, k + 1)

\* A sequence without repetition.
Once(s) == \A j, k \in 1..Len(s) : s[j] = s[k] => j = k

\* What is assumed of the memory, in the words of the library.
LEMMA ListsAssumed ==
    /\ IsFiniteSet(Nodes) /\ Null \notin Nodes /\ Null \notin Data /\ iCacheSize \in Nat
    /\ Cardinality(Nodes) \in Nat /\ Lists # {}
<1>1. Listing!ListAssumption
  BY ToolboxAssumption DEF ToolboxAssumption
<1>2. IsFiniteSet(Nodes)
  BY <1>1 DEF Listing!ListAssumption, Listing!IsFiniteSet, IsFiniteSet
<1> QED BY <1>1, <1>2, FS_CardinalityType DEF Listing!ListAssumption

\* A node inside the sequence, Null outside.
LEMMA NodeAtTyped ==
    ASSUME NEW s \in Seq(Nodes), NEW k \in Int
    PROVE  /\ Len(s) \in Nat /\ NodeAt(s, k) \in Nodes \cup {Null}
           /\ NodeAt(s, k) = Null <=> k \notin 1..Len(s)
           /\ k \in 1..Len(s) => NodeAt(s, k) = s[k] /\ s[k] \in Nodes
BY ListsAssumed DEF NodeAt

\* A sequence without repetition is no longer than there are nodes.
LEMMA OnceIsShort ==
    ASSUME NEW s \in Seq(Nodes), Once(s)
    PROVE  Len(s) <= Cardinality(Nodes)
<1>1. Len(s) \in Nat /\ s \in [1..Len(s) -> Nodes]
  OBVIOUS
<1>2. s \in Injection(1..Len(s), Nodes)
  BY <1>1 DEF Once, Injection, IsInjective
<1>3. IsFiniteSet(1..Len(s)) /\ Cardinality(1..Len(s)) = Len(s)
  BY <1>1, FS_Interval
<1> QED BY <1>2, <1>3, FS_Injection, ListsAssumed

-----------------------------------------------------------------------------
(* Walking along the links. *)

\* What k steps yield from each node.
Steps(link, N, from) ==
    from = [k \in 0..N |-> [p \in Nodes \cup {Null} |->
               IF p = Null \/ k = 0 THEN <<>> ELSE <<p>> \o from[k - 1][link[p]]]]

\* The recursive function of Walk exists.
LEMMA StepsExist ==
    ASSUME NEW link, NEW N \in Nat
    PROVE  \E from : Steps(link, N, from)
<1> DEFINE Bad == { n \in Nat : ~\E from : Steps(link, n, from) }
<1> SUFFICES ASSUME Bad # {} PROVE FALSE
  OBVIOUS
<1>1. PICK n \in Bad : \A y \in Bad : n <= y
  BY LeastExists
<1>2. n # 0
  <2>1. Steps(link, 0, [k \in 0..0 |-> [p \in Nodes \cup {Null} |-> <<>>]])
    BY DEF Steps
  <2> QED BY <2>1
<1>3. n \in Nat /\ n - 1 \in Nat /\ n - 1 \notin Bad
  BY <1>1, <1>2
<1>4. PICK f : Steps(link, n - 1, f)
  BY <1>3
<1> DEFINE g == [k \in 0..n |-> [p \in Nodes \cup {Null} |->
                    IF p = Null \/ k = 0 THEN <<>> ELSE <<p>> \o f[k - 1][link[p]]]]
<1>5. ASSUME NEW k \in 0..n - 1 PROVE f[k] = g[k]
  <2> DEFINE after(h, m) == [p \in Nodes \cup {Null} |->
                    IF p = Null \/ m = 0 THEN <<>> ELSE <<p>> \o h[m - 1][link[p]]]
  <2>1. f = [m \in 0..n - 1 |-> after(f, m)] /\ g = [m \in 0..n |-> after(f, m)]
    BY <1>4 DEF Steps
  <2>2. k \in 0..n - 1 /\ k \in 0..n
    BY <1>3
  <2> HIDE DEF after, g
  <2>3. f[k] = after(f, k)
    BY <2>1, <2>2
  <2>4. g[k] = after(f, k)
    BY <2>1, <2>2
  <2> QED BY <2>3, <2>4
<1>6. ASSUME NEW k \in 0..n, k # 0 PROVE f[k - 1] = g[k - 1]
  <2>1. k - 1 \in 0..n - 1
    BY <1>3, <1>6
  <2> HIDE DEF g
  <2> QED BY <1>5, <2>1
<1>7. \A k \in 0..n : g[k] = [p \in Nodes \cup {Null} |->
                    IF p = Null \/ k = 0 THEN <<>> ELSE <<p>> \o g[k - 1][link[p]]]
  BY <1>6
<1>8. g = [k \in 0..n |-> [p \in Nodes \cup {Null} |->
                    IF p = Null \/ k = 0 THEN <<>> ELSE <<p>> \o g[k - 1][link[p]]]]
  <2>1. g = [k \in 0..n |-> g[k]]
    OBVIOUS
  <2> HIDE DEF g
  <2> QED BY <1>7, <2>1
<1>9. Steps(link, n, g)
  BY <1>8 DEF Steps
<1> QED BY <1>9

\* As many steps as there are nodes follow a path to its end.
LEMMA StepsFollow ==
    ASSUME NEW link, NEW N \in Nat, NEW from, Steps(link, N, from)
    PROVE  \A k \in 0..N : \A s, p : IsPath(link, s, p) /\ Len(s) <= k => from[k][p] = s
<1> DEFINE Bad == { k \in 0..N : \E s, p : IsPath(link, s, p) /\ Len(s) <= k /\ from[k][p] # s }
<1> SUFFICES ASSUME Bad # {} PROVE FALSE
  OBVIOUS
<1>1. Bad \subseteq Nat
  OBVIOUS
<1>2. PICK k \in Bad : \A y \in Bad : k <= y
  BY <1>1, LeastExists
<1>3. PICK s, p : IsPath(link, s, p) /\ Len(s) <= k /\ from[k][p] # s
  OBVIOUS
<1>4. /\ k \in 0..N /\ s \in Seq(Nodes) /\ Len(s) \in Nat /\ p = NodeAt(s, 1) /\ p \in Nodes \cup {Null}
      /\ p = Null <=> Len(s) = 0
  BY <1>3, NodeAtTyped DEF IsPath
<1>5. from[k][p] = IF p = Null \/ k = 0 THEN <<>> ELSE <<p>> \o from[k - 1][link[p]]
  <2>1. from[k] = [q \in Nodes \cup {Null} |->
                     IF q = Null \/ k = 0 THEN <<>> ELSE <<q>> \o from[k - 1][link[q]]]
    BY <1>4 DEF Steps
  <2> QED BY <1>4, <2>1
<1>6. CASE Len(s) = 0
  BY <1>3, <1>4, <1>5, <1>6
<1>7. CASE Len(s) # 0
  <2>1. k - 1 \in 0..N /\ k - 1 < k /\ k - 1 \notin Bad
    BY <1>2, <1>3, <1>4, <1>7
  <2>2. PICK t : t = Tail(s)
    OBVIOUS
  <2>3. /\ t \in Seq(Nodes) /\ Len(t) = Len(s) - 1 /\ \A j \in 1..Len(t) : t[j] = s[j + 1]
        /\ p = s[1] /\ p \in Nodes
    BY <1>4, <1>7, <2>2, HeadTailProperties DEF NodeAt
  <2>4. \A j \in 1..Len(t) + 1 : NodeAt(t, j) = NodeAt(s, j + 1)
    BY <1>4, <2>3 DEF NodeAt
  <2>5. link[p] = NodeAt(t, 1)
    <3>1. link[s[1]] = NodeAt(s, 2)
      BY <1>3, <1>4, <1>7 DEF IsPath
    <3> QED BY <2>3, <2>4, <3>1, <1>4
  <2>6. \A j \in 1..Len(t) : link[t[j]] = NodeAt(t, j + 1)
    <3> SUFFICES ASSUME NEW j \in 1..Len(t) PROVE link[t[j]] = NodeAt(t, j + 1)
      OBVIOUS
    <3>1. j + 1 \in 1..Len(s) /\ j + 1 \in 1..Len(t) + 1 /\ j \in Int
      BY <1>4, <2>3
    <3>2. link[s[j + 1]] = NodeAt(s, (j + 1) + 1)
      BY <1>3, <3>1 DEF IsPath
    <3> QED BY <2>3, <2>4, <3>1, <3>2
  <2>7. IsPath(link, t, link[p])
    BY <2>3, <2>5, <2>6 DEF IsPath
  <2>8. from[k - 1][link[p]] = t
    BY <1>3, <1>4, <2>1, <2>3, <2>7
  <2>9. from[k][p] = <<p>> \o t
    <3>1. p # Null /\ k # 0
      BY <1>4, <2>1, <2>3, ListsAssumed
    <3> QED BY <1>5, <2>8, <3>1
  <2>10. <<p>> \o t = s
    <3>1. <<p>> \in Seq(Nodes) /\ Len(<<p>>) = 1 /\ <<p>>[1] = p
      BY <2>3
    <3>2. /\ <<p>> \o t \in Seq(Nodes) /\ Len(<<p>> \o t) = Len(s)
          /\ \A j \in 1..Len(s) : (<<p>> \o t)[j] = IF j <= 1 THEN <<p>>[j] ELSE t[j - 1]
      BY <1>4, <2>3, <3>1, ConcatProperties
    <3>3. \A j \in 1..Len(s) : (<<p>> \o t)[j] = s[j]
      <4> SUFFICES ASSUME NEW j \in 1..Len(s) PROVE (<<p>> \o t)[j] = s[j]
        OBVIOUS
      <4>1. CASE j = 1
        BY <2>3, <3>1, <3>2, <4>1
      <4>2. CASE j # 1
        <5>1. j - 1 \in 1..Len(t) /\ (j - 1) + 1 = j /\ ~(j <= 1)
          BY <1>4, <2>3, <4>2
        <5>2. t[j - 1] = s[(j - 1) + 1]
          BY <2>3, <5>1
        <5> QED BY <3>2, <5>1, <5>2
      <4> QED BY <4>1, <4>2
    <3> QED BY <1>4, <3>2, <3>3, SeqEqual
  <2> QED BY <1>3, <2>9, <2>10
<1> QED BY <1>6, <1>7

\* Walking along a path without repetition yields the path.
LEMMA WalkIs ==
    ASSUME NEW link, NEW s, NEW p, IsPath(link, s, p), Once(s)
    PROVE  Listing!Walk(link, p) = s
<1> DEFINE N == Cardinality(Nodes)
           from == CHOOSE f : Steps(link, N, f)
<1>1. N \in Nat /\ s \in Seq(Nodes) /\ Len(s) <= N
  BY ListsAssumed, OnceIsShort DEF IsPath
<1>2. Steps(link, N, from)
  BY <1>1, StepsExist
<1>3. from[N][p] = s
  <2> HIDE DEF N, from
  <2>1. \A k \in 0..N : \A t, q : IsPath(link, t, q) /\ Len(t) <= k => from[k][q] = t
    BY <1>1, <1>2, StepsFollow
  <2>2. N \in 0..N
    BY <1>1
  <2> QED BY <1>1, <2>1, <2>2
<1>4. Listing!Walk(link, p) = from[N][p]
  BY DEF Listing!Walk, Steps, Listing!Pointer, Listing!Cardinality, Cardinality
<1> QED BY <1>3, <1>4

-----------------------------------------------------------------------------
(* Chains of nodes. *)

\* Every node of s is linked to its neighbours in both directions.
Linked(nx, pv, s) ==
    \A k \in 1..Len(s) : nx[s[k]] = NodeAt(s, k + 1) /\ pv[s[k]] = NodeAt(s, k - 1)

Inside(s, q) == \E k \in 1..Len(s) : s[k] = q

\* A function on 1..k is a sequence of length k.
LEMMA SeqOfFunction ==
    ASSUME NEW S, NEW n \in Nat, NEW f \in [1..n -> S]
    PROVE  f \in Seq(S) /\ Len(f) = n
<1>1. f \in Seq(S)
  BY SeqDef
<1>2. DOMAIN f = 1..n /\ DOMAIN f = 1..Len(f) /\ Len(f) \in Nat
  BY <1>1, LenProperties
<1>3. 1..n = 1..Len(f)
  BY <1>2
<1>4. Len(f) = n
  <2>1. CASE n = 0
    <3>1. CASE Len(f) = 0
      BY <2>1, <3>1
    <3>2. CASE Len(f) # 0
      <4>1. 1 \in 1..Len(f)
        BY <1>2, <3>2
      <4> QED BY <1>3, <2>1, <4>1
    <3> QED BY <3>1, <3>2
  <2>2. CASE n # 0
    <3>1. n \in 1..n /\ n + 1 \notin 1..n
      BY <2>2
    <3>2. n \in 1..Len(f) /\ n + 1 \notin 1..Len(f)
      BY <1>3, <3>1
    <3> QED BY <1>2, <3>2
  <2> QED BY <2>1, <2>2
<1> QED BY <1>1, <1>4

\* s with n put after the first j.
Insertion(s, j, n) ==
    [k \in 1..Len(s) + 1 |-> IF k <= j THEN s[k] ELSE IF k = j + 1 THEN n ELSE s[k - 1]]

\* t is s with n behind its first j.
HasInserted(s, j, n, t) ==
    /\ Len(t) = Len(s) + 1 /\ Len(s) \in Nat
    /\ \A k \in 1..j : t[k] = s[k]
    /\ t[j + 1] = n
    /\ \A k \in j + 1..Len(s) : t[k + 1] = s[k]
    /\ \A k \in 1..Len(t) : \/ k <= j /\ k \in 1..Len(s) /\ t[k] = s[k]
                            \/ k = j + 1 /\ t[k] = n
                            \/ k > j + 1 /\ k - 1 \in 1..Len(s) /\ t[k] = s[k - 1]

\* What a sequence with one more element is, and that it has no repetition.
LEMMA InsertionIs ==
    ASSUME NEW S, NEW s \in Seq(S), NEW j \in 0..Len(s), NEW n \in S, NEW t, t = Insertion(s, j, n)
    PROVE  t \in Seq(S) /\ HasInserted(s, j, n, t)
<1>1. /\ Len(s) \in Nat /\ Len(s) + 1 \in Nat /\ j \in Nat /\ j <= Len(s)
      /\ \A k \in 1..Len(s) : s[k] \in S
  OBVIOUS
<1>2. t \in [1..Len(s) + 1 -> S]
  <2> SUFFICES ASSUME NEW k \in 1..Len(s) + 1
               PROVE  (IF k <= j THEN s[k] ELSE IF k = j + 1 THEN n ELSE s[k - 1]) \in S
    BY DEF Insertion
  <2>1. CASE k <= j
    BY <1>1, <2>1
  <2>2. CASE k = j + 1
    BY <1>1, <2>2
  <2>3. CASE k > j + 1
    <3>1. k - 1 \in 1..Len(s)
      BY <1>1, <2>3
    <3> QED BY <1>1, <2>3, <3>1
  <2> QED BY <1>1, <2>1, <2>2, <2>3
<1>3. t \in Seq(S) /\ Len(t) = Len(s) + 1
  BY <1>1, <1>2, SeqOfFunction
<1>4. \A k \in 1..Len(s) + 1 : t[k] = IF k <= j THEN s[k] ELSE IF k = j + 1 THEN n ELSE s[k - 1]
  BY DEF Insertion
<1>5. \A k \in 1..j : t[k] = s[k]
  <2> SUFFICES ASSUME NEW k \in 1..j PROVE t[k] = s[k]
    OBVIOUS
  <2>1. k \in 1..Len(s) + 1 /\ k <= j
    BY <1>1
  <2> QED BY <1>4, <2>1
<1>6. t[j + 1] = n
  <2>1. j + 1 \in 1..Len(s) + 1 /\ ~(j + 1 <= j)
    BY <1>1
  <2> QED BY <1>4, <2>1
<1>7. \A k \in j + 1..Len(s) : t[k + 1] = s[k]
  <2> SUFFICES ASSUME NEW k \in j + 1..Len(s) PROVE t[k + 1] = s[k]
    OBVIOUS
  <2>1. k + 1 \in 1..Len(s) + 1 /\ ~(k + 1 <= j) /\ k + 1 # j + 1 /\ (k + 1) - 1 = k
    BY <1>1
  <2>2. t[k + 1] = s[(k + 1) - 1]
    BY <1>4, <2>1
  <2> QED BY <2>1, <2>2
<1>8. ASSUME NEW k \in 1..Len(t)
      PROVE  \/ k <= j /\ k \in 1..Len(s) /\ t[k] = s[k]
             \/ k = j + 1 /\ t[k] = n
             \/ k > j + 1 /\ k - 1 \in 1..Len(s) /\ t[k] = s[k - 1]
  <2>0. k \in 1..Len(s) + 1 /\ k \in Int
    BY <1>1, <1>3
  <2>1. CASE k <= j
    <3>1. k \in 1..Len(s)
      BY <1>1, <2>0, <2>1
    <3> QED BY <1>4, <2>0, <2>1, <3>1
  <2>2. CASE k = j + 1
    BY <1>6, <2>2
  <2>3. CASE k > j + 1
    <3>1. k - 1 \in 1..Len(s) /\ ~(k <= j) /\ k # j + 1
      BY <1>1, <2>0, <2>3
    <3> QED BY <1>4, <2>0, <2>3, <3>1
  <2> QED BY <1>1, <2>0, <2>1, <2>2, <2>3
<1> QED BY <1>1, <1>3, <1>5, <1>6, <1>7, <1>8 DEF HasInserted

\* n and its neighbours after the first j of s change their links.
Relinked(s, j, n, nx, pv, nx2, pv2) ==
    /\ \A q \in Nodes : nx2[q] = IF q = NodeAt(s, j) THEN n
                                 ELSE IF q = n THEN NodeAt(s, j + 1) ELSE nx[q]
    /\ \A q \in Nodes : pv2[q] = IF q = NodeAt(s, j + 1) THEN n
                                 ELSE IF q = n THEN NodeAt(s, j) ELSE pv[q]

\* t is the chain s with n after its first j.
IsGrown(s, j, n, t, nx2, pv2) ==
    /\ Once(t) /\ Linked(nx2, pv2, t)
    /\ NodeAt(t, 1) = IF j = 0 THEN n ELSE NodeAt(s, 1)
    /\ NodeAt(t, Len(t)) = IF j = Len(s) THEN n ELSE NodeAt(s, Len(s))
    /\ \A q : Inside(t, q) <=> q = n \/ Inside(s, q)

\* A node that is put into a chain.
LEMMA ChainInserted ==
    ASSUME NEW s \in Seq(Nodes), Once(s), NEW n \in Nodes, ~Inside(s, n), NEW j \in 0..Len(s),
           NEW nx, NEW pv, Linked(nx, pv, s), NEW nx2, NEW pv2,
           Relinked(s, j, n, nx, pv, nx2, pv2),
           NEW t, t = Insertion(s, j, n)
    PROVE  IsGrown(s, j, n, t, nx2, pv2)
<1> USE DEF Relinked
<1>0. t \in Seq(Nodes) /\ HasInserted(s, j, n, t)
  BY InsertionIs, Zenon
<1>1. /\ t \in Seq(Nodes) /\ Len(t) = Len(s) + 1 /\ Len(s) \in Nat /\ j \in Nat /\ j <= Len(s)
      /\ \A k \in 1..j : t[k] = s[k]
      /\ t[j + 1] = n
      /\ \A k \in j + 1..Len(s) : t[k + 1] = s[k]
      /\ \A k \in 1..Len(s) : s[k] \in Nodes /\ s[k] # n
  BY <1>0 DEF Inside, HasInserted
<1>2. \A k \in 1..Len(t) : \/ k <= j /\ k \in 1..Len(s) /\ t[k] = s[k]
                           \/ k = j + 1 /\ t[k] = n
                           \/ k > j + 1 /\ k - 1 \in 1..Len(s) /\ t[k] = s[k - 1]
  BY <1>0 DEF HasInserted
<1>3. Once(t)
  <2> SUFFICES ASSUME NEW a \in 1..Len(t), NEW b \in 1..Len(t), t[a] = t[b] PROVE a = b
    BY DEF Once
  <2>1. a \in Int /\ b \in Int
    OBVIOUS
  <2>2. \/ a <= j /\ a \in 1..Len(s) /\ t[a] = s[a]
        \/ a = j + 1 /\ t[a] = n
        \/ a > j + 1 /\ a - 1 \in 1..Len(s) /\ t[a] = s[a - 1]
    BY <1>2
  <2>3. \/ b <= j /\ b \in 1..Len(s) /\ t[b] = s[b]
        \/ b = j + 1 /\ t[b] = n
        \/ b > j + 1 /\ b - 1 \in 1..Len(s) /\ t[b] = s[b - 1]
    BY <1>2
  <2>4. \A c, d \in 1..Len(s) : s[c] = s[d] => c = d
    BY DEF Once
  <2>5. j \in Int /\ \A c \in 1..Len(s) : s[c] # n
    BY <1>1
  <2>6. CASE a <= j /\ a \in 1..Len(s) /\ t[a] = s[a]
    BY <2>1, <2>3, <2>4, <2>5, <2>6
  <2>7. CASE a = j + 1 /\ t[a] = n
    BY <2>1, <2>3, <2>4, <2>5, <2>7
  <2>8. CASE a > j + 1 /\ a - 1 \in 1..Len(s) /\ t[a] = s[a - 1]
    <3>1. CASE b > j + 1 /\ b - 1 \in 1..Len(s) /\ t[b] = s[b - 1]
      <4>1. a - 1 = b - 1
        BY <2>4, <2>8, <3>1
      <4> QED BY <2>1, <4>1
    <3>2. CASE b <= j /\ b \in 1..Len(s) /\ t[b] = s[b]
      <4>1. a - 1 = b
        BY <2>4, <2>8, <3>2
      <4> QED BY <2>1, <2>5, <2>8, <3>2, <4>1
    <3> QED BY <2>1, <2>3, <2>5, <2>8, <3>1, <3>2
  <2> QED BY <2>2, <2>6, <2>7, <2>8
<1>4. \A k \in Int : NodeAt(t, k) = IF k <= j THEN NodeAt(s, k) ELSE IF k = j + 1 THEN n ELSE NodeAt(s, k - 1)
  <2> SUFFICES ASSUME NEW k \in Int
               PROVE  NodeAt(t, k) = IF k <= j THEN NodeAt(s, k) ELSE IF k = j + 1 THEN n ELSE NodeAt(s, k - 1)
    OBVIOUS
  <2>1. k \in 1..Len(t) <=> 1 <= k /\ k <= Len(s) + 1
    BY <1>1
  <2>2. CASE k \notin 1..Len(t)
    BY <1>1, <2>1, <2>2 DEF NodeAt
  <2>3. CASE k \in 1..Len(t)
    <3>1. NodeAt(t, k) = t[k]
      BY <2>3 DEF NodeAt
    <3> QED BY <1>1, <1>2, <2>3, <3>1 DEF NodeAt
  <2> QED BY <2>2, <2>3
<1>5. \A k \in Int : NodeAt(s, k) # n /\ (NodeAt(s, k) = Null <=> k \notin 1..Len(s))
  BY <1>1, ListsAssumed DEF NodeAt
<1>6. \A a, b \in Int : a \in 1..Len(s) /\ NodeAt(s, a) = NodeAt(s, b) => a = b
  BY <1>1, ListsAssumed DEF NodeAt, Once
<1>7. Linked(nx2, pv2, t)
  <2> SUFFICES ASSUME NEW k \in 1..Len(t)
               PROVE  nx2[t[k]] = NodeAt(t, k + 1) /\ pv2[t[k]] = NodeAt(t, k - 1)
    BY DEF Linked
  <2>0. k \in Int /\ k + 1 \in Int /\ k - 1 \in Int /\ j + 1 \in Int
    BY <1>1
  <2>1. CASE k <= j /\ k \in 1..Len(s) /\ t[k] = s[k]
    <3>1. s[k] \in Nodes /\ s[k] # n /\ s[k] = NodeAt(s, k)
      BY <1>1, <2>1 DEF NodeAt
    <3>2. nx[s[k]] = NodeAt(s, k + 1) /\ pv[s[k]] = NodeAt(s, k - 1)
      BY <2>1 DEF Linked
    <3>3. s[k] # NodeAt(s, j + 1) /\ (s[k] = NodeAt(s, j) <=> k = j)
      BY <1>1, <1>6, <2>0, <2>1, <3>1
    <3>4. pv2[t[k]] = NodeAt(s, k - 1) /\ nx2[t[k]] = IF k = j THEN n ELSE NodeAt(s, k + 1)
      BY <2>1, <3>1, <3>2, <3>3
    <3> QED BY <1>1, <1>4, <2>0, <2>1, <3>4
  <2>2. CASE k = j + 1 /\ t[k] = n
    <3>1. NodeAt(s, j) # n /\ NodeAt(s, j + 1) # n
      BY <1>1, <1>5, <2>0
    <3>2. nx2[n] = NodeAt(s, j + 1) /\ pv2[n] = NodeAt(s, j)
      BY <3>1
    <3>3. NodeAt(t, k + 1) = NodeAt(s, j + 1) /\ NodeAt(t, k - 1) = NodeAt(s, j)
      <4>1. ~(k + 1 <= j) /\ k + 1 # j + 1 /\ (k + 1) - 1 = j + 1 /\ k - 1 <= j /\ k - 1 = j
        BY <1>1, <2>0, <2>2
      <4> QED BY <1>4, <2>0, <4>1
    <3> QED BY <2>2, <3>2, <3>3
  <2>3. CASE k > j + 1 /\ k - 1 \in 1..Len(s) /\ t[k] = s[k - 1]
    <3>1. s[k - 1] \in Nodes /\ s[k - 1] # n /\ s[k - 1] = NodeAt(s, k - 1)
      BY <1>1, <2>3 DEF NodeAt
    <3>2. nx[s[k - 1]] = NodeAt(s, (k - 1) + 1) /\ pv[s[k - 1]] = NodeAt(s, (k - 1) - 1)
      BY <2>3 DEF Linked
    <3>3. s[k - 1] # NodeAt(s, j) /\ (s[k - 1] = NodeAt(s, j + 1) <=> k - 1 = j + 1)
      BY <1>1, <1>6, <2>0, <2>3, <3>1
    <3>4. nx2[t[k]] = NodeAt(s, (k - 1) + 1)
          /\ pv2[t[k]] = IF k - 1 = j + 1 THEN n ELSE NodeAt(s, (k - 1) - 1)
      BY <2>3, <3>1, <3>2, <3>3
    <3>5. (k - 1) + 1 = k /\ ~(k + 1 <= j) /\ k + 1 # j + 1 /\ (k + 1) - 1 = k
      BY <1>1, <2>0, <2>3
    <3>6. NodeAt(t, k + 1) = NodeAt(s, k)
      BY <1>4, <2>0, <3>5
    <3>7. NodeAt(t, k - 1) = IF k - 1 = j + 1 THEN n ELSE NodeAt(s, (k - 1) - 1)
      BY <1>1, <1>4, <2>0, <2>3
    <3> QED BY <3>4, <3>5, <3>6, <3>7
  <2> QED BY <1>2, <2>1, <2>2, <2>3
<1>8. NodeAt(t, 1) = IF j = 0 THEN n ELSE NodeAt(s, 1)
  BY <1>1, <1>4
<1>9. NodeAt(t, Len(t)) = IF j = Len(s) THEN n ELSE NodeAt(s, Len(s))
  BY <1>1, <1>4
<1>10. ASSUME NEW q PROVE Inside(t, q) <=> q = n \/ Inside(s, q)
  <2>1. ASSUME Inside(t, q) PROVE q = n \/ Inside(s, q)
    BY <1>2, <2>1 DEF Inside
  <2>2. ASSUME q = n PROVE Inside(t, q)
    <3>1. j + 1 \in 1..Len(t)
      BY <1>1
    <3> QED BY <1>1, <2>2, <3>1 DEF Inside
  <2>3. ASSUME NEW k \in 1..Len(s), s[k] = q PROVE Inside(t, q)
    <3>1. CASE k <= j
      <4>1. k \in 1..j /\ k \in 1..Len(t)
        BY <1>1, <3>1
      <4> QED BY <1>1, <2>3, <4>1 DEF Inside
    <3>2. CASE k > j
      <4>1. k \in j + 1..Len(s) /\ k + 1 \in 1..Len(t)
        BY <1>1, <3>2
      <4> QED BY <1>1, <2>3, <4>1 DEF Inside
    <3> QED BY <1>1, <3>1, <3>2
  <2> QED BY <2>1, <2>2, <2>3 DEF Inside
<1> QED BY <1>3, <1>7, <1>8, <1>9, <1>10 DEF IsGrown

\* A chain whose nodes keep their links.
LEMMA ChainUntouched ==
    ASSUME NEW s \in Seq(Nodes), NEW nx, NEW pv, Linked(nx, pv, s), NEW nx2, NEW pv2,
           \A q \in Nodes : Inside(s, q) => nx2[q] = nx[q] /\ pv2[q] = pv[q]
    PROVE  Linked(nx2, pv2, s)
<1>1. \A k \in 1..Len(s) : s[k] \in Nodes /\ Inside(s, s[k])
  BY DEF Inside
<1> QED BY <1>1 DEF Linked

-----------------------------------------------------------------------------
(* The memory of the lists. *)

\* The types of the memory.
IsHeap(h) ==
    /\ h \in [first : [Lists -> Nodes \cup {Null}], last : [Lists -> Nodes \cup {Null}],
              count : [Lists -> Int], cache : [Lists -> Seq(Nodes)],
              next : [Nodes -> Nodes \cup {Null}], prev : [Nodes -> Nodes \cup {Null}],
              data : [Nodes -> Data \cup {Null}], free : SUBSET Nodes]

\* Every list is a chain of nodes between its anchors.
Chained(h, ns) ==
    /\ ns \in [Lists -> Seq(Nodes)]
    /\ \A l \in Lists :
          /\ Once(ns[l]) /\ Linked(h.next, h.prev, ns[l])
          /\ h.first[l] = NodeAt(ns[l], 1) /\ h.last[l] = NodeAt(ns[l], Len(ns[l]))
          /\ h.count[l] = Len(ns[l])

Caches(h) == \A l \in Lists : Once(h.cache[l]) /\ Len(h.cache[l]) <= iCacheSize

\* Where every node is: free, or in a list or the cache of one.
Placed(h, ns, place, of) ==
    /\ place \in [Nodes -> {"free", "list", "cache"}] /\ of \in [Nodes -> Lists]
    /\ \A q \in Nodes : q \in h.free <=> place[q] = "free"
    /\ \A l \in Lists : \A q \in Nodes :
          /\ Inside(ns[l], q) <=> place[q] = "list" /\ of[q] = l
          /\ Inside(h.cache[l], q) <=> place[q] = "cache" /\ of[q] = l

\* The objects of the nodes.
Shows(h, s, c) == Len(c) = Len(s) /\ \A k \in 1..Len(s) : c[k] = h.data[s[k]]

\* The memory h is lists of the nodes ns with the objects c, and every node is where place and of say.
Stands(h, c, ns, place, of) ==
    /\ IsHeap(h) /\ c \in [Lists -> Seq(Data)]
    /\ Chained(h, ns) /\ Caches(h) /\ Placed(h, ns, place, of)
    /\ \A l \in Lists : Shows(h, ns[l], c[l])

\* Where the node of an addition comes from.
LEMMA NewNodeIs ==
    ASSUME NEW h, IsHeap(h), NEW l \in Lists, NEW n, n = Listing!NewNode(h, l)
    PROVE  /\ h.cache[l] # <<>> => n = Head(h.cache[l]) /\ n \in Nodes
           /\ h.cache[l] = <<>> /\ h.free # {} => n \in h.free /\ n \in Nodes
           /\ h.cache[l] = <<>> /\ h.free = {} => n = Null
<1>1. h.cache[l] \in Seq(Nodes) /\ h.free \subseteq Nodes
  BY DEF IsHeap
<1>2. h.cache[l] # <<>> => Head(h.cache[l]) \in Nodes
  BY <1>1, HeadTailProperties
<1>3. h.free # {} => (CHOOSE q \in h.free : TRUE) \in h.free
  OBVIOUS
<1> QED BY <1>1, <1>2, <1>3 DEF Listing!NewNode

\* g is h with the link at p set to n.
IsNextSet(h, p, n, g) ==
    /\ IsHeap(g) /\ g.next = [h.next EXCEPT ![p] = n]
    /\ g.first = h.first /\ g.last = h.last /\ g.count = h.count
        /\ g.cache = h.cache /\ g.prev = h.prev /\ g.data = h.data /\ g.free = h.free

\* One link is set.
LEMMA NextSet ==
    ASSUME NEW h, IsHeap(h), NEW p \in Nodes, NEW n \in Nodes \cup {Null}, NEW g, g = [h EXCEPT !.next[p] = n]
    PROVE  IsNextSet(h, p, n, g)
<1>1. IsHeap(g)
  BY DEF IsHeap
<1>2. g.next = [h.next EXCEPT ![p] = n] /\ g.first = h.first /\ g.last = h.last /\ g.count = h.count
        /\ g.cache = h.cache /\ g.prev = h.prev /\ g.data = h.data /\ g.free = h.free
  BY DEF IsHeap
<1> QED BY <1>1, <1>2 DEF IsNextSet

\* g is h with the link back at p set to n.
IsPrevSet(h, p, n, g) ==
    /\ IsHeap(g) /\ g.prev = [h.prev EXCEPT ![p] = n]
    /\ g.first = h.first /\ g.last = h.last /\ g.count = h.count
        /\ g.cache = h.cache /\ g.next = h.next /\ g.data = h.data /\ g.free = h.free

\* One link back is set.
LEMMA PrevSet ==
    ASSUME NEW h, IsHeap(h), NEW p \in Nodes, NEW n \in Nodes \cup {Null}, NEW g, g = [h EXCEPT !.prev[p] = n]
    PROVE  IsPrevSet(h, p, n, g)
<1>1. IsHeap(g)
  BY DEF IsHeap
<1>2. g.prev = [h.prev EXCEPT ![p] = n] /\ g.first = h.first /\ g.last = h.last /\ g.count = h.count
        /\ g.cache = h.cache /\ g.next = h.next /\ g.data = h.data /\ g.free = h.free
  BY DEF IsHeap
<1> QED BY <1>1, <1>2 DEF IsPrevSet

\* g is h with another cache of l.
IsCacheSet(h, l, s, g) ==
    /\ IsHeap(g) /\ g.cache = [h.cache EXCEPT ![l] = s]
    /\ g.first = h.first /\ g.last = h.last /\ g.count = h.count
        /\ g.next = h.next /\ g.prev = h.prev /\ g.data = h.data /\ g.free = h.free

\* One cache is replaced.
LEMMA CacheSet ==
    ASSUME NEW h, IsHeap(h), NEW l \in Lists, NEW s \in Seq(Nodes), NEW g, g = [h EXCEPT !.cache[l] = s]
    PROVE  IsCacheSet(h, l, s, g)
<1>1. IsHeap(g)
  BY DEF IsHeap
<1>2. g.cache = [h.cache EXCEPT ![l] = s] /\ g.first = h.first /\ g.last = h.last /\ g.count = h.count
        /\ g.next = h.next /\ g.prev = h.prev /\ g.data = h.data /\ g.free = h.free
  BY DEF IsHeap
<1> QED BY <1>1, <1>2 DEF IsCacheSet

\* g is h without n in the cache or among the free nodes.
IsTaken(h, l, n, g) ==
    /\ IsHeap(g)
    /\ g.first = h.first /\ g.last = h.last /\ g.count = h.count
    /\ g.next = h.next /\ g.prev = h.prev /\ g.data = h.data
    /\ h.cache[l] # <<>> => /\ g.cache = [h.cache EXCEPT ![l] = Tail(h.cache[l])]
                            /\ g.free = h.free
    /\ h.cache[l] = <<>> => g.cache = h.cache /\ g.free = h.free \ {n}

\* Where the node was, it is no more.
LEMMA RemoveFromCacheIs ==
    ASSUME NEW h, IsHeap(h), NEW l \in Lists, NEW n, n = Listing!NewNode(h, l), n # Null,
           NEW g, g = Listing!RemoveFromCache(h, l)
    PROVE  IsTaken(h, l, n, g)
<1>1. CASE h.cache[l] # <<>>
  <2>1. g = [h EXCEPT !.cache[l] = Tail(h.cache[l])]
    BY <1>1 DEF Listing!RemoveFromCache
  <2>2. Tail(h.cache[l]) \in Seq(Nodes)
    BY <1>1, HeadTailProperties DEF IsHeap
  <2>3. IsCacheSet(h, l, Tail(h.cache[l]), g)
    BY <2>1, <2>2, CacheSet
  <2> QED BY <1>1, <2>3 DEF IsCacheSet, IsTaken
<1>2. CASE h.cache[l] = <<>>
  <2>1. g = [h EXCEPT !.free = h.free \ {n}]
    BY <1>2 DEF Listing!RemoveFromCache
  <2>2. IsHeap(g)
    BY <2>1 DEF IsHeap
  <2>3. /\ g.first = h.first /\ g.last = h.last /\ g.count = h.count /\ g.cache = h.cache
        /\ g.next = h.next /\ g.prev = h.prev /\ g.data = h.data /\ g.free = h.free \ {n}
    BY <2>1 DEF IsHeap
  <2> QED BY <1>2, <2>2, <2>3 DEF IsTaken
<1> QED BY <1>1, <1>2

\* g is h with the link at p, if that is a node, set to n.
NextIs(h, p, n, g) ==
    /\ IsHeap(g) /\ \A q \in Nodes : g.next[q] = IF q = p THEN n ELSE h.next[q]
    /\ g.first = h.first /\ g.last = h.last /\ g.count = h.count /\ g.cache = h.cache
    /\ g.prev = h.prev /\ g.data = h.data /\ g.free = h.free

\* A link that is set, if there is a node to set it in.
LEMMA SetNextIs ==
    ASSUME NEW h, IsHeap(h), NEW p \in Nodes \cup {Null}, NEW n \in Nodes \cup {Null},
           NEW g, g = Listing!SetNext(h, p, n)
    PROVE  NextIs(h, p, n, g)
<1>1. CASE p = Null
  BY <1>1, ListsAssumed DEF Listing!SetNext, NextIs
<1>2. CASE p # Null
  <2>1. g = [h EXCEPT !.next[p] = n] /\ p \in Nodes
    BY <1>2 DEF Listing!SetNext
  <2>2. IsNextSet(h, p, n, g)
    BY <2>1, NextSet
  <2>3. h.next \in [Nodes -> Nodes \cup {Null}]
    BY DEF IsHeap
  <2>4. \A q \in Nodes : g.next[q] = IF q = p THEN n ELSE h.next[q]
    BY <2>2, <2>3 DEF IsNextSet
  <2> QED BY <2>2, <2>4 DEF IsNextSet, NextIs
<1> QED BY <1>1, <1>2

\* g is h with the link back at p, if that is a node, set to n.
PrevIs(h, p, n, g) ==
    /\ IsHeap(g) /\ \A q \in Nodes : g.prev[q] = IF q = p THEN n ELSE h.prev[q]
    /\ g.first = h.first /\ g.last = h.last /\ g.count = h.count /\ g.cache = h.cache
    /\ g.next = h.next /\ g.data = h.data /\ g.free = h.free

\* The same for the links back.
LEMMA SetPrevIs ==
    ASSUME NEW h, IsHeap(h), NEW p \in Nodes \cup {Null}, NEW n \in Nodes \cup {Null},
           NEW g, g = Listing!SetPrev(h, p, n)
    PROVE  PrevIs(h, p, n, g)
<1>1. CASE p = Null
  BY <1>1, ListsAssumed DEF Listing!SetPrev, PrevIs
<1>2. CASE p # Null
  <2>1. g = [h EXCEPT !.prev[p] = n] /\ p \in Nodes
    BY <1>2 DEF Listing!SetPrev
  <2>2. IsPrevSet(h, p, n, g)
    BY <2>1, PrevSet
  <2>3. h.prev \in [Nodes -> Nodes \cup {Null}]
    BY DEF IsHeap
  <2>4. \A q \in Nodes : g.prev[q] = IF q = p THEN n ELSE h.prev[q]
    BY <2>2, <2>3 DEF IsPrevSet
  <2> QED BY <2>2, <2>4 DEF IsPrevSet, PrevIs
<1> QED BY <1>1, <1>2

\* g is h with n in l between before and behind.
IsLinked(h, l, x, before, behind, n, g) ==
    /\ IsHeap(g) /\ n \in Nodes
    /\ \A q \in Nodes : g.next[q] = IF q = before THEN n ELSE IF q = n THEN behind ELSE h.next[q]
    /\ \A q \in Nodes : g.prev[q] = IF q = behind THEN n ELSE IF q = n THEN before ELSE h.prev[q]
    /\ g.data = [h.data EXCEPT ![n] = x]
    /\ g.first = [h.first EXCEPT ![l] = IF before = Null THEN n ELSE h.first[l]]
    /\ g.last = [h.last EXCEPT ![l] = IF behind = Null THEN n ELSE h.last[l]]
    /\ g.count = [h.count EXCEPT ![l] = h.count[l] + 1]
    /\ h.cache[l] # <<>> => /\ g.cache = [h.cache EXCEPT ![l] = Tail(h.cache[l])]
                            /\ g.free = h.free /\ n = Head(h.cache[l])
    /\ h.cache[l] = <<>> => g.cache = h.cache /\ g.free = h.free \ {n} /\ n \in h.free

\* What Link does to each field.
LEMMA LinkIs ==
    ASSUME NEW h, IsHeap(h), NEW l \in Lists, NEW x \in Data,
           NEW before \in Nodes \cup {Null}, NEW behind \in Nodes \cup {Null},
           NEW n, n = Listing!NewNode(h, l), n # Null,
           NEW g, g = Listing!Link(h, l, x, before, behind)
    PROVE  IsLinked(h, l, x, before, behind, n, g)
<1>1. PICK r : r = Listing!RemoveFromCache(h, l)
  OBVIOUS
<1>2. n \in Nodes
  BY NewNodeIs
<1>3. PICK f : f = [r EXCEPT !.data[n] = x, !.prev[n] = before, !.next[n] = behind,
                             !.first[l] = IF before = Null THEN n ELSE @,
                             !.last[l] = IF behind = Null THEN n ELSE @,
                             !.count[l] = @ + 1]
  OBVIOUS
<1>4. PICK d : d = Listing!SetNext(f, before, n)
  OBVIOUS
<1>5. g = Listing!SetPrev(d, behind, n)
  BY <1>1, <1>3, <1>4 DEF Listing!Link
<1>6. /\ IsHeap(r)
      /\ r.first = h.first /\ r.last = h.last /\ r.count = h.count
      /\ r.next = h.next /\ r.prev = h.prev /\ r.data = h.data
      /\ h.cache[l] # <<>> => r.cache = [h.cache EXCEPT ![l] = Tail(h.cache[l])] /\ r.free = h.free
      /\ h.cache[l] = <<>> => r.cache = h.cache /\ r.free = h.free \ {n}
  <2>1. IsTaken(h, l, n, r)
    BY <1>1, RemoveFromCacheIs
  <2> QED BY <2>1 DEF IsTaken
<1>7. /\ IsHeap(f)
      /\ f.first = [h.first EXCEPT ![l] = IF before = Null THEN n ELSE h.first[l]]
      /\ f.last = [h.last EXCEPT ![l] = IF behind = Null THEN n ELSE h.last[l]]
      /\ f.count = [h.count EXCEPT ![l] = h.count[l] + 1]
      /\ f.next = [h.next EXCEPT ![n] = behind] /\ f.prev = [h.prev EXCEPT ![n] = before]
      /\ f.data = [h.data EXCEPT ![n] = x] /\ f.cache = r.cache /\ f.free = r.free
  <2>1. IsHeap(f)
    <3>1. /\ (IF before = Null THEN n ELSE r.first[l]) \in Nodes \cup {Null}
          /\ (IF behind = Null THEN n ELSE r.last[l]) \in Nodes \cup {Null} /\ r.count[l] + 1 \in Int
      BY <1>2, <1>6 DEF IsHeap
    <3>2. f = [r EXCEPT !.data[n] = x, !.prev[n] = before, !.next[n] = behind,
                        !.first[l] = IF before = Null THEN n ELSE r.first[l],
                        !.last[l] = IF behind = Null THEN n ELSE r.last[l],
                        !.count[l] = r.count[l] + 1]
      BY <1>3, <1>6 DEF IsHeap
    <3>3. PICK newFirst : newFirst = IF before = Null THEN n ELSE r.first[l]
      OBVIOUS
    <3>4. PICK newLast : newLast = IF behind = Null THEN n ELSE r.last[l]
      OBVIOUS
    <3>5. PICK newCount : newCount = r.count[l] + 1
      OBVIOUS
    <3>6. f = [r EXCEPT !.data[n] = x, !.prev[n] = before, !.next[n] = behind,
                        !.first[l] = newFirst, !.last[l] = newLast, !.count[l] = newCount]
      BY <3>2, <3>3, <3>4, <3>5
    <3>7. newFirst \in Nodes \cup {Null} /\ newLast \in Nodes \cup {Null} /\ newCount \in Int
      BY <3>1, <3>3, <3>4, <3>5
    <3>8. IsHeap(r)
      BY <1>6
    <3> QED BY <1>2, <3>6, <3>7, <3>8 DEF IsHeap
  <2>2. /\ f.first = [r.first EXCEPT ![l] = IF before = Null THEN n ELSE r.first[l]]
        /\ f.last = [r.last EXCEPT ![l] = IF behind = Null THEN n ELSE r.last[l]]
        /\ f.count = [r.count EXCEPT ![l] = r.count[l] + 1]
    BY <1>3, <1>6 DEF IsHeap
  <2>3. /\ f.next = [r.next EXCEPT ![n] = behind] /\ f.prev = [r.prev EXCEPT ![n] = before]
        /\ f.data = [r.data EXCEPT ![n] = x] /\ f.cache = r.cache /\ f.free = r.free
    BY <1>3, <1>6 DEF IsHeap
  <2> QED BY <1>6, <2>1, <2>2, <2>3
<1>8. /\ IsHeap(d) /\ \A q \in Nodes : d.next[q] = IF q = before THEN n ELSE f.next[q]
      /\ d.first = f.first /\ d.last = f.last /\ d.count = f.count /\ d.cache = f.cache
      /\ d.prev = f.prev /\ d.data = f.data /\ d.free = f.free
  <2>1. n \in Nodes \cup {Null} /\ IsHeap(f)
    BY <1>2, <1>7, Zenon
  <2>2. NextIs(f, before, n, d)
    BY <1>4, <2>1, SetNextIs
  <2> QED BY <2>2 DEF NextIs
<1>9. /\ IsHeap(g) /\ \A q \in Nodes : g.prev[q] = IF q = behind THEN n ELSE d.prev[q]
      /\ g.first = d.first /\ g.last = d.last /\ g.count = d.count /\ g.cache = d.cache
      /\ g.next = d.next /\ g.data = d.data /\ g.free = d.free
  <2>1. n \in Nodes \cup {Null} /\ IsHeap(d)
    BY <1>2, <1>8, Zenon
  <2>2. PrevIs(d, behind, n, g)
    BY <1>5, <2>1, SetPrevIs
  <2> QED BY <2>2 DEF PrevIs
<1>10. /\ \A q \in Nodes : f.next[q] = IF q = n THEN behind ELSE h.next[q]
       /\ \A q \in Nodes : f.prev[q] = IF q = n THEN before ELSE h.prev[q]
  BY <1>2, <1>7 DEF IsHeap
<1>11. /\ \A q \in Nodes : g.next[q] = IF q = before THEN n ELSE IF q = n THEN behind ELSE h.next[q]
       /\ \A q \in Nodes : g.prev[q] = IF q = behind THEN n ELSE IF q = n THEN before ELSE h.prev[q]
  BY <1>8, <1>9, <1>10
<1>12. /\ h.cache[l] # <<>> => n = Head(h.cache[l])
       /\ h.cache[l] = <<>> => n \in h.free
  BY NewNodeIs
<1> QED BY <1>2, <1>6, <1>7, <1>8, <1>9, <1>11, <1>12 DEF IsLinked

-----------------------------------------------------------------------------
(* A node that is added to a list. *)

\* t is s without its first node.
IsTailOf(s, t) ==
    /\ Once(t) /\ t \in Seq(Nodes) /\ Len(t) = Len(s) - 1 /\ Len(s) \in Nat \ {0}
    /\ Inside(s, Head(s))
    /\ \A q : Inside(t, q) <=> Inside(s, q) /\ q # Head(s)

\* Without the first node there is still no repetition.
LEMMA OnceTail ==
    ASSUME NEW s \in Seq(Nodes), Once(s), s # <<>>, NEW t, t = Tail(s)
    PROVE  IsTailOf(s, t)
<1>1. /\ t \in Seq(Nodes) /\ Len(t) = Len(s) - 1 /\ Len(s) \in Nat \ {0}
      /\ \A k \in 1..Len(t) : t[k] = s[k + 1]
      /\ Head(s) = s[1]
  BY HeadTailProperties
<1>2. Once(t)
  <2> SUFFICES ASSUME NEW a \in 1..Len(t), NEW b \in 1..Len(t), t[a] = t[b] PROVE a = b
    BY DEF Once
  <2>1. a + 1 \in 1..Len(s) /\ b + 1 \in 1..Len(s) /\ s[a + 1] = s[b + 1]
    BY <1>1
  <2>2. a + 1 = b + 1
    BY <2>1 DEF Once
  <2> QED BY <2>2
<1>3. Inside(s, Head(s))
  BY <1>1 DEF Inside
<1>4. ASSUME NEW q, Inside(t, q) PROVE Inside(s, q) /\ q # Head(s)
  <2>1. PICK k \in 1..Len(t) : t[k] = q
    BY <1>4 DEF Inside
  <2>2. k + 1 \in 1..Len(s) /\ s[k + 1] = q /\ 1 \in 1..Len(s) /\ k + 1 # 1
    BY <1>1, <2>1
  <2>3. s[k + 1] # s[1]
    BY <2>2 DEF Once
  <2> QED BY <1>1, <2>2, <2>3 DEF Inside
<1>5. ASSUME NEW q, Inside(s, q), q # Head(s) PROVE Inside(t, q)
  <2>1. PICK k \in 1..Len(s) : s[k] = q
    BY <1>5 DEF Inside
  <2>2. k # 1
    BY <1>1, <1>5, <2>1
  <2>3. k - 1 \in 1..Len(t) /\ (k - 1) + 1 = k
    BY <1>1, <2>2
  <2>4. t[k - 1] = q
    BY <1>1, <2>1, <2>3
  <2> QED BY <2>3, <2>4 DEF Inside
<1> QED BY <1>1, <1>2, <1>3, <1>4, <1>5 DEF IsTailOf

\* n gets the object x.
DataPut(h, n, x, g) == h.data \in [Nodes -> Data \cup {Null}] /\ g.data = [h.data EXCEPT ![n] = x]

\* The objects of a chain with a node in it.
LEMMA ShowsInserted ==
    ASSUME NEW s \in Seq(Nodes), NEW c \in Seq(Data), NEW h, Shows(h, s, c), NEW n \in Nodes, ~Inside(s, n),
           NEW j \in 0..Len(s), NEW x \in Data, NEW g, DataPut(h, n, x, g),
           NEW t, t = Insertion(s, j, n), NEW d, d = Insertion(c, j, x)
    PROVE  Shows(g, t, d) /\ d \in Seq(Data)
<1>1. Len(c) = Len(s) /\ j \in 0..Len(c) /\ \A k \in 1..Len(s) : c[k] = h.data[s[k]]
  BY DEF Shows
<1> USE DEF DataPut
<1>2. HasInserted(s, j, n, t) /\ HasInserted(c, j, x, d) /\ d \in Seq(Data) /\ t \in Seq(Nodes)
  <2>1. HasInserted(s, j, n, t) /\ t \in Seq(Nodes)
    BY InsertionIs, Zenon
  <2>2. HasInserted(c, j, x, d) /\ d \in Seq(Data)
    BY <1>1, InsertionIs, Zenon
  <2> QED BY <2>1, <2>2
<1>3. ASSUME NEW k \in 1..Len(s) PROVE g.data[s[k]] = c[k]
  <2>1. s[k] # n /\ s[k] \in Nodes
    BY DEF Inside
  <2> QED BY <1>1, <2>1
<1>4. g.data[n] = x
  OBVIOUS
<1>5. ASSUME NEW k \in 1..Len(t) PROVE d[k] = g.data[t[k]]
  <2>1. \/ k <= j /\ k \in 1..Len(s) /\ t[k] = s[k]
        \/ k = j + 1 /\ t[k] = n
        \/ k > j + 1 /\ k - 1 \in 1..Len(s) /\ t[k] = s[k - 1]
    BY <1>2 DEF HasInserted
  <2>2. /\ \A i0 \in 1..j : d[i0] = c[i0]
        /\ d[j + 1] = x
        /\ \A i0 \in j + 1..Len(c) : d[i0 + 1] = c[i0]
    BY <1>2 DEF HasInserted
  <2>3. CASE k <= j /\ k \in 1..Len(s) /\ t[k] = s[k]
    <3>1. k \in 1..j
      BY <2>3
    <3>2. d[k] = c[k]
      BY <2>2, <3>1
    <3> QED BY <1>3, <2>3, <3>2
  <2>4. CASE k = j + 1 /\ t[k] = n
    BY <1>4, <2>2, <2>4
  <2>5. CASE k > j + 1 /\ k - 1 \in 1..Len(s) /\ t[k] = s[k - 1]
    <3>1. k - 1 \in j + 1..Len(c) /\ (k - 1) + 1 = k
      BY <1>1, <2>5
    <3>2. d[k] = c[k - 1]
      BY <2>2, <3>1
    <3> QED BY <1>3, <2>5, <3>2
  <2> QED BY <2>1, <2>3, <2>4, <2>5
<1>6. Len(d) = Len(t)
  BY <1>1, <1>2 DEF HasInserted
<1> QED BY <1>2, <1>5, <1>6 DEF Shows

\* Lists that an operation leaves alone.
LEMMA OthersStand ==
    ASSUME NEW h, NEW g, NEW s \in Seq(Nodes), NEW d, Linked(h.next, h.prev, s), Shows(h, s, d),
           \A q \in Nodes : Inside(s, q) => /\ g.next[q] = h.next[q] /\ g.prev[q] = h.prev[q]
                                            /\ g.data[q] = h.data[q]
    PROVE  Linked(g.next, g.prev, s) /\ Shows(g, s, d)
<1>1. \A k \in 1..Len(s) : s[k] \in Nodes /\ Inside(s, s[k])
  BY DEF Inside
<1>2. Linked(g.next, g.prev, s)
  BY ChainUntouched
<1>3. Shows(g, s, d)
  BY <1>1 DEF Shows
<1> QED BY <1>2, <1>3

\* What standing says of one list.
LEMMA StandsOf ==
    ASSUME NEW h, NEW c, NEW ns, NEW place, NEW of, Stands(h, c, ns, place, of), NEW l \in Lists
    PROVE  /\ ns[l] \in Seq(Nodes) /\ Len(ns[l]) \in Nat /\ c[l] \in Seq(Data) /\ Len(c[l]) = Len(ns[l])
           /\ Once(ns[l]) /\ Linked(h.next, h.prev, ns[l]) /\ Shows(h, ns[l], c[l])
           /\ h.first[l] = NodeAt(ns[l], 1) /\ h.last[l] = NodeAt(ns[l], Len(ns[l]))
           /\ h.count[l] = Len(ns[l])
           /\ h.cache[l] \in Seq(Nodes) /\ Once(h.cache[l]) /\ Len(h.cache[l]) <= iCacheSize
           /\ \A q \in Nodes : Inside(ns[l], q) <=> place[q] = "list" /\ of[q] = l
           /\ \A q \in Nodes : Inside(h.cache[l], q) <=> place[q] = "cache" /\ of[q] = l
<1>1. IsHeap(h) /\ c \in [Lists -> Seq(Data)] /\ Chained(h, ns) /\ Caches(h) /\ Placed(h, ns, place, of)
      /\ Shows(h, ns[l], c[l])
  BY DEF Stands
<1>2. ns[l] \in Seq(Nodes) /\ c[l] \in Seq(Data) /\ Len(c[l]) = Len(ns[l]) /\ h.cache[l] \in Seq(Nodes)
  BY <1>1 DEF Chained, IsHeap, Shows
<1>3. Len(ns[l]) \in Nat
  BY <1>2
<1>4. /\ Once(ns[l]) /\ Linked(h.next, h.prev, ns[l])
      /\ h.first[l] = NodeAt(ns[l], 1) /\ h.last[l] = NodeAt(ns[l], Len(ns[l]))
      /\ h.count[l] = Len(ns[l])
  BY <1>1 DEF Chained
<1>5. Once(h.cache[l]) /\ Len(h.cache[l]) <= iCacheSize
  BY <1>1 DEF Caches
<1>6. /\ \A q \in Nodes : Inside(ns[l], q) <=> place[q] = "list" /\ of[q] = l
      /\ \A q \in Nodes : Inside(h.cache[l], q) <=> place[q] = "cache" /\ of[q] = l
  BY <1>1 DEF Placed
<1> QED BY <1>1, <1>2, <1>3, <1>4, <1>5, <1>6

\* What standing says of the memory as a whole.
LEMMA StandsAll ==
    ASSUME NEW h, NEW c, NEW ns, NEW place, NEW of, Stands(h, c, ns, place, of)
    PROVE  /\ IsHeap(h) /\ c \in [Lists -> Seq(Data)] /\ ns \in [Lists -> Seq(Nodes)]
           /\ place \in [Nodes -> {"free", "list", "cache"}] /\ of \in [Nodes -> Lists]
           /\ \A q \in Nodes : q \in h.free <=> place[q] = "free"
BY DEF Stands, Chained, Placed

\* The other way round.
LEMMA StandsFrom ==
    ASSUME NEW h, IsHeap(h), NEW c \in [Lists -> Seq(Data)], NEW ns \in [Lists -> Seq(Nodes)],
           NEW place \in [Nodes -> {"free", "list", "cache"}], NEW of \in [Nodes -> Lists],
           \A q \in Nodes : q \in h.free <=> place[q] = "free",
           \A l \in Lists :
               /\ Once(ns[l]) /\ Linked(h.next, h.prev, ns[l]) /\ Shows(h, ns[l], c[l])
               /\ h.first[l] = NodeAt(ns[l], 1) /\ h.last[l] = NodeAt(ns[l], Len(ns[l]))
               /\ h.count[l] = Len(ns[l])
               /\ Once(h.cache[l]) /\ Len(h.cache[l]) <= iCacheSize
               /\ \A q \in Nodes : Inside(ns[l], q) <=> place[q] = "list" /\ of[q] = l
               /\ \A q \in Nodes : Inside(h.cache[l], q) <=> place[q] = "cache" /\ of[q] = l
    PROVE  Stands(h, c, ns, place, of)
BY DEF Stands, Chained, Caches, Placed

\* A node that is linked into a list leaves everything standing.
LEMMA InsertKeeps ==
    ASSUME NEW h, NEW c, NEW ns, NEW place, NEW of, Stands(h, c, ns, place, of),
           NEW l \in Lists, NEW x \in Data, NEW j \in 0..Len(ns[l]),
           NEW n, n = Listing!NewNode(h, l), n # Null,
           NEW g, g = Listing!Link(h, l, x, NodeAt(ns[l], j), NodeAt(ns[l], j + 1)),
           NEW c2, c2 = [c EXCEPT ![l] = Insertion(c[l], j, x)],
           NEW ns2, ns2 = [ns EXCEPT ![l] = Insertion(ns[l], j, n)]
    PROVE  Stands(g, c2, ns2, [place EXCEPT ![n] = "list"], [of EXCEPT ![n] = l])
<1>1. /\ IsHeap(h) /\ c \in [Lists -> Seq(Data)] /\ ns \in [Lists -> Seq(Nodes)]
      /\ place \in [Nodes -> {"free", "list", "cache"}] /\ of \in [Nodes -> Lists]
      /\ \A q \in Nodes : q \in h.free <=> place[q] = "free"
  BY StandsAll
<1>2. /\ ns[l] \in Seq(Nodes) /\ Len(ns[l]) \in Nat /\ c[l] \in Seq(Data) /\ Len(c[l]) = Len(ns[l])
      /\ Once(ns[l]) /\ Linked(h.next, h.prev, ns[l]) /\ Shows(h, ns[l], c[l])
      /\ h.first[l] = NodeAt(ns[l], 1) /\ h.last[l] = NodeAt(ns[l], Len(ns[l]))
      /\ h.count[l] = Len(ns[l])
  BY StandsOf
<1>3. PICK before, behind : before = NodeAt(ns[l], j) /\ behind = NodeAt(ns[l], j + 1)
  OBVIOUS
<1>4. /\ before \in Nodes \cup {Null} /\ behind \in Nodes \cup {Null}
      /\ before = Null <=> j = 0
      /\ behind = Null <=> j = Len(ns[l])
      /\ before # Null => Inside(ns[l], before)
      /\ behind # Null => Inside(ns[l], behind)
  <2>1. j \in Int /\ j + 1 \in Int
    BY <1>2
  <2>2. /\ NodeAt(ns[l], j) = Null <=> j \notin 1..Len(ns[l])
        /\ NodeAt(ns[l], j + 1) = Null <=> j + 1 \notin 1..Len(ns[l])
        /\ NodeAt(ns[l], j) \in Nodes \cup {Null} /\ NodeAt(ns[l], j + 1) \in Nodes \cup {Null}
        /\ j \in 1..Len(ns[l]) => NodeAt(ns[l], j) = ns[l][j]
        /\ j + 1 \in 1..Len(ns[l]) => NodeAt(ns[l], j + 1) = ns[l][j + 1]
    BY <1>2, <2>1, NodeAtTyped
  <2> QED BY <1>2, <1>3, <2>2 DEF Inside
<1>5. IsLinked(h, l, x, before, behind, n, g)
  BY <1>1, <1>3, <1>4, LinkIs
<1>6. /\ n \in Nodes /\ IsHeap(g)
      /\ \A q \in Nodes : g.next[q] = IF q = before THEN n ELSE IF q = n THEN behind ELSE h.next[q]
      /\ \A q \in Nodes : g.prev[q] = IF q = behind THEN n ELSE IF q = n THEN before ELSE h.prev[q]
      /\ g.data = [h.data EXCEPT ![n] = x]
      /\ g.first = [h.first EXCEPT ![l] = IF before = Null THEN n ELSE h.first[l]]
      /\ g.last = [h.last EXCEPT ![l] = IF behind = Null THEN n ELSE h.last[l]]
      /\ g.count = [h.count EXCEPT ![l] = h.count[l] + 1]
  BY <1>5 DEF IsLinked
<1>7. /\ h.cache[l] # <<>> => /\ g.cache = [h.cache EXCEPT ![l] = Tail(h.cache[l])]
                              /\ g.free = h.free /\ n = Head(h.cache[l])
      /\ h.cache[l] = <<>> => g.cache = h.cache /\ g.free = h.free \ {n} /\ n \in h.free
  BY <1>5 DEF IsLinked
<1>8. /\ h.first \in [Lists -> Nodes \cup {Null}] /\ h.last \in [Lists -> Nodes \cup {Null}]
      /\ h.count \in [Lists -> Int] /\ h.cache \in [Lists -> Seq(Nodes)]
      /\ h.data \in [Nodes -> Data \cup {Null}]
  BY <1>1 DEF IsHeap
<1>9. /\ h.cache[l] # <<>> => /\ Once(Tail(h.cache[l])) /\ Len(Tail(h.cache[l])) <= iCacheSize
                              /\ place[n] = "cache" /\ of[n] = l
                              /\ \A q : Inside(Tail(h.cache[l]), q) <=> Inside(h.cache[l], q) /\ q # n
      /\ h.cache[l] = <<>> => place[n] = "free"
  <2>1. CASE h.cache[l] = <<>>
    BY <1>1, <1>6, <1>7, <2>1
  <2>2. CASE h.cache[l] # <<>>
    <3>1. h.cache[l] \in Seq(Nodes) /\ Once(h.cache[l]) /\ Len(h.cache[l]) <= iCacheSize
          /\ \A q \in Nodes : Inside(h.cache[l], q) <=> place[q] = "cache" /\ of[q] = l
      BY StandsOf
    <3>2. /\ Once(Tail(h.cache[l])) /\ Len(Tail(h.cache[l])) = Len(h.cache[l]) - 1
          /\ Len(h.cache[l]) \in Nat \ {0} /\ Inside(h.cache[l], Head(h.cache[l]))
          /\ \A q : Inside(Tail(h.cache[l]), q) <=> Inside(h.cache[l], q) /\ q # Head(h.cache[l])
      <4>1. PICK s, u : s = h.cache[l] /\ u = Tail(s)
        OBVIOUS
      <4>2. s \in Seq(Nodes) /\ Once(s) /\ s # <<>>
        BY <2>2, <3>1, <4>1
      <4>3. IsTailOf(s, u)
        BY <4>1, <4>2, OnceTail
      <4> QED BY <4>1, <4>3 DEF IsTailOf
    <3>3. n = Head(h.cache[l])
      BY <1>7, <2>2
    <3>4. Len(Tail(h.cache[l])) <= iCacheSize
      BY <3>1, <3>2, ListsAssumed
    <3>5. place[n] = "cache" /\ of[n] = l
      BY <1>6, <3>1, <3>2, <3>3
    <3> QED BY <2>2, <3>2, <3>3, <3>4, <3>5
  <2> QED BY <2>1, <2>2
<1>10. \A m \in Lists : ~Inside(ns[m], n)
  <2> TAKE m \in Lists
  <2>1. Inside(ns[m], n) <=> place[n] = "list" /\ of[n] = m
    BY <1>6, StandsOf
  <2> QED BY <1>9, <2>1
<1>11. PICK t, d : t = Insertion(ns[l], j, n) /\ d = Insertion(c[l], j, x)
  OBVIOUS
<1>12. /\ Once(t) /\ Linked(g.next, g.prev, t)
       /\ NodeAt(t, 1) = IF j = 0 THEN n ELSE NodeAt(ns[l], 1)
       /\ NodeAt(t, Len(t)) = IF j = Len(ns[l]) THEN n ELSE NodeAt(ns[l], Len(ns[l]))
       /\ \A q : Inside(t, q) <=> q = n \/ Inside(ns[l], q)
  <2>1. PICK s : s = ns[l]
    OBVIOUS
  <2>2. /\ s \in Seq(Nodes) /\ Once(s) /\ ~Inside(s, n) /\ j \in 0..Len(s)
        /\ Linked(h.next, h.prev, s) /\ t = Insertion(s, j, n)
    BY <1>2, <1>10, <1>11, <2>1
  <2>3. \A q \in Nodes : g.next[q] = IF q = NodeAt(s, j) THEN n
                                     ELSE IF q = n THEN NodeAt(s, j + 1) ELSE h.next[q]
    BY <1>3, <1>6, <2>1
  <2>4. \A q \in Nodes : g.prev[q] = IF q = NodeAt(s, j + 1) THEN n
                                     ELSE IF q = n THEN NodeAt(s, j) ELSE h.prev[q]
    BY <1>3, <1>6, <2>1
  <2>5. /\ Once(t) /\ Linked(g.next, g.prev, t)
        /\ NodeAt(t, 1) = IF j = 0 THEN n ELSE NodeAt(s, 1)
        /\ NodeAt(t, Len(t)) = IF j = Len(s) THEN n ELSE NodeAt(s, Len(s))
        /\ \A q : Inside(t, q) <=> q = n \/ Inside(s, q)
    <3>1. n \in Nodes
      BY <1>6
    <3>2. Relinked(s, j, n, h.next, h.prev, g.next, g.prev)
      BY <2>3, <2>4 DEF Relinked
    <3>3. IsGrown(s, j, n, t, g.next, g.prev)
      BY <2>2, <3>1, <3>2, ChainInserted
    <3> QED BY <3>3 DEF IsGrown
  <2> QED BY <2>1, <2>5
<1>13. t \in Seq(Nodes) /\ Len(t) = Len(ns[l]) + 1
  <2>1. t \in Seq(Nodes) /\ HasInserted(ns[l], j, n, t)
    BY <1>2, <1>6, <1>11, InsertionIs, Zenon
  <2> QED BY <2>1 DEF HasInserted
<1>14. Shows(g, t, d) /\ d \in Seq(Data)
  <2>1. /\ ns[l] \in Seq(Nodes) /\ c[l] \in Seq(Data) /\ Shows(h, ns[l], c[l]) /\ n \in Nodes
        /\ ~Inside(ns[l], n) /\ DataPut(h, n, x, g)
    BY <1>2, <1>6, <1>8, <1>10 DEF DataPut
  <2>2. PICK s, e : s = ns[l] /\ e = c[l]
    OBVIOUS
  <2>3. /\ s \in Seq(Nodes) /\ e \in Seq(Data) /\ Shows(h, s, e) /\ n \in Nodes
        /\ ~Inside(s, n) /\ j \in 0..Len(s) /\ t = Insertion(s, j, n) /\ d = Insertion(e, j, x)
    BY <1>11, <2>1, <2>2
  <2> QED BY <2>1, <2>3, ShowsInserted
<1>15. /\ c2 \in [Lists -> Seq(Data)] /\ c2[l] = d /\ \A m \in Lists \ {l} : c2[m] = c[m]
       /\ ns2 \in [Lists -> Seq(Nodes)] /\ ns2[l] = t /\ \A m \in Lists \ {l} : ns2[m] = ns[m]
  BY <1>1, <1>11, <1>13, <1>14
<1>16. PICK place2, of2 : place2 = [place EXCEPT ![n] = "list"] /\ of2 = [of EXCEPT ![n] = l]
  OBVIOUS
<1>17. /\ place2 \in [Nodes -> {"free", "list", "cache"}] /\ of2 \in [Nodes -> Lists]
       /\ place2[n] = "list" /\ of2[n] = l
       /\ \A q \in Nodes \ {n} : place2[q] = place[q] /\ of2[q] = of[q]
  BY <1>1, <1>6, <1>16
<1>18. \A q \in Nodes : q \in g.free <=> place2[q] = "free"
  BY <1>1, <1>7, <1>9, <1>17
<1>19. ASSUME NEW m \in Lists
       PROVE  /\ Once(ns2[m]) /\ Linked(g.next, g.prev, ns2[m]) /\ Shows(g, ns2[m], c2[m])
              /\ g.first[m] = NodeAt(ns2[m], 1) /\ g.last[m] = NodeAt(ns2[m], Len(ns2[m]))
              /\ g.count[m] = Len(ns2[m])
              /\ \A q \in Nodes : Inside(ns2[m], q) <=> place2[q] = "list" /\ of2[q] = m
  <2>1. CASE m = l
    <3>1. \A q \in Nodes : Inside(t, q) <=> place2[q] = "list" /\ of2[q] = l
      <4>1. \A q \in Nodes : Inside(ns[l], q) <=> place[q] = "list" /\ of[q] = l
        BY StandsOf
      <4> QED BY <1>12, <1>17, <4>1
    <3>2. g.first[l] = NodeAt(t, 1) /\ g.last[l] = NodeAt(t, Len(t)) /\ g.count[l] = Len(t)
      BY <1>2, <1>4, <1>6, <1>8, <1>12, <1>13
    <3> QED BY <1>12, <1>14, <1>15, <2>1, <3>1, <3>2
  <2>2. CASE m # l
    <3>1. /\ ns2[m] = ns[m] /\ c2[m] = c[m]
      BY <1>15, <2>2
    <3>2. /\ ns[m] \in Seq(Nodes) /\ Once(ns[m]) /\ Linked(h.next, h.prev, ns[m]) /\ Shows(h, ns[m], c[m])
          /\ h.first[m] = NodeAt(ns[m], 1) /\ h.last[m] = NodeAt(ns[m], Len(ns[m]))
          /\ h.count[m] = Len(ns[m])
          /\ \A q \in Nodes : Inside(ns[m], q) <=> place[q] = "list" /\ of[q] = m
      BY StandsOf
    <3>3. \A q \in Nodes : Inside(ns[m], q) => q # n /\ q # before /\ q # behind
      <4>1. \A q \in Nodes : Inside(ns[l], q) <=> place[q] = "list" /\ of[q] = l
        BY StandsOf
      <4>2. \A q \in Nodes : ~(Inside(ns[l], q) /\ Inside(ns[m], q))
        BY <2>2, <3>2, <4>1
      <4>3. Null \notin Nodes
        BY ListsAssumed
      <4> QED BY <1>4, <1>10, <4>2, <4>3
    <3>4. \A q \in Nodes : Inside(ns[m], q) => /\ g.next[q] = h.next[q] /\ g.prev[q] = h.prev[q]
                                               /\ g.data[q] = h.data[q]
      BY <1>6, <1>8, <3>3
    <3>5. Linked(g.next, g.prev, ns[m]) /\ Shows(g, ns[m], c[m])
      <4>1. /\ ns[m] \in Seq(Nodes) /\ Linked(h.next, h.prev, ns[m]) /\ Shows(h, ns[m], c[m])
        BY <3>2
      <4> QED BY <3>4, <4>1, OthersStand, Zenon
    <3>6. g.first[m] = h.first[m] /\ g.last[m] = h.last[m] /\ g.count[m] = h.count[m]
      BY <1>6, <1>8, <2>2
    <3>7. \A q \in Nodes : Inside(ns[m], q) <=> place2[q] = "list" /\ of2[q] = m
      BY <1>10, <1>17, <2>2, <3>2
    <3> QED BY <3>1, <3>2, <3>5, <3>6, <3>7
  <2> QED BY <2>1, <2>2
<1>20. ASSUME NEW m \in Lists
       PROVE  /\ Once(g.cache[m]) /\ Len(g.cache[m]) <= iCacheSize
              /\ \A q \in Nodes : Inside(g.cache[m], q) <=> place2[q] = "cache" /\ of2[q] = m
  <2>1. /\ Once(h.cache[m]) /\ Len(h.cache[m]) <= iCacheSize
        /\ \A q \in Nodes : Inside(h.cache[m], q) <=> place[q] = "cache" /\ of[q] = m
    BY StandsOf
  <2>2. CASE h.cache[l] # <<>> /\ m = l
    <3>1. g.cache[m] = Tail(h.cache[m])
      BY <1>7, <1>8, <2>2
    <3> QED BY <1>9, <1>17, <2>1, <2>2, <3>1
  <2>3. CASE ~(h.cache[l] # <<>> /\ m = l)
    <3>1. g.cache[m] = h.cache[m]
      BY <1>7, <1>8, <2>3
    <3>2. ~(place[n] = "cache" /\ of[n] = m)
      BY <1>9, <2>3
    <3> QED BY <1>6, <1>17, <2>1, <3>1, <3>2
  <2> QED BY <2>2, <2>3
<1>21. Stands(g, c2, ns2, place2, of2)
  BY <1>6, <1>15, <1>17, <1>18, <1>19, <1>20, StandsFrom
<1> QED BY <1>16, <1>21

-----------------------------------------------------------------------------
(* Sequences of objects: what the operations promise. *)

\* u is the first j of s.
IsPrefixOf(s, j, u) == Len(u) = j /\ \A k \in 1..j : u[k] = s[k]
\* u is what follows the first j of s.
IsSuffixOf(s, j, u) == Len(u) = Len(s) - j /\ \A k \in 1..Len(s) - j : u[k] = s[j + k]

\* What Prefix returns.
LEMMA PrefixIs ==
    ASSUME NEW S, NEW s \in Seq(S), NEW j \in 0..Len(s), NEW u, u = Listing!Prefix(s, j)
    PROVE  u \in Seq(S) /\ IsPrefixOf(s, j, u)
<1>1. Len(s) \in Nat /\ j \in Int /\ \A k \in 1..j : s[k] \in S
  OBVIOUS
<1>2. u = SubSeq(s, 1, j)
  BY DEF Listing!Prefix
<1>3. /\ SubSeq(s, 1, j) \in Seq(S)
      /\ Len(SubSeq(s, 1, j)) = IF 1 <= j THEN j - 1 + 1 ELSE 0
      /\ \A k \in 1..j - 1 + 1 : SubSeq(s, 1, j)[k] = s[1 + k - 1]
  BY <1>1, SubSeqProperties
<1>4. Len(u) = j
  BY <1>1, <1>2, <1>3
<1>5. ASSUME NEW k \in 1..j PROVE u[k] = s[k]
  <2>1. k \in 1..j - 1 + 1 /\ 1 + k - 1 = k
    BY <1>1
  <2> QED BY <1>2, <1>3, <2>1
<1> QED BY <1>2, <1>3, <1>4, <1>5 DEF IsPrefixOf

\* What Suffix returns.
LEMMA SuffixIs ==
    ASSUME NEW S, NEW s \in Seq(S), NEW j \in 0..Len(s), NEW u, u = Listing!Suffix(s, j)
    PROVE  u \in Seq(S) /\ IsSuffixOf(s, j, u)
<1>1. Len(s) \in Nat /\ j \in Int /\ j + 1 \in Int /\ Len(s) \in Int /\ \A k \in j + 1..Len(s) : s[k] \in S
  OBVIOUS
<1>2. u = SubSeq(s, j + 1, Len(s))
  BY DEF Listing!Suffix
<1>3. /\ SubSeq(s, j + 1, Len(s)) \in Seq(S)
      /\ Len(SubSeq(s, j + 1, Len(s))) = IF j + 1 <= Len(s) THEN Len(s) - (j + 1) + 1 ELSE 0
      /\ \A k \in 1..Len(s) - (j + 1) + 1 : SubSeq(s, j + 1, Len(s))[k] = s[(j + 1) + k - 1]
  BY <1>1, SubSeqProperties
<1>4. Len(u) = Len(s) - j
  BY <1>1, <1>2, <1>3
<1>5. ASSUME NEW k \in 1..Len(s) - j PROVE u[k] = s[j + k]
  <2>1. k \in 1..Len(s) - (j + 1) + 1 /\ (j + 1) + k - 1 = j + k
    BY <1>1
  <2> QED BY <1>2, <1>3, <2>1
<1> QED BY <1>2, <1>3, <1>4, <1>5 DEF IsSuffixOf

\* u is s with t after its first j.
IsSplice(s, j, t, u) ==
    /\ Len(u) = Len(s) + Len(t)
    /\ \A k \in 1..Len(u) : u[k] = IF k <= j THEN s[k] ELSE IF k <= j + Len(t) THEN t[k - j] ELSE s[k - Len(t)]

\* What Splice returns.
LEMMA SpliceIs ==
    ASSUME NEW S, NEW s \in Seq(S), NEW t \in Seq(S), NEW j \in 0..Len(s), NEW u, u = Listing!Splice(s, j, t)
    PROVE  u \in Seq(S) /\ IsSplice(s, j, t, u)
<1>1. PICK a, b : a = Listing!Prefix(s, j) /\ b = Listing!Suffix(s, j)
  OBVIOUS
<1>2. a \in Seq(S) /\ Len(a) = j /\ \A k \in 1..j : a[k] = s[k]
  <2>1. a \in Seq(S) /\ IsPrefixOf(s, j, a)
    BY <1>1, PrefixIs
  <2> QED BY <2>1 DEF IsPrefixOf
<1>3. b \in Seq(S) /\ Len(b) = Len(s) - j /\ \A k \in 1..Len(s) - j : b[k] = s[j + k]
  <2>1. b \in Seq(S) /\ IsSuffixOf(s, j, b)
    BY <1>1, SuffixIs
  <2> QED BY <2>1 DEF IsSuffixOf
<1>4. u = a \o t \o b
  BY <1>1 DEF Listing!Splice
<1>5. PICK v : v = a \o t
  OBVIOUS
<1>6. /\ v \in Seq(S) /\ Len(v) = Len(a) + Len(t)
      /\ \A k \in 1..Len(a) + Len(t) : v[k] = IF k <= Len(a) THEN a[k] ELSE t[k - Len(a)]
  BY <1>2, <1>5, ConcatProperties
<1>7. /\ u \in Seq(S) /\ Len(u) = Len(v) + Len(b)
      /\ \A k \in 1..Len(v) + Len(b) : u[k] = IF k <= Len(v) THEN v[k] ELSE b[k - Len(v)]
  <2>1. u = v \o b
    BY <1>4, <1>5
  <2> QED BY <1>3, <1>6, <2>1, ConcatProperties
<1>8. Len(s) \in Nat /\ Len(t) \in Nat /\ j \in Nat /\ j <= Len(s)
  OBVIOUS
<1>9. Len(u) = Len(s) + Len(t) /\ Len(v) = j + Len(t)
  BY <1>2, <1>3, <1>6, <1>7, <1>8
<1>10. ASSUME NEW k \in 1..Len(u)
       PROVE  u[k] = IF k <= j THEN s[k] ELSE IF k <= j + Len(t) THEN t[k - j] ELSE s[k - Len(t)]
  <2>0. k \in 1..Len(v) + Len(b) /\ k \in Int /\ k <= Len(s) + Len(t)
    BY <1>7, <1>8, <1>9
  <2>1. CASE k <= j
    <3>1. k \in 1..j /\ k <= Len(v) /\ k \in 1..Len(a) + Len(t) /\ k <= Len(a)
      BY <1>2, <1>8, <1>9, <2>0, <2>1
    <3>2. u[k] = v[k] /\ v[k] = a[k] /\ a[k] = s[k]
      BY <1>2, <1>6, <1>7, <2>0, <3>1
    <3> QED BY <2>1, <3>2
  <2>2. CASE k > j /\ k <= j + Len(t)
    <3>1. k <= Len(v) /\ k \in 1..Len(a) + Len(t) /\ ~(k <= Len(a)) /\ ~(k <= j)
      BY <1>2, <1>8, <1>9, <2>0, <2>2
    <3>2. u[k] = v[k] /\ v[k] = t[k - j]
      BY <1>2, <1>6, <1>7, <2>0, <3>1
    <3> QED BY <2>2, <3>1, <3>2
  <2>3. CASE k > j + Len(t)
    <3>1. ~(k <= Len(v)) /\ ~(k <= j) /\ ~(k <= j + Len(t)) /\ k - Len(v) \in 1..Len(s) - j
          /\ j + (k - Len(v)) = k - Len(t)
      BY <1>8, <1>9, <2>0, <2>3
    <3>2. u[k] = b[k - Len(v)]
      BY <1>7, <2>0, <3>1
    <3>3. b[k - Len(v)] = s[j + (k - Len(v))]
      BY <1>3, <3>1
    <3> QED BY <3>1, <3>2, <3>3
  <2> QED BY <1>8, <2>0, <2>1, <2>2, <2>3
<1> QED BY <1>7, <1>9, <1>10 DEF IsSplice

\* Nothing is put in.
LEMMA SpliceNone ==
    ASSUME NEW S, NEW s \in Seq(S), NEW j \in 0..Len(s)
    PROVE  Listing!Splice(s, j, <<>>) = s
<1>1. PICK u : u = Listing!Splice(s, j, <<>>)
  OBVIOUS
<1>2. <<>> \in Seq(S) /\ Len(<<>>) = 0
  BY EmptySeq
<1>3. u \in Seq(S) /\ IsSplice(s, j, <<>>, u)
  BY <1>1, <1>2, SpliceIs
<1>4. Len(s) \in Nat /\ j \in Nat
  OBVIOUS
<1>5. Len(u) = Len(s) + 0 /\ \A k \in 1..Len(u) : u[k] = IF k <= j THEN s[k] ELSE IF k <= j + 0 THEN <<>>[k - j] ELSE s[k - 0]
  BY <1>2, <1>3, Zenon DEF IsSplice
<1>6. ASSUME NEW k \in 1..Len(u) PROVE u[k] = s[k]
  <2>1. k - 0 = k /\ j + 0 = j
    BY <1>4
  <2> QED BY <1>5, <2>1
<1>7. Len(u) = Len(s)
  BY <1>4, <1>5
<1> QED BY <1>1, <1>3, <1>6, <1>7, SeqEqual

\* One more behind what was put in.
LEMMA SpliceBehind ==
    ASSUME NEW S, NEW s \in Seq(S), NEW t \in Seq(S), NEW j \in 0..Len(s), NEW x \in S
    PROVE  Insertion(Listing!Splice(s, j, t), j + Len(t), x) = Listing!Splice(s, j, t \o <<x>>)
<1>1. PICK u, v, w, y : /\ u = Listing!Splice(s, j, t) /\ v = Insertion(u, j + Len(t), x)
                        /\ y = t \o <<x>> /\ w = Listing!Splice(s, j, y)
  OBVIOUS
<1>2. Len(s) \in Nat /\ Len(t) \in Nat /\ j \in Nat /\ j <= Len(s)
  OBVIOUS
<1>3. <<x>> \in Seq(S) /\ Len(<<x>>) = 1 /\ <<x>>[1] = x
  OBVIOUS
<1>4. y \in Seq(S) /\ Len(y) = Len(t) + 1 /\ (\A k \in 1..Len(t) : y[k] = t[k]) /\ y[Len(t) + 1] = x
  <2>1. /\ y \in Seq(S) /\ Len(y) = Len(t) + 1
        /\ \A k \in 1..Len(t) + 1 : y[k] = IF k <= Len(t) THEN t[k] ELSE <<x>>[k - Len(t)]
    BY <1>1, <1>3, ConcatProperties
  <2>2. \A k \in 1..Len(t) : y[k] = t[k]
    BY <1>2, <2>1
  <2>3. Len(t) + 1 \in 1..Len(t) + 1 /\ (Len(t) + 1) - Len(t) = 1 /\ ~(Len(t) + 1 <= Len(t))
    BY <1>2
  <2>4. y[Len(t) + 1] = x
    BY <1>3, <2>1, <2>3
  <2> QED BY <2>1, <2>2, <2>4
<1>5. u \in Seq(S) /\ IsSplice(s, j, t, u)
  BY <1>1, SpliceIs
<1>6. w \in Seq(S) /\ IsSplice(s, j, y, w)
  BY <1>1, <1>4, SpliceIs
<1>7. Len(u) = Len(s) + Len(t) /\ j + Len(t) \in 0..Len(u)
  BY <1>2, <1>5 DEF IsSplice
<1>8. v \in Seq(S) /\ HasInserted(u, j + Len(t), x, v)
  BY <1>1, <1>5, <1>7, InsertionIs, Zenon
<1>9. Len(v) = Len(w) /\ Len(v) = Len(s) + Len(t) + 1
  BY <1>2, <1>4, <1>6, <1>7, <1>8 DEF IsSplice, HasInserted
<1>10. ASSUME NEW k \in 1..Len(v) PROVE v[k] = w[k]
  <2>1. k \in Int /\ k \in 1..Len(w)
    BY <1>9
  <2>2. w[k] = IF k <= j THEN s[k] ELSE IF k <= j + (Len(t) + 1) THEN y[k - j] ELSE s[k - (Len(t) + 1)]
    BY <1>4, <1>6, <2>1 DEF IsSplice
  <2>3. \/ k <= j + Len(t) /\ k \in 1..Len(u) /\ v[k] = u[k]
        \/ k = j + Len(t) + 1 /\ v[k] = x
        \/ k > j + Len(t) + 1 /\ k - 1 \in 1..Len(u) /\ v[k] = u[k - 1]
    BY <1>8 DEF HasInserted
  <2>4. \A i0 \in 1..Len(u) : u[i0] = IF i0 <= j THEN s[i0] ELSE IF i0 <= j + Len(t) THEN t[i0 - j] ELSE s[i0 - Len(t)]
    BY <1>5 DEF IsSplice
  <2>5. CASE k <= j + Len(t) /\ k \in 1..Len(u) /\ v[k] = u[k]
    <3>1. CASE k <= j
      BY <2>2, <2>4, <2>5, <3>1
    <3>2. CASE k > j
      <4>1. ~(k <= j) /\ k <= j + (Len(t) + 1) /\ k - j \in 1..Len(t)
        BY <1>2, <2>1, <2>5, <3>2
      <4>2. w[k] = y[k - j] /\ u[k] = t[k - j]
        BY <2>2, <2>4, <2>5, <4>1
      <4> QED BY <1>4, <2>5, <4>1, <4>2
    <3> QED BY <1>2, <2>1, <3>1, <3>2
  <2>6. CASE k = j + Len(t) + 1 /\ v[k] = x
    <3>1. ~(k <= j) /\ k <= j + (Len(t) + 1) /\ k - j = Len(t) + 1
      BY <1>2, <2>6
    <3>2. w[k] = y[Len(t) + 1]
      BY <2>2, <3>1
    <3> QED BY <1>4, <2>6, <3>2
  <2>7. CASE k > j + Len(t) + 1 /\ k - 1 \in 1..Len(u) /\ v[k] = u[k - 1]
    <3>1. ~(k <= j) /\ ~(k <= j + (Len(t) + 1)) /\ k - (Len(t) + 1) = (k - 1) - Len(t)
          /\ ~(k - 1 <= j) /\ ~(k - 1 <= j + Len(t))
      <4>1. PICK q : q = Len(t)
        OBVIOUS
      <4>2. q \in Nat /\ j \in Nat /\ k \in Int /\ k > j + q + 1
        BY <1>2, <2>1, <2>7, <4>1
      <4>3. ~(k <= j) /\ ~(k <= j + (q + 1)) /\ k - (q + 1) = (k - 1) - q
            /\ ~(k - 1 <= j) /\ ~(k - 1 <= j + q)
        BY <4>2
      <4> QED BY <4>1, <4>3
    <3>2. u[k - 1] = s[(k - 1) - Len(t)] /\ w[k] = s[k - (Len(t) + 1)]
      BY <2>2, <2>4, <2>7, <3>1
    <3> QED BY <2>7, <3>1, <3>2
  <2> QED BY <2>3, <2>5, <2>6, <2>7
<1>11. v = w
  BY <1>6, <1>8, <1>9, <1>10, SeqEqual
<1> QED BY <1>1, <1>11

\* One more before what was put in.
LEMMA SpliceBefore ==
    ASSUME NEW S, NEW s \in Seq(S), NEW t \in Seq(S), NEW j \in 0..Len(s), NEW x \in S
    PROVE  Insertion(Listing!Splice(s, j, t), j, x) = Listing!Splice(s, j, <<x>> \o t)
<1>1. PICK u, v, w, y : /\ u = Listing!Splice(s, j, t) /\ v = Insertion(u, j, x)
                        /\ y = <<x>> \o t /\ w = Listing!Splice(s, j, y)
  OBVIOUS
<1>2. Len(s) \in Nat /\ Len(t) \in Nat /\ j \in Nat /\ j <= Len(s)
  OBVIOUS
<1>3. <<x>> \in Seq(S) /\ Len(<<x>>) = 1 /\ <<x>>[1] = x
  OBVIOUS
<1>4. y \in Seq(S) /\ Len(y) = Len(t) + 1 /\ y[1] = x /\ \A k \in 2..Len(t) + 1 : y[k] = t[k - 1]
  <2>1. /\ y \in Seq(S) /\ Len(y) = 1 + Len(t)
        /\ \A k \in 1..1 + Len(t) : y[k] = IF k <= 1 THEN <<x>>[k] ELSE t[k - 1]
    BY <1>1, <1>3, ConcatProperties
  <2>2. \A k \in 2..Len(t) + 1 : y[k] = t[k - 1]
    BY <1>2, <2>1
  <2>3. 1 \in 1..1 + Len(t)
    BY <1>2
  <2>4. y[1] = x
    BY <1>3, <2>1, <2>3
  <2> QED BY <1>2, <2>1, <2>2, <2>4
<1>5. u \in Seq(S) /\ IsSplice(s, j, t, u)
  BY <1>1, SpliceIs
<1>6. w \in Seq(S) /\ IsSplice(s, j, y, w)
  BY <1>1, <1>4, SpliceIs
<1>7. Len(u) = Len(s) + Len(t) /\ j \in 0..Len(u)
  BY <1>2, <1>5 DEF IsSplice
<1>8. v \in Seq(S) /\ HasInserted(u, j, x, v)
  BY <1>1, <1>5, <1>7, InsertionIs, Zenon
<1>9. Len(v) = Len(w) /\ Len(v) = Len(s) + Len(t) + 1
  BY <1>2, <1>4, <1>6, <1>7, <1>8 DEF IsSplice, HasInserted
<1>10. ASSUME NEW k \in 1..Len(v) PROVE v[k] = w[k]
  <2>1. k \in Int /\ k \in 1..Len(w)
    BY <1>9
  <2>2. w[k] = IF k <= j THEN s[k] ELSE IF k <= j + (Len(t) + 1) THEN y[k - j] ELSE s[k - (Len(t) + 1)]
    BY <1>4, <1>6, <2>1 DEF IsSplice
  <2>3. \/ k <= j /\ k \in 1..Len(u) /\ v[k] = u[k]
        \/ k = j + 1 /\ v[k] = x
        \/ k > j + 1 /\ k - 1 \in 1..Len(u) /\ v[k] = u[k - 1]
    BY <1>8 DEF HasInserted
  <2>4. \A i0 \in 1..Len(u) : u[i0] = IF i0 <= j THEN s[i0] ELSE IF i0 <= j + Len(t) THEN t[i0 - j] ELSE s[i0 - Len(t)]
    BY <1>5 DEF IsSplice
  <2>5. CASE k <= j /\ k \in 1..Len(u) /\ v[k] = u[k]
    BY <2>2, <2>4, <2>5
  <2>6. CASE k = j + 1 /\ v[k] = x
    <3>1. ~(k <= j) /\ k <= j + (Len(t) + 1) /\ k - j = 1
      BY <1>2, <2>6
    <3> QED BY <1>4, <2>2, <2>6, <3>1
  <2>7. CASE k > j + 1 /\ k - 1 \in 1..Len(u) /\ v[k] = u[k - 1]
    <3>1. CASE k <= j + (Len(t) + 1)
      <4>1. ~(k <= j) /\ ~(k - 1 <= j) /\ k - 1 <= j + Len(t) /\ k - j \in 2..Len(t) + 1
            /\ (k - j) - 1 = (k - 1) - j
        <5>1. PICK q : q = Len(t)
          OBVIOUS
        <5>2. q \in Nat /\ j \in Nat /\ k \in Int /\ k > j + 1 /\ k <= j + (q + 1)
          BY <1>2, <2>1, <2>7, <3>1, <5>1
        <5>3. ~(k <= j) /\ ~(k - 1 <= j) /\ k - 1 <= j + q /\ k - j \in 2..q + 1
              /\ (k - j) - 1 = (k - 1) - j
          BY <5>2
        <5> QED BY <5>1, <5>3
      <4>2. u[k - 1] = t[(k - 1) - j] /\ w[k] = y[k - j] /\ y[k - j] = t[(k - j) - 1]
        BY <1>4, <2>2, <2>4, <2>7, <3>1, <4>1
      <4> QED BY <2>7, <4>1, <4>2
    <3>2. CASE k > j + (Len(t) + 1)
      <4>1. ~(k <= j) /\ ~(k <= j + (Len(t) + 1)) /\ k - (Len(t) + 1) = (k - 1) - Len(t)
            /\ ~(k - 1 <= j) /\ ~(k - 1 <= j + Len(t))
        BY <1>2, <2>1, <2>7, <3>2
      <4>2. u[k - 1] = s[(k - 1) - Len(t)] /\ w[k] = s[k - (Len(t) + 1)]
        BY <2>2, <2>4, <2>7, <4>1
      <4> QED BY <2>7, <4>1, <4>2
    <3> QED BY <1>2, <2>1, <3>1, <3>2
  <2> QED BY <2>3, <2>5, <2>6, <2>7
<1>11. v = w
  BY <1>6, <1>8, <1>9, <1>10, SeqEqual
<1> QED BY <1>1, <1>11

\* At the ends a splice is a concatenation.
LEMMA SpliceAtEnds ==
    ASSUME NEW S, NEW s \in Seq(S), NEW t \in Seq(S)
    PROVE  Listing!Splice(s, Len(s), t) = s \o t /\ Listing!Splice(s, 0, t) = t \o s
<1>1. Len(s) \in Nat /\ Len(s) \in 0..Len(s) /\ 0 \in 0..Len(s) /\ <<>> \in Seq(S) /\ Len(<<>>) = 0
  BY EmptySeq
<1>2. Listing!Prefix(s, Len(s)) = s /\ Listing!Suffix(s, Len(s)) = <<>>
  BY <1>1, SubSeqFull, SubSeqEmpty DEF Listing!Prefix, Listing!Suffix
<1>3. Listing!Prefix(s, 0) = <<>> /\ Listing!Suffix(s, 0) = s
  BY <1>1, SubSeqFull, SubSeqEmpty DEF Listing!Prefix, Listing!Suffix
<1>4. (s \o t) \o <<>> = s \o t /\ <<>> \o t = t
  <2>1. s \o t \in Seq(S)
    BY ConcatProperties
  <2> QED BY <2>1, ConcatEmptySeq
<1> QED BY <1>2, <1>3, <1>4 DEF Listing!Splice

-----------------------------------------------------------------------------
(* Additions, one and many. *)

\* The chains ns carry the contents c, wherever the other nodes are.
Standing(h, c, ns) == \E place, of : Stands(h, c, ns, place, of)

\* Memory is available exactly when there is a node for an addition.
LEMMA AvailableIs ==
    ASSUME NEW h, IsHeap(h), NEW l \in Lists
    PROVE  /\ Listing!Available(h, l) \in Nat
           /\ Listing!NewNode(h, l) = Null <=> Listing!Available(h, l) = 0
<1>1. PICK n : n = Listing!NewNode(h, l)
  OBVIOUS
<1>2. /\ h.cache[l] # <<>> => n \in Nodes
      /\ h.cache[l] = <<>> /\ h.free # {} => n \in Nodes
      /\ h.cache[l] = <<>> /\ h.free = {} => n = Null
  BY <1>1, NewNodeIs
<1>3. h.cache[l] \in Seq(Nodes) /\ h.free \subseteq Nodes
  BY DEF IsHeap
<1>4. Len(h.cache[l]) \in Nat /\ (h.cache[l] = <<>> <=> Len(h.cache[l]) = 0)
  BY <1>3, EmptySeq
<1>5. IsFiniteSet(h.free)
  BY <1>3, FS_Subset, ListsAssumed
<1>6. Cardinality(h.free) \in Nat /\ (Cardinality(h.free) = 0 <=> h.free = {})
  BY <1>5, FS_CardinalityType, FS_EmptySet
<1>7. Listing!Available(h, l) = Len(h.cache[l]) + Cardinality(h.free)
  BY DEF Listing!Available, Listing!Cardinality, Cardinality
<1> QED BY <1>1, <1>2, <1>4, <1>6, <1>7, ListsAssumed

\* An addition uses up one node.
LEMMA OneLessAvailable ==
    ASSUME NEW h, IsHeap(h), NEW l \in Lists, NEW x, NEW before, NEW behind, NEW n, NEW g,
           IsLinked(h, l, x, before, behind, n, g)
    PROVE  Listing!Available(g, l) = Listing!Available(h, l) - 1
<1>1. /\ h.cache[l] # <<>> => /\ g.cache = [h.cache EXCEPT ![l] = Tail(h.cache[l])]
                              /\ g.free = h.free /\ n = Head(h.cache[l])
      /\ h.cache[l] = <<>> => g.cache = h.cache /\ g.free = h.free \ {n} /\ n \in h.free
  BY DEF IsLinked
<1>2. h.cache \in [Lists -> Seq(Nodes)] /\ h.free \subseteq Nodes
  BY DEF IsHeap
<1>3. IsFiniteSet(h.free)
  BY <1>2, FS_Subset, ListsAssumed
<1>4. Cardinality(h.free) \in Nat
  BY <1>3, FS_CardinalityType
<1>5. /\ Listing!Available(h, l) = Len(h.cache[l]) + Cardinality(h.free)
      /\ Listing!Available(g, l) = Len(g.cache[l]) + Cardinality(g.free)
  BY DEF Listing!Available, Listing!Cardinality, Cardinality
<1>6. CASE h.cache[l] # <<>>
  <2>1. g.cache[l] = Tail(h.cache[l]) /\ h.cache[l] \in Seq(Nodes)
    BY <1>1, <1>2, <1>6
  <2>2. Len(Tail(h.cache[l])) = Len(h.cache[l]) - 1 /\ Len(h.cache[l]) \in Nat
    BY <1>6, <2>1, HeadTailProperties
  <2> QED BY <1>1, <1>4, <1>5, <1>6, <2>1, <2>2
<1>7. CASE h.cache[l] = <<>>
  <2>1. Cardinality(h.free \ {n}) = Cardinality(h.free) - 1
    BY <1>1, <1>3, <1>7, FS_RemoveElement
  <2>2. Len(h.cache[l]) \in Nat
    BY <1>2
  <2>3. Len(g.cache[l]) = Len(h.cache[l]) /\ Cardinality(g.free) = Cardinality(h.free) - 1
    BY <1>1, <1>7, <2>1
  <2> QED BY <1>4, <1>5, <2>2, <2>3
<1> QED BY <1>6, <1>7

\* g is h with x in l after the first j objects, in the node n.
IsAdded(h, c, ns, l, x, j, n, g) ==
    /\ n \in Nodes
    /\ Standing(g, [c EXCEPT ![l] = Insertion(c[l], j, x)], [ns EXCEPT ![l] = Insertion(ns[l], j, n)])
    /\ Listing!Available(g, l) = Listing!Available(h, l) - 1

\* An addition between two neighbours.
LEMMA LinkKeeps ==
    ASSUME NEW h, NEW c, NEW ns, Standing(h, c, ns), NEW l \in Lists, NEW x \in Data,
           NEW j \in 0..Len(ns[l]), NEW n, n = Listing!NewNode(h, l), n # Null,
           NEW g, g = Listing!Link(h, l, x, NodeAt(ns[l], j), NodeAt(ns[l], j + 1))
    PROVE  IsAdded(h, c, ns, l, x, j, n, g)
<1>1. PICK place, of : Stands(h, c, ns, place, of)
  BY DEF Standing
<1>2. PICK c2, ns2 : c2 = [c EXCEPT ![l] = Insertion(c[l], j, x)] /\ ns2 = [ns EXCEPT ![l] = Insertion(ns[l], j, n)]
  OBVIOUS
<1>3. Stands(g, c2, ns2, [place EXCEPT ![n] = "list"], [of EXCEPT ![n] = l])
  BY <1>1, <1>2, InsertKeeps
<1>4. IsHeap(h) /\ ns[l] \in Seq(Nodes) /\ j \in Int /\ j + 1 \in Int
  BY <1>1, StandsAll, StandsOf
<1>5. PICK before, behind : before = NodeAt(ns[l], j) /\ behind = NodeAt(ns[l], j + 1)
  OBVIOUS
<1>6. before \in Nodes \cup {Null} /\ behind \in Nodes \cup {Null}
  BY <1>4, <1>5, NodeAtTyped
<1>7. IsLinked(h, l, x, before, behind, n, g)
  BY <1>4, <1>5, <1>6, LinkIs
<1>8. Listing!Available(g, l) = Listing!Available(h, l) - 1 /\ n \in Nodes
  <2>1. n \in Nodes
    BY <1>7 DEF IsLinked
  <2> QED BY <1>4, <1>7, <2>1, OneLessAvailable
<1> QED BY <1>2, <1>3, <1>8 DEF IsAdded, Standing

\* The place after the first j nodes of s is where an addition goes.
At(where, s, p, j) ==
    /\ where \in {"tail", "head", "after", "before"} /\ j \in 0..Len(s)
    /\ where = "tail" => j = Len(s)
    /\ where = "head" => j = 0
    /\ where = "after" => p = NodeAt(s, j)
    /\ where = "before" => p = NodeAt(s, j + 1)

\* Each of the four additions puts the object where its position says.
LEMMA AddOneIs ==
    ASSUME NEW h, NEW c, NEW ns, Standing(h, c, ns), NEW l \in Lists, NEW x,
           NEW where, NEW p, NEW j, At(where, ns[l], p, j)
    PROVE  Listing!AddOne(h, l, where, p, x) = Listing!Link(h, l, x, NodeAt(ns[l], j), NodeAt(ns[l], j + 1))
<1>1. PICK place, of : Stands(h, c, ns, place, of)
  BY DEF Standing
<1>2. PICK s : s = ns[l]
  OBVIOUS
<1>3. /\ s \in Seq(Nodes) /\ Len(s) \in Nat /\ Linked(h.next, h.prev, s)
      /\ h.first[l] = NodeAt(s, 1) /\ h.last[l] = NodeAt(s, Len(s))
  BY <1>1, <1>2, StandsOf
<1>4. NodeAt(s, 0) = Null /\ NodeAt(s, Len(s) + 1) = Null
  BY <1>3 DEF NodeAt
<1>5. j \in 0..Len(s) /\ j \in Int /\ j + 1 \in Int
  BY <1>2 DEF At
<1>6. Listing!AddTailI(h, l, x) = Listing!Link(h, l, x, NodeAt(s, Len(s)), NodeAt(s, Len(s) + 1))
  BY <1>3, <1>4 DEF Listing!AddTailI
<1>7. Listing!AddHeadI(h, l, x) = Listing!Link(h, l, x, NodeAt(s, 0), NodeAt(s, 0 + 1))
  BY <1>3, <1>4 DEF Listing!AddHeadI
<1>8. CASE where = "tail"
  BY <1>2, <1>6, <1>8 DEF At, Listing!AddOne
<1>9. CASE where = "head"
  BY <1>2, <1>7, <1>9 DEF At, Listing!AddOne
<1>10. CASE where = "after"
  <2>1. p = NodeAt(s, j) /\ Listing!AddOne(h, l, where, p, x) = Listing!AddAfterI(h, l, p, x)
    BY <1>2, <1>10 DEF At, Listing!AddOne
  <2>2. CASE j = 0
    <3>1. Listing!AddAfterI(h, l, p, x) = Listing!AddHeadI(h, l, x)
      BY <1>4, <2>1, <2>2 DEF Listing!AddAfterI
    <3> QED BY <1>2, <1>7, <2>1, <2>2, <3>1
  <2>3. CASE j # 0
    <3>1. j \in 1..Len(s)
      BY <1>3, <1>5, <2>3
    <3>2. p # Null /\ p = s[j]
      BY <1>3, <1>5, <2>1, <3>1, NodeAtTyped
    <3>3. h.next[p] = NodeAt(s, j + 1)
      BY <1>3, <3>1, <3>2 DEF Linked
    <3> QED BY <1>2, <2>1, <3>2, <3>3 DEF Listing!AddAfterI
  <2> QED BY <2>2, <2>3
<1>11. CASE where = "before"
  <2>1. p = NodeAt(s, j + 1) /\ Listing!AddOne(h, l, where, p, x) = Listing!AddBeforeI(h, l, p, x)
    BY <1>2, <1>11 DEF At, Listing!AddOne
  <2>2. CASE j = Len(s)
    <3>1. Listing!AddBeforeI(h, l, p, x) = Listing!AddTailI(h, l, x)
      BY <1>4, <2>1, <2>2 DEF Listing!AddBeforeI
    <3> QED BY <1>2, <1>6, <2>1, <2>2, <3>1
  <2>3. CASE j # Len(s)
    <3>1. j + 1 \in 1..Len(s) /\ (j + 1) - 1 = j
      BY <1>3, <1>5, <2>3
    <3>2. p # Null /\ p = s[j + 1]
      BY <1>3, <1>5, <2>1, <3>1, NodeAtTyped
    <3>3. h.prev[p] = NodeAt(s, (j + 1) - 1)
      BY <1>3, <3>1, <3>2 DEF Linked
    <3> QED BY <1>2, <2>1, <3>1, <3>2, <3>3 DEF Listing!AddBeforeI
  <2> QED BY <2>2, <2>3
<1> QED BY <1>8, <1>9, <1>10, <1>11 DEF At

\* The steps of the loop over the nodes ns.
AddSteps(h, l, where, p, ns, N, added) ==
    added = [k \in 0..N |->
               IF k = 0 THEN [h |-> h, p |-> p]
               ELSE LET g == added[k - 1] IN
                    IF Listing!NewNode(g.h, l) = Null THEN g
                    ELSE [h |-> Listing!AddOne(g.h, l, where, g.p, g.h.data[ns[k]]),
                          p |-> Listing!NewNode(g.h, l)]]

\* The recursive function of AddEach exists.
LEMMA AddStepsExist ==
    ASSUME NEW h, NEW l, NEW where, NEW p, NEW ns, NEW N \in Nat
    PROVE  \E added : AddSteps(h, l, where, p, ns, N, added)
<1> DEFINE Bad == { n \in Nat : ~\E f : AddSteps(h, l, where, p, ns, n, f) }
           after(f, k) == IF k = 0 THEN [h |-> h, p |-> p]
                          ELSE LET g == f[k - 1] IN
                               IF Listing!NewNode(g.h, l) = Null THEN g
                               ELSE [h |-> Listing!AddOne(g.h, l, where, g.p, g.h.data[ns[k]]),
                                     p |-> Listing!NewNode(g.h, l)]
<1> SUFFICES ASSUME Bad # {} PROVE FALSE
  OBVIOUS
<1>1. PICK n \in Bad : \A y \in Bad : n <= y
  BY LeastExists
<1>2. n # 0
  <2>1. AddSteps(h, l, where, p, ns, 0, [k \in 0..0 |-> [h |-> h, p |-> p]])
    BY DEF AddSteps
  <2> QED BY <2>1
<1>3. n \in Nat /\ n - 1 \in Nat /\ n - 1 \notin Bad
  BY <1>1, <1>2
<1>4. PICK f : AddSteps(h, l, where, p, ns, n - 1, f)
  BY <1>3
<1>5. f = [k \in 0..n - 1 |-> after(f, k)]
  BY <1>4 DEF AddSteps
<1> DEFINE e == [k \in 0..n |-> after(f, k)]
<1>6. ASSUME NEW k \in 0..n - 1 PROVE f[k] = e[k]
  <2>1. k \in 0..n
    BY <1>3
  <2>2. e[k] = after(f, k)
    BY <2>1
  <2> HIDE DEF after, e
  <2> QED BY <1>5, <2>2
<1>7. ASSUME NEW k \in 0..n PROVE after(e, k) = after(f, k)
  <2>1. CASE k = 0
    BY <2>1
  <2>2. CASE k # 0
    <3>1. k - 1 \in 0..n - 1
      BY <1>3, <2>2
    <3>2. e[k - 1] = f[k - 1]
      <4> HIDE DEF e
      <4> QED BY <1>6, <3>1
    <3> HIDE DEF e
    <3> QED BY <2>2, <3>2
  <2> QED BY <2>1, <2>2
<1>8. e = [k \in 0..n |-> after(e, k)]
  <2>1. e = [k \in 0..n |-> after(f, k)]
    OBVIOUS
  <2> HIDE DEF after, e
  <2> QED BY <1>7, <2>1
<1>9. AddSteps(h, l, where, p, ns, n, e)
  <2> HIDE DEF e
  <2> QED BY <1>8 DEF AddSteps
<1> QED BY <1>9

\* The k objects of s that a loop of additions has put in, and the next one.
Forward(where) == where \in {"tail", "after"}
Piece(where, s, k) == IF Forward(where) THEN Listing!Prefix(s, k) ELSE Listing!Suffix(s, Len(s) - k)
Nth(where, s, k) == IF Forward(where) THEN k ELSE (Len(s) - k) + 1

\* The k objects are one less and the next one.
HasPiece(where, s, k) ==
    /\ Nth(where, s, k) \in 1..Len(s) /\ s[Nth(where, s, k)] \in Data
    /\ Piece(where, s, k - 1) \in Seq(Data) /\ Len(Piece(where, s, k - 1)) = k - 1
    /\ Piece(where, s, k) = IF Forward(where)
                            THEN Piece(where, s, k - 1) \o <<s[Nth(where, s, k)]>>
                            ELSE <<s[Nth(where, s, k)]>> \o Piece(where, s, k - 1)

\* A piece with its next element is the next piece.
LEMMA PieceGrows ==
    ASSUME NEW s \in Seq(Data), NEW where, NEW k \in 1..Len(s)
    PROVE  HasPiece(where, s, k)
<1>1. Len(s) \in Nat /\ k \in Int
  OBVIOUS
<1>2. Nth(where, s, k) \in 1..Len(s)
  BY <1>1 DEF Nth
<1>3. CASE Forward(where)
  <2>1. k - 1 \in 0..Len(s) /\ 1 \in 1..Len(s) /\ k \in 1..Len(s)
    BY <1>1
  <2>2. Listing!Prefix(s, k - 1) \in Seq(Data) /\ Len(Listing!Prefix(s, k - 1)) = k - 1
    <3>1. PICK u : u = Listing!Prefix(s, k - 1)
      OBVIOUS
    <3>2. u \in Seq(Data) /\ IsPrefixOf(s, k - 1, u)
      BY <2>1, <3>1, PrefixIs
    <3> QED BY <3>1, <3>2 DEF IsPrefixOf
  <2>3. SubSeq(s, 1, k) = SubSeq(s, 1, k - 1) \o <<s[k]>>
    BY <2>1, SubSeqRecursiveSecond
  <2> QED BY <1>2, <1>3, <2>2, <2>3 DEF HasPiece, Piece, Nth, Listing!Prefix
<1>4. CASE ~Forward(where)
  <2>1. Len(s) - (k - 1) \in 0..Len(s)
    BY <1>1
  <2>2. Listing!Suffix(s, Len(s) - (k - 1)) \in Seq(Data)
        /\ Len(Listing!Suffix(s, Len(s) - (k - 1))) = Len(s) - (Len(s) - (k - 1))
    <3>1. PICK u, o : u = Listing!Suffix(s, Len(s) - (k - 1)) /\ o = Len(s) - (k - 1)
      OBVIOUS
    <3>2. u \in Seq(Data) /\ IsSuffixOf(s, o, u)
      BY <2>1, <3>1, SuffixIs
    <3> QED BY <3>1, <3>2 DEF IsSuffixOf
  <2>3. Len(s) - (Len(s) - (k - 1)) = k - 1 /\ (Len(s) - k) + 1 \in 1..Len(s)
        /\ Len(s) \in (Len(s) - k) + 1..Len(s) /\ ((Len(s) - k) + 1) + 1 = (Len(s) - (k - 1)) + 1
    BY <1>1
  <2>4. SubSeq(s, (Len(s) - k) + 1, Len(s)) = <<s[(Len(s) - k) + 1]>> \o SubSeq(s, ((Len(s) - k) + 1) + 1, Len(s))
    BY <2>3, SubSeqRecursiveFirst
  <2>5. Listing!Suffix(s, Len(s) - k) = <<s[(Len(s) - k) + 1]>> \o Listing!Suffix(s, Len(s) - (k - 1))
    BY <2>3, <2>4 DEF Listing!Suffix
  <2> QED BY <1>2, <1>4, <2>2, <2>3, <2>5 DEF HasPiece, Piece, Nth
<1> QED BY <1>3, <1>4

\* After k steps of the loop over the list m, from the place after j nodes of l.
LoopInv(h, c, ns, l, m, where, j, k, g) ==
    LET A == Listing!Available(h, l)
        K == Listing!Smaller(k, A)
    IN \E ns2 :
         /\ Standing(g.h, [c EXCEPT ![l] = Listing!Splice(c[l], j, Piece(where, c[m], K))], ns2)
         /\ ns2[m] = ns[m]
         /\ At(where, ns2[l], g.p, IF Forward(where) THEN j + K ELSE j)
         /\ Listing!Available(g.h, l) = A - K

\* What standing says of one list, without the places.
LEMMA StandingOf ==
    ASSUME NEW h, NEW c, NEW ns, Standing(h, c, ns), NEW l \in Lists
    PROVE  /\ IsHeap(h) /\ c \in [Lists -> Seq(Data)] /\ ns \in [Lists -> Seq(Nodes)]
           /\ ns[l] \in Seq(Nodes) /\ Len(ns[l]) \in Nat /\ c[l] \in Seq(Data) /\ Len(c[l]) = Len(ns[l])
           /\ Once(ns[l]) /\ Linked(h.next, h.prev, ns[l]) /\ Shows(h, ns[l], c[l])
           /\ h.first[l] = NodeAt(ns[l], 1) /\ h.last[l] = NodeAt(ns[l], Len(ns[l]))
           /\ h.count[l] = Len(ns[l])
<1>1. PICK place, of : Stands(h, c, ns, place, of)
  BY DEF Standing
<1>2. IsHeap(h) /\ c \in [Lists -> Seq(Data)] /\ ns \in [Lists -> Seq(Nodes)]
  BY <1>1, StandsAll
<1>3. /\ ns[l] \in Seq(Nodes) /\ Len(ns[l]) \in Nat /\ c[l] \in Seq(Data) /\ Len(c[l]) = Len(ns[l])
      /\ Once(ns[l]) /\ Linked(h.next, h.prev, ns[l]) /\ Shows(h, ns[l], c[l])
      /\ h.first[l] = NodeAt(ns[l], 1) /\ h.last[l] = NodeAt(ns[l], Len(ns[l]))
      /\ h.count[l] = Len(ns[l])
  BY <1>1, StandsOf
<1> QED BY <1>2, <1>3

\* The first piece is empty.
LEMMA NonePiece ==
    ASSUME NEW S, NEW s \in Seq(S), NEW where
    PROVE  Piece(where, s, 0) = <<>>
<1>1. Len(s) \in Nat /\ Len(s) - 0 = Len(s) /\ Len(s) < Len(s) + 1
  OBVIOUS
<1>2. Listing!Prefix(s, 0) = <<>> /\ Listing!Suffix(s, Len(s) - 0) = <<>>
  BY <1>1, SubSeqEmpty DEF Listing!Prefix, Listing!Suffix
<1> QED BY <1>2 DEF Piece

\* The loop starts with nothing put in.
LEMMA LoopStarts ==
    ASSUME NEW h, NEW c, NEW ns, Standing(h, c, ns), NEW l \in Lists, NEW m \in Lists,
           NEW where, NEW p, NEW j, At(where, ns[l], p, j)
    PROVE  LoopInv(h, c, ns, l, m, where, j, 0, [h |-> h, p |-> p])
<1>1. /\ IsHeap(h) /\ c \in [Lists -> Seq(Data)] /\ c[l] \in Seq(Data) /\ c[m] \in Seq(Data)
      /\ Len(ns[l]) \in Nat /\ Len(c[l]) = Len(ns[l])
  BY StandingOf
<1>2. Listing!Available(h, l) \in Nat
  BY <1>1, AvailableIs
<1>3. Listing!Smaller(0, Listing!Available(h, l)) = 0
  BY <1>2 DEF Listing!Smaller
<1>4. Piece(where, c[m], 0) = <<>>
  BY <1>1, NonePiece
<1>5. j \in 0..Len(c[l]) /\ j + 0 = j
  BY <1>1 DEF At
<1>6. Listing!Splice(c[l], j, <<>>) = c[l]
  BY <1>1, <1>5, SpliceNone
<1>7. [c EXCEPT ![l] = c[l]] = c
  BY <1>1
<1>8. At(where, ns[l], p, IF Forward(where) THEN j + 0 ELSE j)
  BY <1>5
<1>9. Listing!Available(h, l) = Listing!Available(h, l) - 0
  BY <1>2
<1> QED BY <1>3, <1>4, <1>6, <1>7, <1>8, <1>9 DEF LoopInv

\* One step of the loop puts in the next object.
LEMMA LoopStep ==
    ASSUME NEW h, NEW c, NEW ns, Standing(h, c, ns), NEW l \in Lists, NEW m \in Lists \ {l},
           NEW where, NEW j \in 0..Len(ns[l]), NEW k \in 1..Len(ns[m]), NEW g,
           LoopInv(h, c, ns, l, m, where, j, k - 1, g),
           NEW q, q = ns[m][Nth(where, ns[m], k)],
           NEW f, f = IF Listing!NewNode(g.h, l) = Null THEN g
                      ELSE [h |-> Listing!AddOne(g.h, l, where, g.p, g.h.data[q]), p |-> Listing!NewNode(g.h, l)]
    PROVE  LoopInv(h, c, ns, l, m, where, j, k, f)
<1>1. /\ IsHeap(h) /\ c \in [Lists -> Seq(Data)] /\ c[l] \in Seq(Data) /\ Len(c[l]) = Len(ns[l])
      /\ Len(ns[l]) \in Nat
      /\ c[m] \in Seq(Data) /\ Len(c[m]) = Len(ns[m]) /\ Len(ns[m]) \in Nat /\ ns[m] \in Seq(Nodes)
  <2>1. IsHeap(h) /\ c \in [Lists -> Seq(Data)] /\ c[l] \in Seq(Data) /\ Len(c[l]) = Len(ns[l])
        /\ Len(ns[l]) \in Nat
    BY StandingOf
  <2>2. c[m] \in Seq(Data) /\ Len(c[m]) = Len(ns[m]) /\ Len(ns[m]) \in Nat /\ ns[m] \in Seq(Nodes)
    BY StandingOf
  <2> QED BY <2>1, <2>2
<1>2. PICK A, K : A = Listing!Available(h, l) /\ K = Listing!Smaller(k - 1, A)
  OBVIOUS
<1>3. A \in Nat /\ k \in Nat /\ k - 1 \in Nat /\ K \in Nat /\ K <= A /\ K <= k - 1 /\ (K # A => K = k - 1)
  BY <1>1, <1>2, AvailableIs DEF Listing!Smaller
<1>4. PICK c1, jj : /\ c1 = [c EXCEPT ![l] = Listing!Splice(c[l], j, Piece(where, c[m], K))]
                    /\ jj = IF Forward(where) THEN j + K ELSE j
  OBVIOUS
<1>5. PICK ns2 : /\ Standing(g.h, c1, ns2) /\ ns2[m] = ns[m] /\ At(where, ns2[l], g.p, jj)
                 /\ Listing!Available(g.h, l) = A - K
  BY <1>2, <1>4 DEF LoopInv
<1>6. /\ IsHeap(g.h) /\ c1 \in [Lists -> Seq(Data)] /\ ns2 \in [Lists -> Seq(Nodes)]
      /\ ns2[l] \in Seq(Nodes) /\ Len(ns2[l]) \in Nat
      /\ c1[m] \in Seq(Data) /\ Shows(g.h, ns2[m], c1[m])
  <2>1. IsHeap(g.h) /\ c1 \in [Lists -> Seq(Data)] /\ ns2 \in [Lists -> Seq(Nodes)]
        /\ ns2[l] \in Seq(Nodes) /\ Len(ns2[l]) \in Nat
    BY <1>5, StandingOf
  <2>2. c1[m] \in Seq(Data) /\ Shows(g.h, ns2[m], c1[m])
    BY <1>5, StandingOf
  <2> QED BY <2>1, <2>2
<1>7. Listing!NewNode(g.h, l) = Null <=> A = K
  <2>1. Listing!NewNode(g.h, l) = Null <=> Listing!Available(g.h, l) = 0
    BY <1>6, AvailableIs
  <2> QED BY <1>3, <1>5, <2>1
<1>8. CASE A = K
  <2>1. Listing!Smaller(k, A) = K
    BY <1>3, <1>8 DEF Listing!Smaller
  <2>2. f = g
    BY <1>7, <1>8
  <2> QED BY <1>2, <1>4, <1>5, <2>1, <2>2 DEF LoopInv
<1>9. CASE A # K
  <2>1. Listing!Smaller(k, A) = k /\ K = k - 1 /\ A - k = (A - K) - 1
    BY <1>3, <1>9 DEF Listing!Smaller
  <2>2. PICK n, x : n = Listing!NewNode(g.h, l) /\ x = g.h.data[q]
    OBVIOUS
  <2>3. n # Null /\ f = [h |-> Listing!AddOne(g.h, l, where, g.p, x), p |-> n]
    BY <1>7, <1>9, <2>2
  <2>4. PICK o : o = Nth(where, c[m], k)
    OBVIOUS
  <2>5. o \in 1..Len(c[m]) /\ c[m][o] \in Data /\ q = ns[m][o]
    <3>1. PICK s : s = c[m]
      OBVIOUS
    <3>2. Nth(where, s, k) \in 1..Len(s) /\ s[Nth(where, s, k)] \in Data
      BY <1>1, <3>1, PieceGrows DEF HasPiece
    <3>3. Nth(where, s, k) = Nth(where, ns[m], k)
      BY <1>1, <3>1 DEF Nth
    <3> QED BY <2>4, <3>1, <3>2, <3>3
  <2>6. x = c[m][o] /\ x \in Data
    <3>1. c1[m] = c[m]
      BY <1>1, <1>4
    <3>2. c1[m][o] = g.h.data[ns2[m][o]]
      BY <1>1, <1>5, <1>6, <2>5 DEF Shows
    <3> QED BY <1>5, <2>2, <2>5, <3>1, <3>2
  <2>7. jj \in 0..Len(ns2[l])
    BY <1>5 DEF At
  <2>8. PICK e : e = Listing!AddOne(g.h, l, where, g.p, x)
    OBVIOUS
  <2>9. e = Listing!Link(g.h, l, x, NodeAt(ns2[l], jj), NodeAt(ns2[l], jj + 1))
    BY <1>5, <2>8, AddOneIs
  <2>10. IsAdded(g.h, c1, ns2, l, x, jj, n, e)
    BY <1>5, <2>2, <2>3, <2>6, <2>7, <2>9, LinkKeeps
  <2>11. PICK c3, ns3 : /\ c3 = [c1 EXCEPT ![l] = Insertion(c1[l], jj, x)]
                        /\ ns3 = [ns2 EXCEPT ![l] = Insertion(ns2[l], jj, n)]
    OBVIOUS
  <2>12. Standing(e, c3, ns3) /\ Listing!Available(e, l) = A - k /\ n \in Nodes
    BY <1>5, <2>1, <2>10, <2>11 DEF IsAdded
  <2>13. c3 = [c EXCEPT ![l] = Listing!Splice(c[l], j, Piece(where, c[m], k))]
    <3>1. PICK s, t, u, v : s = c[l] /\ t = c[m] /\ u = Piece(where, t, k - 1) /\ v = Piece(where, t, k)
      OBVIOUS
    <3>2. /\ u \in Seq(Data) /\ Len(u) = k - 1
          /\ v = IF Forward(where) THEN u \o <<t[o]>> ELSE <<t[o]>> \o u
      <4>1. t \in Seq(Data) /\ k \in 1..Len(t) /\ o = Nth(where, t, k)
        BY <1>1, <2>4, <3>1
      <4>2. /\ Piece(where, t, k - 1) \in Seq(Data) /\ Len(Piece(where, t, k - 1)) = k - 1
            /\ Piece(where, t, k) = IF Forward(where)
                                    THEN Piece(where, t, k - 1) \o <<t[Nth(where, t, k)]>>
                                    ELSE <<t[Nth(where, t, k)]>> \o Piece(where, t, k - 1)
        BY <4>1, PieceGrows DEF HasPiece
      <4> QED BY <3>1, <4>1, <4>2
    <3>3. s \in Seq(Data) /\ j \in 0..Len(s) /\ x = t[o]
      BY <1>1, <2>6, <3>1
    <3>4. c1[l] = Listing!Splice(s, j, u)
      BY <1>1, <1>4, <2>1, <3>1
    <3>5. Insertion(c1[l], jj, x) = Listing!Splice(s, j, v)
      <4>1. CASE Forward(where)
        <5>1. jj = j + Len(u)
          BY <1>4, <2>1, <3>2, <4>1
        <5>2. Insertion(Listing!Splice(s, j, u), j + Len(u), x) = Listing!Splice(s, j, u \o <<x>>)
          BY <2>6, <3>2, <3>3, SpliceBehind
        <5> QED BY <3>2, <3>3, <3>4, <4>1, <5>1, <5>2
      <4>2. CASE ~Forward(where)
        <5>1. Insertion(Listing!Splice(s, j, u), j, x) = Listing!Splice(s, j, <<x>> \o u)
          BY <2>6, <3>2, <3>3, SpliceBefore
        <5> QED BY <1>4, <3>2, <3>3, <3>4, <4>2, <5>1
      <4> QED BY <4>1, <4>2
    <3> QED BY <1>4, <2>11, <3>1, <3>5
  <2>14. ns3[m] = ns[m] /\ ns3[l] = Insertion(ns2[l], jj, n)
    BY <1>5, <1>6, <2>11
  <2>15. At(where, ns3[l], n, IF Forward(where) THEN j + k ELSE j)
    <3>1. PICK t : t = ns3[l]
      OBVIOUS
    <3>2. HasInserted(ns2[l], jj, n, t) /\ t \in Seq(Nodes)
      BY <1>6, <2>7, <2>12, <2>14, <3>1, InsertionIs, Zenon
    <3>3. Len(t) = Len(ns2[l]) + 1 /\ t[jj + 1] = n /\ jj \in Nat /\ jj <= Len(ns2[l])
      BY <1>6, <2>7, <3>2 DEF HasInserted
    <3>4. NodeAt(t, jj + 1) = n
      BY <1>6, <3>3 DEF NodeAt
    <3>5. Forward(where) => j + k = jj + 1
      BY <1>3, <1>4, <2>1
    <3>6. ~Forward(where) => j = jj
      BY <1>4
    <3>7. /\ where \in {"tail", "head", "after", "before"}
          /\ where = "tail" => jj = Len(ns2[l])
          /\ where = "head" => jj = 0
      BY <1>5 DEF At
    <3>8. CASE Forward(where)
      <4>1. jj + 1 \in 0..Len(t) /\ (where = "tail" => jj + 1 = Len(t)) /\ where # "head" /\ where # "before"
        BY <1>6, <3>3, <3>7, <3>8 DEF Forward
      <4>2. At(where, t, n, jj + 1)
        BY <3>4, <3>7, <4>1 DEF At
      <4> QED BY <3>1, <3>5, <3>8, <4>2
    <3>9. CASE ~Forward(where)
      <4>1. jj \in 0..Len(t) /\ where # "tail" /\ where # "after"
        BY <1>6, <3>3, <3>7, <3>9 DEF Forward
      <4>2. At(where, t, n, jj)
        BY <3>4, <3>7, <4>1 DEF At
      <4> QED BY <3>1, <3>6, <3>9, <4>2
    <3> QED BY <3>8, <3>9
  <2>16. f.h = e /\ f.p = n
    BY <2>3, <2>8
  <2> QED BY <1>2, <2>1, <2>12, <2>13, <2>14, <2>15, <2>16 DEF LoopInv
<1> QED BY <1>8, <1>9

\* The loop puts in as many objects of m as there is memory for.
LEMMA AddEachIs ==
    ASSUME NEW h, NEW c, NEW ns, Standing(h, c, ns), NEW l \in Lists, NEW m \in Lists \ {l},
           NEW where, NEW p, NEW j, At(where, ns[l], p, j),
           NEW src, Len(src) = Len(ns[m]), \A k \in 1..Len(ns[m]) : src[k] = ns[m][Nth(where, ns[m], k)],
           NEW g, g = Listing!AddEach(h, l, where, p, src)
    PROVE  \E ns2 : Standing(g, [c EXCEPT ![l] = Listing!Splice(c[l], j, Piece(where, c[m],
                                    Listing!Smaller(Len(c[m]), Listing!Available(h, l))))], ns2)
<1> DEFINE N == Len(src)
           added == CHOOSE f : AddSteps(h, l, where, p, src, N, f)
<1>1. N \in Nat /\ N = Len(ns[m]) /\ N = Len(c[m])
  BY StandingOf
<1>2. AddSteps(h, l, where, p, src, N, added)
  BY <1>1, AddStepsExist
<1>3. g = added[N].h
  BY DEF Listing!AddEach, AddSteps
<1>4. j \in 0..Len(ns[l])
  BY DEF At
<1> DEFINE Inv(k) == LoopInv(h, c, ns, l, m, where, j, k, added[k])
<1>5. Inv(0)
  <2> HIDE DEF added, N
  <2>1. added[0] = [h |-> h, p |-> p]
    BY <1>1, <1>2 DEF AddSteps
  <2>2. m \in Lists
    OBVIOUS
  <2>3. LoopInv(h, c, ns, l, m, where, j, 0, [h |-> h, p |-> p])
    BY <2>2, LoopStarts, Zenon
  <2> QED BY <2>1, <2>3
<1>6. ASSUME NEW k \in 1..N, Inv(k - 1) PROVE Inv(k)
  <2> HIDE DEF added, N
  <2>1. k \in 0..N /\ k # 0 /\ k \in 1..Len(ns[m])
    BY <1>1
  <2>2. added[k] = LET e == added[k - 1] IN
                    IF Listing!NewNode(e.h, l) = Null THEN e
                    ELSE [h |-> Listing!AddOne(e.h, l, where, e.p, e.h.data[src[k]]),
                          p |-> Listing!NewNode(e.h, l)]
    BY <1>2, <2>1 DEF AddSteps
  <2>3. PICK e, f, q : e = added[k - 1] /\ f = added[k] /\ q = src[k]
    OBVIOUS
  <2>4. f = IF Listing!NewNode(e.h, l) = Null THEN e
            ELSE [h |-> Listing!AddOne(e.h, l, where, e.p, e.h.data[q]), p |-> Listing!NewNode(e.h, l)]
    BY <2>2, <2>3
  <2>5. LoopInv(h, c, ns, l, m, where, j, k - 1, e)
    BY <1>6, <2>3
  <2>6. q = ns[m][Nth(where, ns[m], k)]
    BY <2>1, <2>3
  <2>7. LoopInv(h, c, ns, l, m, where, j, k, f)
    BY <1>4, <2>1, <2>4, <2>5, <2>6, LoopStep
  <2> QED BY <2>3, <2>7
<1>7. Inv(N)
  <2> HIDE DEF Inv, N
  <2> DEFINE Bad == { k \in 0..N : ~Inv(k) }
  <2>1. Bad = {}
    <3> SUFFICES ASSUME Bad # {} PROVE FALSE
      OBVIOUS
    <3>1. PICK k \in Bad : \A y \in Bad : k <= y
      <4>1. Bad \subseteq Nat
        OBVIOUS
      <4> QED BY <4>1, LeastExists
    <3>2. k \in 1..N
      BY <1>1, <1>5
    <3>3. k - 1 \in 0..N /\ k - 1 < k
      BY <1>1, <3>2
    <3>4. Inv(k - 1)
      BY <3>1, <3>2, <3>3
    <3> QED BY <1>6, <3>2, <3>4
  <2> QED BY <1>1, <2>1
<1>8. LoopInv(h, c, ns, l, m, where, j, N, added[N])
  BY <1>7
<1>9. PICK ns2 : Standing(added[N].h, [c EXCEPT ![l] = Listing!Splice(c[l], j, Piece(where, c[m],
                                    Listing!Smaller(N, Listing!Available(h, l))))], ns2)
  <2> HIDE DEF added, N
  <2> QED BY <1>8 DEF LoopInv
<1> QED
  <2> HIDE DEF added, N
  <2> QED BY <1>1, <1>3, <1>9

-----------------------------------------------------------------------------
(* A node that is removed from a list. *)

\* s without its j-th.
Removal(s, j) == [k \in 1..Len(s) - 1 |-> IF k < j THEN s[k] ELSE s[k + 1]]

\* What a sequence with one element less is.
LEMMA RemovalIs ==
    ASSUME NEW S, NEW s \in Seq(S), NEW j \in 1..Len(s), NEW t, t = Removal(s, j)
    PROVE  /\ t \in Seq(S) /\ Len(t) = Len(s) - 1
           /\ \A k \in 1..Len(s) - 1 : t[k] = IF k < j THEN s[k] ELSE s[k + 1]
<1>1. Len(s) \in Nat /\ Len(s) - 1 \in Nat /\ \A k \in 1..Len(s) : s[k] \in S
  OBVIOUS
<1>2. t \in [1..Len(s) - 1 -> S]
  <2> SUFFICES ASSUME NEW k \in 1..Len(s) - 1
               PROVE  (IF k < j THEN s[k] ELSE s[k + 1]) \in S
    BY DEF Removal
  <2>1. k \in 1..Len(s) /\ k + 1 \in 1..Len(s)
    BY <1>1
  <2> QED BY <1>1, <2>1
<1>3. t \in Seq(S) /\ Len(t) = Len(s) - 1
  BY <1>1, <1>2, SeqOfFunction
<1> QED BY <1>3 DEF Removal

\* The neighbours of the j-th of s are linked to one another.
Unlinked(s, j, nx, pv, nx2, pv2) ==
    /\ \A q \in Nodes : q # s[j] => nx2[q] = IF q = NodeAt(s, j - 1) THEN NodeAt(s, j + 1) ELSE nx[q]
    /\ \A q \in Nodes : q # s[j] => pv2[q] = IF q = NodeAt(s, j + 1) THEN NodeAt(s, j - 1) ELSE pv[q]

\* t is the chain s without its j-th.
IsShrunk(s, j, t, nx2, pv2) ==
    /\ Once(t) /\ Linked(nx2, pv2, t)
    /\ NodeAt(t, 1) = IF NodeAt(s, j - 1) = Null THEN NodeAt(s, j + 1) ELSE NodeAt(s, 1)
    /\ NodeAt(t, Len(t)) = IF NodeAt(s, j + 1) = Null THEN NodeAt(s, j - 1) ELSE NodeAt(s, Len(s))
    /\ \A q : Inside(t, q) <=> Inside(s, q) /\ q # s[j]

\* A node that is taken out of a chain.
LEMMA ChainRemoved ==
    ASSUME NEW s \in Seq(Nodes), Once(s), NEW j \in 1..Len(s),
           NEW nx, NEW pv, Linked(nx, pv, s), NEW nx2, NEW pv2, Unlinked(s, j, nx, pv, nx2, pv2),
           NEW t, t = Removal(s, j)
    PROVE  IsShrunk(s, j, t, nx2, pv2)
<1>1. /\ t \in Seq(Nodes) /\ Len(t) = Len(s) - 1 /\ Len(s) \in Nat /\ j \in Int /\ 1 <= j /\ j <= Len(s)
      /\ \A k \in 1..Len(t) : t[k] = IF k < j THEN s[k] ELSE s[k + 1]
      /\ \A k \in 1..Len(s) : s[k] \in Nodes
      /\ \A a, b \in 1..Len(s) : s[a] = s[b] => a = b
  <2>1. /\ t \in Seq(Nodes) /\ Len(t) = Len(s) - 1
        /\ \A k \in 1..Len(s) - 1 : t[k] = IF k < j THEN s[k] ELSE s[k + 1]
    BY RemovalIs
  <2>2. Len(s) \in Nat /\ j \in Int /\ 1 <= j /\ j <= Len(s) /\ \A k \in 1..Len(s) : s[k] \in Nodes
    OBVIOUS
  <2>3. \A a, b \in 1..Len(s) : s[a] = s[b] => a = b
    BY DEF Once
  <2> QED BY <2>1, <2>2, <2>3
<1>2. \A k \in 1..Len(t) : \/ k < j /\ k \in 1..Len(s) /\ k + 1 \in 1..Len(s) /\ t[k] = s[k]
                           \/ k >= j /\ k + 1 \in 1..Len(s) /\ t[k] = s[k + 1]
  BY <1>1
<1>3. Once(t)
  <2> SUFFICES ASSUME NEW a \in 1..Len(t), NEW b \in 1..Len(t), t[a] = t[b] PROVE a = b
    BY DEF Once
  <2>1. \/ a < j /\ a \in 1..Len(s) /\ t[a] = s[a]
        \/ a >= j /\ a + 1 \in 1..Len(s) /\ t[a] = s[a + 1]
    BY <1>2
  <2>2. \/ b < j /\ b \in 1..Len(s) /\ t[b] = s[b]
        \/ b >= j /\ b + 1 \in 1..Len(s) /\ t[b] = s[b + 1]
    BY <1>2
  <2>3. CASE a < j /\ a \in 1..Len(s) /\ t[a] = s[a]
    BY <1>1, <2>2, <2>3
  <2>4. CASE a >= j /\ a + 1 \in 1..Len(s) /\ t[a] = s[a + 1]
    <3>1. CASE b < j /\ b \in 1..Len(s) /\ t[b] = s[b]
      <4>1. a + 1 = b
        BY <1>1, <2>4, <3>1
      <4> QED BY <1>1, <2>4, <3>1, <4>1
    <3>2. CASE b >= j /\ b + 1 \in 1..Len(s) /\ t[b] = s[b + 1]
      <4>1. a + 1 = b + 1
        BY <1>1, <2>4, <3>2
      <4> QED BY <4>1
    <3> QED BY <2>2, <3>1, <3>2
  <2> QED BY <2>1, <2>3, <2>4
<1>4. \A k \in Int : NodeAt(t, k) = IF k < j THEN NodeAt(s, k) ELSE NodeAt(s, k + 1)
  <2> SUFFICES ASSUME NEW k \in Int PROVE NodeAt(t, k) = IF k < j THEN NodeAt(s, k) ELSE NodeAt(s, k + 1)
    OBVIOUS
  <2>1. CASE k \in 1..Len(t)
    <3>1. NodeAt(t, k) = t[k]
      BY <2>1 DEF NodeAt
    <3> QED BY <1>1, <1>2, <2>1, <3>1 DEF NodeAt
  <2>2. CASE k \notin 1..Len(t)
    <3>1. NodeAt(t, k) = Null
      BY <2>2 DEF NodeAt
    <3>2. k < j => k \notin 1..Len(s)
      BY <1>1, <2>2
    <3>3. k >= j => k + 1 \notin 1..Len(s)
      BY <1>1, <2>2
    <3> QED BY <1>1, <3>1, <3>2, <3>3 DEF NodeAt
  <2> QED BY <2>1, <2>2
<1>5. \A a, b \in Int : a \in 1..Len(s) /\ s[a] = NodeAt(s, b) => a = b
  BY <1>1, ListsAssumed DEF NodeAt
<1>6. Linked(nx2, pv2, t)
  <2> SUFFICES ASSUME NEW k \in 1..Len(t)
               PROVE  nx2[t[k]] = NodeAt(t, k + 1) /\ pv2[t[k]] = NodeAt(t, k - 1)
    BY DEF Linked
  <2>0. k \in Int /\ k + 1 \in Int /\ k - 1 \in Int /\ j - 1 \in Int /\ j + 1 \in Int
    BY <1>1
  <2>1. CASE k < j /\ k \in 1..Len(s) /\ k + 1 \in 1..Len(s) /\ t[k] = s[k]
    <3>1. s[k] \in Nodes /\ s[k] # s[j] /\ nx[s[k]] = NodeAt(s, k + 1) /\ pv[s[k]] = NodeAt(s, k - 1)
      BY <1>1, <2>1 DEF Linked
    <3>2. s[k] # NodeAt(s, j + 1) /\ (s[k] = NodeAt(s, j - 1) => k = j - 1)
      BY <1>1, <1>5, <2>0, <2>1
    <3>3. k = j - 1 => s[k] = NodeAt(s, j - 1)
      BY <2>1 DEF NodeAt
    <3>4. pv2[s[k]] = NodeAt(s, k - 1) /\ nx2[s[k]] = IF k = j - 1 THEN NodeAt(s, j + 1) ELSE NodeAt(s, k + 1)
      <4>1. PICK q, before, after : /\ q = s[k] /\ before = NodeAt(s, j - 1) /\ after = NodeAt(s, j + 1)
        OBVIOUS
      <4>2. q \in Nodes /\ q # s[j] /\ q # after /\ (q = before <=> k = j - 1)
        BY <3>1, <3>2, <3>3, <4>1
      <4>3. pv2[q] = pv[q] /\ nx2[q] = IF q = before THEN after ELSE nx[q]
        BY <4>1, <4>2 DEF Unlinked
      <4> QED BY <3>1, <4>1, <4>2, <4>3
    <3>5. NodeAt(t, k - 1) = NodeAt(s, k - 1)
      BY <1>1, <1>4, <2>0, <2>1
    <3>6. NodeAt(t, k + 1) = IF k = j - 1 THEN NodeAt(s, j + 1) ELSE NodeAt(s, k + 1)
      <4>1. NodeAt(t, k + 1) = IF k + 1 < j THEN NodeAt(s, k + 1) ELSE NodeAt(s, (k + 1) + 1)
        BY <1>4, <2>0
      <4>2. CASE k = j - 1
        <5>1. ~(k + 1 < j) /\ (k + 1) + 1 = j + 1
          BY <2>0, <4>2
        <5> QED BY <4>1, <4>2, <5>1
      <4>3. CASE k # j - 1
        <5>1. k + 1 < j
          BY <2>0, <2>1, <4>3
        <5> QED BY <4>1, <4>3, <5>1
      <4> QED BY <4>2, <4>3
    <3> QED BY <2>1, <3>4, <3>5, <3>6
  <2>2. CASE k >= j /\ k + 1 \in 1..Len(s) /\ t[k] = s[k + 1]
    <3>1. s[k + 1] \in Nodes /\ s[k + 1] # s[j] /\ nx[s[k + 1]] = NodeAt(s, (k + 1) + 1)
          /\ pv[s[k + 1]] = NodeAt(s, (k + 1) - 1)
      BY <1>1, <2>2 DEF Linked
    <3>2. s[k + 1] # NodeAt(s, j - 1) /\ (s[k + 1] = NodeAt(s, j + 1) => k + 1 = j + 1)
      BY <1>1, <1>5, <2>0, <2>2
    <3>3. k = j => s[k + 1] = NodeAt(s, j + 1)
      BY <2>2 DEF NodeAt
    <3>4. nx2[s[k + 1]] = NodeAt(s, (k + 1) + 1)
          /\ pv2[s[k + 1]] = IF k = j THEN NodeAt(s, j - 1) ELSE NodeAt(s, (k + 1) - 1)
      <4>1. PICK q, before, after : /\ q = s[k + 1] /\ before = NodeAt(s, j - 1) /\ after = NodeAt(s, j + 1)
        OBVIOUS
      <4>2. q \in Nodes /\ q # s[j] /\ q # before /\ (q = after <=> k = j)
        <5>1. k + 1 = j + 1 => k = j
          BY <1>1, <2>0
        <5> QED BY <3>1, <3>2, <3>3, <4>1, <5>1
      <4>3. nx2[q] = nx[q] /\ pv2[q] = IF q = after THEN before ELSE pv[q]
        BY <4>1, <4>2 DEF Unlinked
      <4> QED BY <3>1, <4>1, <4>2, <4>3
    <3>5. NodeAt(t, k + 1) = NodeAt(s, (k + 1) + 1)
      BY <1>1, <1>4, <2>0, <2>2
    <3>6. NodeAt(t, k - 1) = IF k = j THEN NodeAt(s, j - 1) ELSE NodeAt(s, (k + 1) - 1)
      <4>1. NodeAt(t, k - 1) = IF k - 1 < j THEN NodeAt(s, k - 1) ELSE NodeAt(s, (k - 1) + 1)
        BY <1>4, <2>0
      <4>2. (k + 1) - 1 = k /\ (k - 1) + 1 = k
        BY <2>0
      <4>3. k - 1 < j <=> k = j
        BY <1>1, <2>0, <2>2
      <4> QED BY <4>1, <4>2, <4>3
    <3> QED BY <2>2, <3>4, <3>5, <3>6
  <2> QED BY <1>2, <2>1, <2>2
<1>7. /\ NodeAt(s, j - 1) = Null <=> j = 1
      /\ NodeAt(s, j + 1) = Null <=> j = Len(s)
  <2>1. j - 1 \in Int /\ j + 1 \in Int
    BY <1>1
  <2>2. /\ NodeAt(s, j - 1) = Null <=> j - 1 \notin 1..Len(s)
        /\ NodeAt(s, j + 1) = Null <=> j + 1 \notin 1..Len(s)
    BY <2>1, NodeAtTyped
  <2> QED BY <1>1, <2>2
<1>8. NodeAt(t, 1) = IF NodeAt(s, j - 1) = Null THEN NodeAt(s, j + 1) ELSE NodeAt(s, 1)
  <2>1. 1 \in Int /\ 1 + 1 = 2 /\ (1 < j <=> j # 1) /\ (j = 1 => j + 1 = 2)
    BY <1>1
  <2>2. NodeAt(t, 1) = IF 1 < j THEN NodeAt(s, 1) ELSE NodeAt(s, 1 + 1)
    BY <1>4, <2>1
  <2>3. CASE j = 1
    <3>1. NodeAt(s, j - 1) = Null
      BY <1>7, <2>3
    <3>2. NodeAt(t, 1) = NodeAt(s, 2) /\ NodeAt(s, j + 1) = NodeAt(s, 2)
      BY <2>1, <2>2, <2>3
    <3> QED BY <3>1, <3>2
  <2>4. CASE j # 1
    <3>1. NodeAt(s, j - 1) # Null
      BY <1>7, <2>4
    <3>2. NodeAt(t, 1) = NodeAt(s, 1)
      BY <2>1, <2>2, <2>4
    <3> QED BY <3>1, <3>2
  <2> QED BY <2>3, <2>4
<1>9. NodeAt(t, Len(t)) = IF NodeAt(s, j + 1) = Null THEN NodeAt(s, j - 1) ELSE NodeAt(s, Len(s))
  <2>1. Len(t) \in Int /\ Len(t) + 1 = Len(s) /\ (Len(t) < j <=> j = Len(s))
    BY <1>1
  <2>2. NodeAt(t, Len(t)) = IF Len(t) < j THEN NodeAt(s, Len(t)) ELSE NodeAt(s, Len(t) + 1)
    BY <1>4, <2>1
  <2>3. Len(t) = Len(s) - 1
    BY <1>1
  <2> QED BY <1>7, <2>1, <2>2, <2>3
<1>10. ASSUME NEW q PROVE Inside(t, q) <=> Inside(s, q) /\ q # s[j]
  <2>1. ASSUME NEW k \in 1..Len(t), t[k] = q PROVE Inside(s, q) /\ q # s[j]
    BY <1>1, <1>2, <2>1 DEF Inside
  <2>2. ASSUME NEW k \in 1..Len(s), s[k] = q, q # s[j] PROVE Inside(t, q)
    <3>1. CASE k < j
      <4>1. k \in 1..Len(t)
        BY <1>1, <3>1
      <4> QED BY <1>1, <2>2, <3>1, <4>1 DEF Inside
    <3>2. CASE k > j
      <4>1. k - 1 \in 1..Len(t) /\ ~(k - 1 < j) /\ (k - 1) + 1 = k
        BY <1>1, <3>2
      <4>2. t[k - 1] = s[(k - 1) + 1]
        BY <1>1, <4>1
      <4> QED BY <2>2, <4>1, <4>2 DEF Inside
    <3>3. k # j
      BY <2>2
    <3> QED BY <1>1, <3>1, <3>2, <3>3
  <2> QED BY <2>1, <2>2 DEF Inside
<1> QED BY <1>3, <1>6, <1>8, <1>9, <1>10 DEF IsShrunk

\* t is s with a node before it.
IsConsOf(s, p, t) ==
    /\ t \in Seq(Nodes) /\ Once(t) /\ Len(t) = Len(s) + 1 /\ Len(s) \in Nat
    /\ \A q : Inside(t, q) <=> Inside(s, q) \/ q = p

\* One more node in front makes no repetition.
LEMMA OnceCons ==
    ASSUME NEW s \in Seq(Nodes), Once(s), NEW p \in Nodes, ~Inside(s, p), NEW t, t = <<p>> \o s
    PROVE  IsConsOf(s, p, t)
<1>1. <<p>> \in Seq(Nodes) /\ Len(<<p>>) = 1 /\ <<p>>[1] = p /\ Len(s) \in Nat
  OBVIOUS
<1>2. /\ t \in Seq(Nodes) /\ Len(t) = 1 + Len(s)
      /\ \A k \in 1..1 + Len(s) : t[k] = IF k <= 1 THEN <<p>>[k] ELSE s[k - 1]
  BY <1>1, ConcatProperties
<1>3. /\ t[1] = p /\ 1 \in 1..Len(t)
      /\ \A k \in 1..Len(t) : k = 1 \/ (k - 1 \in 1..Len(s) /\ t[k] = s[k - 1])
      /\ \A k \in 1..Len(s) : k + 1 \in 1..Len(t) /\ t[k + 1] = s[k]
  <2>1. t[1] = p /\ 1 \in 1..Len(t)
    BY <1>1, <1>2
  <2>2. \A k \in 1..Len(t) : k = 1 \/ (k - 1 \in 1..Len(s) /\ t[k] = s[k - 1])
    BY <1>1, <1>2
  <2>3. ASSUME NEW k \in 1..Len(s) PROVE k + 1 \in 1..Len(t) /\ t[k + 1] = s[k]
    <3>1. k + 1 \in 1..1 + Len(s) /\ ~(k + 1 <= 1) /\ (k + 1) - 1 = k
      BY <1>1
    <3>2. t[k + 1] = s[(k + 1) - 1]
      BY <1>2, <3>1
    <3> QED BY <1>2, <3>1, <3>2
  <2> QED BY <2>1, <2>2, <2>3
<1>4. Once(t)
  <2> SUFFICES ASSUME NEW a \in 1..Len(t), NEW b \in 1..Len(t), t[a] = t[b] PROVE a = b
    BY DEF Once
  <2>1. \A k \in 1..Len(s) : s[k] # p
    BY DEF Inside
  <2>2. CASE a = 1
    BY <1>3, <2>1, <2>2
  <2>3. CASE b = 1
    BY <1>3, <2>1, <2>3
  <2>4. CASE a # 1 /\ b # 1
    <3>1. a - 1 \in 1..Len(s) /\ b - 1 \in 1..Len(s) /\ s[a - 1] = s[b - 1]
      BY <1>3, <2>4
    <3>2. a - 1 = b - 1
      BY <3>1 DEF Once
    <3> QED BY <3>2
  <2> QED BY <2>2, <2>3, <2>4
<1>5. ASSUME NEW q PROVE Inside(t, q) <=> Inside(s, q) \/ q = p
  BY <1>3 DEF Inside
<1> QED BY <1>1, <1>2, <1>4, <1>5 DEF IsConsOf

\* g is h with the nodes of N deleted.
IsFreed(h, N, g) ==
    /\ IsHeap(g) /\ g.free = h.free \cup N
    /\ g.first = h.first /\ g.last = h.last /\ g.count = h.count /\ g.cache = h.cache
    /\ \A q \in Nodes : q \notin N => g.next[q] = h.next[q] /\ g.prev[q] = h.prev[q] /\ g.data[q] = h.data[q]

\* What deleting nodes does.
LEMMA FreeIs ==
    ASSUME NEW h, IsHeap(h), NEW N, N \subseteq Nodes, NEW g, g = Listing!Free(h, N)
    PROVE  IsFreed(h, N, g)
<1>1. PICK nx, pv, da : /\ nx = [n \in Nodes |-> IF n \in N THEN Null ELSE h.next[n]]
                        /\ pv = [n \in Nodes |-> IF n \in N THEN Null ELSE h.prev[n]]
                        /\ da = [n \in Nodes |-> IF n \in N THEN Null ELSE h.data[n]]
  OBVIOUS
<1>2. /\ nx \in [Nodes -> Nodes \cup {Null}] /\ pv \in [Nodes -> Nodes \cup {Null}]
      /\ da \in [Nodes -> Data \cup {Null}]
  BY <1>1 DEF IsHeap
<1>3. \A q \in Nodes : q \notin N => nx[q] = h.next[q] /\ pv[q] = h.prev[q] /\ da[q] = h.data[q]
  BY <1>1
<1>4. g = [h EXCEPT !.free = h.free \cup N, !.next = nx, !.prev = pv, !.data = da]
  BY <1>1 DEF Listing!Free, IsHeap
<1>5. IsHeap(g)
  BY <1>2, <1>4 DEF IsHeap
<1>6. /\ g.free = h.free \cup N /\ g.next = nx /\ g.prev = pv /\ g.data = da
      /\ g.first = h.first /\ g.last = h.last /\ g.count = h.count /\ g.cache = h.cache
  BY <1>4 DEF IsHeap
<1> QED BY <1>3, <1>5, <1>6 DEF IsFreed

\* g is h with p in the cache, or deleted.
IsPutBack(h, l, p, g) ==
    /\ IsHeap(g) /\ g.first = h.first /\ g.last = h.last /\ g.count = h.count
    /\ \A q \in Nodes : q # p => g.next[q] = h.next[q] /\ g.prev[q] = h.prev[q] /\ g.data[q] = h.data[q]
    /\ \/ /\ Len(h.cache[l]) < iCacheSize
          /\ g.cache = [h.cache EXCEPT ![l] = <<p>> \o h.cache[l]] /\ g.free = h.free
       \/ g.cache = h.cache /\ g.free = h.free \cup {p}

\* A node that is put back is in the cache, or free when the cache is full.
LEMMA AddToCacheIs ==
    ASSUME NEW h, IsHeap(h), NEW l \in Lists, NEW p \in Nodes, NEW g, g = Listing!AddToCache(h, l, p)
    PROVE  IsPutBack(h, l, p, g)
<1>1. CASE Len(h.cache[l]) < iCacheSize
  <2>1. PICK s, n : /\ s = <<p>> \o h.cache[l]
                    /\ n = IF h.cache[l] = <<>> THEN Null ELSE Head(h.cache[l])
    OBVIOUS
  <2>2. h.cache[l] \in Seq(Nodes) /\ <<p>> \in Seq(Nodes)
    BY DEF IsHeap
  <2>3. s \in Seq(Nodes) /\ n \in Nodes \cup {Null}
    BY <2>1, <2>2, ConcatProperties, HeadTailProperties
  <2>4. g = [h EXCEPT !.cache[l] = s, !.next[p] = n]
    BY <1>1, <2>1 DEF Listing!AddToCache, IsHeap
  <2>5. IsHeap(g)
    <3>1. PICK r : r = [h EXCEPT !.cache[l] = s]
      OBVIOUS
    <3>2. IsHeap(r)
      BY <2>3, <3>1, CacheSet DEF IsCacheSet
    <3>3. g = [r EXCEPT !.next[p] = n]
      BY <2>4, <3>1 DEF IsHeap
    <3>4. IsNextSet(r, p, n, g)
      BY <2>3, <3>2, <3>3, NextSet
    <3> QED BY <3>4 DEF IsNextSet
  <2>6. /\ g.cache = [h.cache EXCEPT ![l] = s] /\ g.next = [h.next EXCEPT ![p] = n]
        /\ g.first = h.first /\ g.last = h.last /\ g.count = h.count
        /\ g.prev = h.prev /\ g.data = h.data /\ g.free = h.free
    BY <2>4 DEF IsHeap
  <2>7. \A q \in Nodes : q # p => g.next[q] = h.next[q]
    BY <2>6 DEF IsHeap
  <2> QED BY <1>1, <2>1, <2>5, <2>6, <2>7 DEF IsPutBack
<1>2. CASE ~(Len(h.cache[l]) < iCacheSize)
  <2>1. g = Listing!Free(h, {p})
    BY <1>2 DEF Listing!AddToCache
  <2>2. IsFreed(h, {p}, g)
    BY <2>1, FreeIs
  <2> QED BY <2>2 DEF IsFreed, IsPutBack
<1> QED BY <1>1, <1>2

\* g is h with other anchors and another count of l.
LEMMA AnchorsSet ==
    ASSUME NEW h, IsHeap(h), NEW l \in Lists, NEW a \in Nodes \cup {Null}, NEW b \in Nodes \cup {Null},
           NEW k \in Int, NEW g, g = [h EXCEPT !.first[l] = a, !.last[l] = b, !.count[l] = k]
    PROVE  IsHeap(g)
BY DEF IsHeap

\* g is h without p in l.
IsDropped(h, l, p, g) ==
    /\ IsHeap(g)
    /\ \A q \in Nodes : q # p => /\ g.next[q] = IF q = h.prev[p] THEN h.next[p] ELSE h.next[q]
                                 /\ g.prev[q] = IF q = h.next[p] THEN h.prev[p] ELSE h.prev[q]
                                 /\ g.data[q] = h.data[q]
    /\ g.first = [h.first EXCEPT ![l] = IF h.prev[p] = Null THEN h.next[p] ELSE h.first[l]]
    /\ g.last = [h.last EXCEPT ![l] = IF h.next[p] = Null THEN h.prev[p] ELSE h.last[l]]
    /\ g.count = [h.count EXCEPT ![l] = h.count[l] - 1]
    /\ \/ /\ Len(h.cache[l]) < iCacheSize
          /\ g.cache = [h.cache EXCEPT ![l] = <<p>> \o h.cache[l]] /\ g.free = h.free
       \/ g.cache = h.cache /\ g.free = h.free \cup {p}

\* What RemoveI does to each field.
LEMMA RemoveIIs ==
    ASSUME NEW h, IsHeap(h), NEW l \in Lists, NEW p \in Nodes, NEW g, g = Listing!RemoveI(h, l, p)
    PROVE  IsDropped(h, l, p, g)
<1>1. PICK before, behind : before = h.prev[p] /\ behind = h.next[p]
  OBVIOUS
<1>2. before \in Nodes \cup {Null} /\ behind \in Nodes \cup {Null}
  BY <1>1 DEF IsHeap
<1>3. PICK a, b, k : /\ a = IF before = Null THEN behind ELSE h.first[l]
                     /\ b = IF behind = Null THEN before ELSE h.last[l]
                     /\ k = h.count[l] - 1
  OBVIOUS
<1>4. a \in Nodes \cup {Null} /\ b \in Nodes \cup {Null} /\ k \in Int
  BY <1>2, <1>3 DEF IsHeap
<1>5. PICK f : f = [h EXCEPT !.first[l] = a, !.last[l] = b, !.count[l] = k]
  OBVIOUS
<1>6. PICK d : d = Listing!SetNext(f, before, behind)
  OBVIOUS
<1>7. PICK e : e = Listing!SetPrev(d, behind, before)
  OBVIOUS
<1>8. g = Listing!AddToCache(e, l, p)
  <2>1. f = [h EXCEPT !.first[l] = IF h.prev[p] = Null THEN h.next[p] ELSE @,
                      !.last[l] = IF h.next[p] = Null THEN h.prev[p] ELSE @,
                      !.count[l] = @ - 1]
    BY <1>1, <1>3, <1>5 DEF IsHeap
  <2> QED BY <1>1, <1>6, <1>7, <2>1 DEF Listing!RemoveI
<1>9. IsHeap(f)
  BY <1>4, <1>5, AnchorsSet
<1>10. /\ f.first = [h.first EXCEPT ![l] = a] /\ f.last = [h.last EXCEPT ![l] = b]
       /\ f.count = [h.count EXCEPT ![l] = k] /\ f.cache = h.cache /\ f.free = h.free
       /\ f.next = h.next /\ f.prev = h.prev /\ f.data = h.data
  BY <1>5 DEF IsHeap
<1>11. NextIs(f, before, behind, d)
  BY <1>2, <1>6, <1>9, SetNextIs
<1>12. IsHeap(d)
  BY <1>11 DEF NextIs
<1>13. PrevIs(d, behind, before, e)
  BY <1>2, <1>7, <1>12, SetPrevIs
<1>14. IsHeap(e)
  BY <1>13 DEF PrevIs
<1>15. IsPutBack(e, l, p, g)
  BY <1>8, <1>14, AddToCacheIs
<1>16. /\ \A q \in Nodes : e.next[q] = IF q = before THEN behind ELSE h.next[q]
       /\ \A q \in Nodes : e.prev[q] = IF q = behind THEN before ELSE h.prev[q]
       /\ e.data = h.data /\ e.first = f.first /\ e.last = f.last /\ e.count = f.count
       /\ e.cache = h.cache /\ e.free = h.free
  BY <1>10, <1>11, <1>13 DEF NextIs, PrevIs
<1>17. /\ IsHeap(g) /\ g.first = e.first /\ g.last = e.last /\ g.count = e.count
       /\ \A q \in Nodes : q # p => g.next[q] = e.next[q] /\ g.prev[q] = e.prev[q] /\ g.data[q] = e.data[q]
       /\ \/ /\ Len(e.cache[l]) < iCacheSize
             /\ g.cache = [e.cache EXCEPT ![l] = <<p>> \o e.cache[l]] /\ g.free = e.free
          \/ g.cache = e.cache /\ g.free = e.free \cup {p}
  BY <1>15 DEF IsPutBack
<1> QED BY <1>1, <1>3, <1>10, <1>16, <1>17 DEF IsDropped

\* The objects that are left when one is taken out.
LEMMA DataRemoved ==
    ASSUME NEW c \in Seq(Data), NEW j \in 1..Len(c), NEW d, d = Removal(c, j)
    PROVE  /\ d \in Seq(Data) /\ Len(d) = Len(c) - 1
           /\ \A k \in 1..Len(c) - 1 : d[k] = IF k < j THEN c[k] ELSE c[k + 1]
BY RemovalIs

\* The objects of a chain without one node.
LEMMA ShowsRemoved ==
    ASSUME NEW s \in Seq(Nodes), Once(s), NEW c \in Seq(Data), NEW h, Shows(h, s, c),
           NEW j \in 1..Len(s), NEW g, \A q \in Nodes : q # s[j] => g.data[q] = h.data[q],
           NEW t, t = Removal(s, j), NEW d, d = Removal(c, j)
    PROVE  Shows(g, t, d) /\ d \in Seq(Data)
<1>1. Len(c) = Len(s) /\ Len(s) \in Nat /\ \A k \in 1..Len(s) : c[k] = h.data[s[k]] /\ s[k] \in Nodes
  BY DEF Shows
<1>2. Len(t) = Len(s) - 1 /\ \A k \in 1..Len(s) - 1 : t[k] = IF k < j THEN s[k] ELSE s[k + 1]
  BY RemovalIs
<1>3. /\ d \in Seq(Data) /\ Len(d) = Len(c) - 1
      /\ \A k \in 1..Len(c) - 1 : d[k] = IF k < j THEN c[k] ELSE c[k + 1]
  <2>1. c \in Seq(Data) /\ j \in 1..Len(c) /\ d = Removal(c, j)
    BY <1>1
  <2> QED BY <2>1, DataRemoved
<1>4. ASSUME NEW k \in 1..Len(s), k # j PROVE g.data[s[k]] = c[k]
  <2>1. s[k] # s[j]
    BY <1>4 DEF Once
  <2> QED BY <1>1, <2>1
<1>5. ASSUME NEW k \in 1..Len(t) PROVE d[k] = g.data[t[k]]
  <2>1. k \in 1..Len(s) /\ k + 1 \in 1..Len(s) /\ k \in 1..Len(s) - 1 /\ k \in 1..Len(c) - 1
    BY <1>1, <1>2
  <2>2. CASE k < j
    <3>1. t[k] = s[k] /\ d[k] = c[k] /\ k # j
      BY <1>2, <1>3, <2>1, <2>2
    <3> QED BY <1>4, <2>1, <3>1
  <2>3. CASE ~(k < j)
    <3>1. t[k] = s[k + 1] /\ d[k] = c[k + 1] /\ k + 1 # j
      BY <1>2, <1>3, <2>1, <2>3
    <3> QED BY <1>4, <2>1, <3>1
  <2> QED BY <2>2, <2>3
<1> QED BY <1>1, <1>2, <1>3, <1>5 DEF Shows

\* A node that is taken out of a list leaves everything standing.
LEMMA RemoveKeeps ==
    ASSUME NEW h, NEW c, NEW ns, Standing(h, c, ns), NEW l \in Lists, NEW j \in 1..Len(ns[l]),
           NEW g, g = Listing!RemoveI(h, l, ns[l][j])
    PROVE  Standing(g, [c EXCEPT ![l] = Removal(c[l], j)], [ns EXCEPT ![l] = Removal(ns[l], j)])
<1>1. PICK place, of : Stands(h, c, ns, place, of)
  BY DEF Standing
<1>2. /\ IsHeap(h) /\ c \in [Lists -> Seq(Data)] /\ ns \in [Lists -> Seq(Nodes)]
      /\ place \in [Nodes -> {"free", "list", "cache"}] /\ of \in [Nodes -> Lists]
      /\ \A q \in Nodes : q \in h.free <=> place[q] = "free"
  BY <1>1, StandsAll
<1>3. /\ ns[l] \in Seq(Nodes) /\ Len(ns[l]) \in Nat /\ c[l] \in Seq(Data) /\ Len(c[l]) = Len(ns[l])
      /\ Once(ns[l]) /\ Linked(h.next, h.prev, ns[l]) /\ Shows(h, ns[l], c[l])
      /\ h.first[l] = NodeAt(ns[l], 1) /\ h.last[l] = NodeAt(ns[l], Len(ns[l]))
      /\ h.count[l] = Len(ns[l])
  BY <1>1, StandsOf
<1>4. PICK p, s, e : p = ns[l][j] /\ s = ns[l] /\ e = c[l]
  OBVIOUS
<1>5. p \in Nodes /\ p = s[j] /\ Inside(s, p) /\ j \in Int
  BY <1>3, <1>4 DEF Inside
<1>6. h.next[p] = NodeAt(s, j + 1) /\ h.prev[p] = NodeAt(s, j - 1)
  BY <1>3, <1>4 DEF Linked
<1>7. IsDropped(h, l, p, g)
  BY <1>2, <1>4, <1>5, RemoveIIs
<1>8. /\ IsHeap(g)
      /\ \A q \in Nodes : q # p => /\ g.next[q] = IF q = NodeAt(s, j - 1) THEN NodeAt(s, j + 1) ELSE h.next[q]
                                   /\ g.prev[q] = IF q = NodeAt(s, j + 1) THEN NodeAt(s, j - 1) ELSE h.prev[q]
                                   /\ g.data[q] = h.data[q]
      /\ g.first = [h.first EXCEPT ![l] = IF NodeAt(s, j - 1) = Null THEN NodeAt(s, j + 1) ELSE h.first[l]]
      /\ g.last = [h.last EXCEPT ![l] = IF NodeAt(s, j + 1) = Null THEN NodeAt(s, j - 1) ELSE h.last[l]]
      /\ g.count = [h.count EXCEPT ![l] = h.count[l] - 1]
      /\ \/ /\ Len(h.cache[l]) < iCacheSize
            /\ g.cache = [h.cache EXCEPT ![l] = <<p>> \o h.cache[l]] /\ g.free = h.free
         \/ g.cache = h.cache /\ g.free = h.free \cup {p}
  BY <1>6, <1>7 DEF IsDropped
<1>9. /\ h.first \in [Lists -> Nodes \cup {Null}] /\ h.last \in [Lists -> Nodes \cup {Null}]
      /\ h.count \in [Lists -> Int] /\ h.cache \in [Lists -> Seq(Nodes)]
  BY <1>2 DEF IsHeap
<1>10. place[p] = "list" /\ of[p] = l
  <2>1. Inside(ns[l], p) <=> place[p] = "list" /\ of[p] = l
    BY <1>1, <1>5, StandsOf
  <2> QED BY <1>4, <1>5, <2>1
<1>11. PICK t, d : t = Removal(s, j) /\ d = Removal(e, j)
  OBVIOUS
<1>12. IsShrunk(s, j, t, g.next, g.prev)
  <2>1. Unlinked(s, j, h.next, h.prev, g.next, g.prev)
    BY <1>5, <1>8 DEF Unlinked
  <2>2. s \in Seq(Nodes) /\ Once(s) /\ j \in 1..Len(s) /\ Linked(h.next, h.prev, s)
    BY <1>3, <1>4
  <2> QED BY <1>11, <2>1, <2>2, ChainRemoved
<1>13. t \in Seq(Nodes) /\ Len(t) = Len(s) - 1
  <2>1. s \in Seq(Nodes) /\ j \in 1..Len(s)
    BY <1>3, <1>4
  <2> QED BY <1>11, <2>1, RemovalIs
<1>14. Shows(g, t, d) /\ d \in Seq(Data)
  <2>1. /\ s \in Seq(Nodes) /\ Once(s) /\ e \in Seq(Data) /\ Shows(h, s, e) /\ j \in 1..Len(s)
        /\ \A q \in Nodes : q # s[j] => g.data[q] = h.data[q]
    BY <1>3, <1>4, <1>5, <1>8
  <2> QED BY <1>11, <2>1, ShowsRemoved, Zenon
<1>15. PICK c2, ns2 : c2 = [c EXCEPT ![l] = d] /\ ns2 = [ns EXCEPT ![l] = t]
  OBVIOUS
<1>16. /\ c2 \in [Lists -> Seq(Data)] /\ c2[l] = d /\ \A m \in Lists \ {l} : c2[m] = c[m]
       /\ ns2 \in [Lists -> Seq(Nodes)] /\ ns2[l] = t /\ \A m \in Lists \ {l} : ns2[m] = ns[m]
  BY <1>2, <1>13, <1>14, <1>15
<1>17. ASSUME NEW m \in Lists
       PROVE  /\ Once(ns2[m]) /\ Linked(g.next, g.prev, ns2[m]) /\ Shows(g, ns2[m], c2[m])
              /\ g.first[m] = NodeAt(ns2[m], 1) /\ g.last[m] = NodeAt(ns2[m], Len(ns2[m]))
              /\ g.count[m] = Len(ns2[m])
              /\ \A q \in Nodes : Inside(ns2[m], q) <=> q # p /\ place[q] = "list" /\ of[q] = m
  <2>1. /\ ns[m] \in Seq(Nodes) /\ Once(ns[m]) /\ Linked(h.next, h.prev, ns[m]) /\ Shows(h, ns[m], c[m])
        /\ h.first[m] = NodeAt(ns[m], 1) /\ h.last[m] = NodeAt(ns[m], Len(ns[m]))
        /\ h.count[m] = Len(ns[m])
        /\ \A q \in Nodes : Inside(ns[m], q) <=> place[q] = "list" /\ of[q] = m
    BY <1>1, StandsOf
  <2>2. CASE m = l
    <3>1. /\ Once(t) /\ Linked(g.next, g.prev, t)
          /\ NodeAt(t, 1) = IF NodeAt(s, j - 1) = Null THEN NodeAt(s, j + 1) ELSE NodeAt(s, 1)
          /\ NodeAt(t, Len(t)) = IF NodeAt(s, j + 1) = Null THEN NodeAt(s, j - 1) ELSE NodeAt(s, Len(s))
          /\ \A q : Inside(t, q) <=> Inside(s, q) /\ q # p
      BY <1>5, <1>12 DEF IsShrunk
    <3>2. g.first[l] = NodeAt(t, 1) /\ g.last[l] = NodeAt(t, Len(t)) /\ g.count[l] = Len(t)
      BY <1>3, <1>4, <1>8, <1>9, <1>13, <3>1
    <3>3. \A q \in Nodes : Inside(t, q) <=> q # p /\ place[q] = "list" /\ of[q] = l
      BY <1>4, <2>1, <2>2, <3>1
    <3> QED BY <1>14, <1>16, <2>2, <3>1, <3>2, <3>3
  <2>3. CASE m # l
    <3>1. ns2[m] = ns[m] /\ c2[m] = c[m] /\ ~Inside(ns[m], p)
      BY <1>5, <1>10, <1>16, <2>1, <2>3
    <3>2. \A q \in Nodes : Inside(ns[m], q) => q # p /\ q # NodeAt(s, j - 1) /\ q # NodeAt(s, j + 1)
      <4>1. \A q \in Nodes : ~(Inside(s, q) /\ Inside(ns[m], q))
        <5>1. \A q \in Nodes : Inside(s, q) <=> place[q] = "list" /\ of[q] = l
          BY <1>1, <1>4, StandsOf
        <5> QED BY <2>1, <2>3, <5>1
      <4>2. \A k \in Int : NodeAt(s, k) \in Nodes => Inside(s, NodeAt(s, k))
        BY ListsAssumed DEF NodeAt, Inside
      <4>3. j - 1 \in Int /\ j + 1 \in Int
        BY <1>5
      <4> QED BY <3>1, <4>1, <4>2, <4>3
    <3>3. \A q \in Nodes : Inside(ns[m], q) => /\ g.next[q] = h.next[q] /\ g.prev[q] = h.prev[q]
                                               /\ g.data[q] = h.data[q]
      BY <1>8, <3>2
    <3>4. Linked(g.next, g.prev, ns[m]) /\ Shows(g, ns[m], c[m])
      <4>1. /\ ns[m] \in Seq(Nodes) /\ Linked(h.next, h.prev, ns[m]) /\ Shows(h, ns[m], c[m])
        BY <2>1
      <4> QED BY <3>3, <4>1, OthersStand, Zenon
    <3>5. g.first[m] = h.first[m] /\ g.last[m] = h.last[m] /\ g.count[m] = h.count[m]
      BY <1>8, <1>9, <2>3
    <3>6. \A q \in Nodes : Inside(ns[m], q) <=> q # p /\ place[q] = "list" /\ of[q] = m
      BY <2>1, <3>1
    <3> QED BY <2>1, <3>1, <3>4, <3>5, <3>6
  <2> QED BY <2>2, <2>3
<1>18. ASSUME NEW m \in Lists
       PROVE  /\ h.cache[m] \in Seq(Nodes) /\ Once(h.cache[m]) /\ Len(h.cache[m]) <= iCacheSize
              /\ \A q \in Nodes : Inside(h.cache[m], q) <=> place[q] = "cache" /\ of[q] = m
  BY <1>1, StandsOf
<1>21. /\ IsHeap(g) /\ c2 \in [Lists -> Seq(Data)] /\ ns2 \in [Lists -> Seq(Nodes)]
       /\ of \in [Nodes -> Lists]
  BY <1>2, <1>8, <1>16
<1>19. CASE Len(h.cache[l]) < iCacheSize
            /\ g.cache = [h.cache EXCEPT ![l] = <<p>> \o h.cache[l]] /\ g.free = h.free
  <2>1. PICK place2 : place2 = [place EXCEPT ![p] = "cache"]
    OBVIOUS
  <2>2. /\ place2 \in [Nodes -> {"free", "list", "cache"}] /\ place2[p] = "cache"
        /\ \A q \in Nodes \ {p} : place2[q] = place[q]
    BY <1>2, <1>5, <2>1
  <2>3. \A q \in Nodes : q \in g.free <=> place2[q] = "free"
    BY <1>2, <1>10, <1>19, <2>2
  <2>4. PICK u, v : u = h.cache[l] /\ v = <<p>> \o u
    OBVIOUS
  <2>5. IsConsOf(u, p, v)
    <3>1. u \in Seq(Nodes) /\ Once(u) /\ ~Inside(u, p)
      BY <1>5, <1>10, <1>18, <2>4
    <3> QED BY <1>5, <2>4, <3>1, OnceCons
  <2>6. ASSUME NEW m \in Lists
        PROVE  /\ Once(g.cache[m]) /\ Len(g.cache[m]) <= iCacheSize
               /\ \A q \in Nodes : Inside(g.cache[m], q) <=> place2[q] = "cache" /\ of[q] = m
    <3>1. CASE m = l
      <4>1. g.cache[m] = v
        BY <1>9, <1>19, <2>4, <3>1
      <4>2. Once(v) /\ Len(v) = Len(u) + 1 /\ Len(u) \in Nat /\ \A q : Inside(v, q) <=> Inside(u, q) \/ q = p
        BY <2>5 DEF IsConsOf
      <4>3. Len(v) <= iCacheSize
        BY <1>19, <2>4, <4>2, ListsAssumed
      <4>4. \A q \in Nodes : Inside(u, q) <=> place[q] = "cache" /\ of[q] = m
        BY <1>18, <2>4, <3>1
      <4>5. \A q \in Nodes : Inside(v, q) <=> place2[q] = "cache" /\ of[q] = m
        BY <1>10, <2>2, <3>1, <4>2, <4>4
      <4> QED BY <4>1, <4>2, <4>3, <4>5
    <3>2. CASE m # l
      <4>1. g.cache[m] = h.cache[m]
        BY <1>9, <1>19, <3>2
      <4> QED BY <1>10, <1>18, <2>2, <3>2, <4>1
    <3> QED BY <3>1, <3>2
  <2>7. \A m \in Lists :
           /\ Once(ns2[m]) /\ Linked(g.next, g.prev, ns2[m]) /\ Shows(g, ns2[m], c2[m])
           /\ g.first[m] = NodeAt(ns2[m], 1) /\ g.last[m] = NodeAt(ns2[m], Len(ns2[m]))
           /\ g.count[m] = Len(ns2[m])
           /\ Once(g.cache[m]) /\ Len(g.cache[m]) <= iCacheSize
           /\ \A q \in Nodes : Inside(ns2[m], q) <=> place2[q] = "list" /\ of[q] = m
           /\ \A q \in Nodes : Inside(g.cache[m], q) <=> place2[q] = "cache" /\ of[q] = m
    <3> TAKE m \in Lists
    <3>1. \A q \in Nodes : Inside(ns2[m], q) <=> place2[q] = "list" /\ of[q] = m
      BY <1>17, <2>2
    <3> QED BY <1>17, <2>6, <3>1
  <2>8. Stands(g, c2, ns2, place2, of)
    BY <1>21, <2>2, <2>3, <2>7, StandsFrom
  <2> QED BY <1>4, <1>11, <1>15, <2>8 DEF Standing
<1>20. CASE g.cache = h.cache /\ g.free = h.free \cup {p}
  <2>1. PICK place2 : place2 = [place EXCEPT ![p] = "free"]
    OBVIOUS
  <2>2. /\ place2 \in [Nodes -> {"free", "list", "cache"}] /\ place2[p] = "free"
        /\ \A q \in Nodes \ {p} : place2[q] = place[q]
    BY <1>2, <1>5, <2>1
  <2>3. \A q \in Nodes : q \in g.free <=> place2[q] = "free"
    BY <1>2, <1>20, <2>2
  <2>4. ASSUME NEW m \in Lists
        PROVE  /\ Once(g.cache[m]) /\ Len(g.cache[m]) <= iCacheSize
               /\ \A q \in Nodes : Inside(g.cache[m], q) <=> place2[q] = "cache" /\ of[q] = m
    BY <1>10, <1>18, <1>20, <2>2
  <2>5. \A m \in Lists :
           /\ Once(ns2[m]) /\ Linked(g.next, g.prev, ns2[m]) /\ Shows(g, ns2[m], c2[m])
           /\ g.first[m] = NodeAt(ns2[m], 1) /\ g.last[m] = NodeAt(ns2[m], Len(ns2[m]))
           /\ g.count[m] = Len(ns2[m])
           /\ Once(g.cache[m]) /\ Len(g.cache[m]) <= iCacheSize
           /\ \A q \in Nodes : Inside(ns2[m], q) <=> place2[q] = "list" /\ of[q] = m
           /\ \A q \in Nodes : Inside(g.cache[m], q) <=> place2[q] = "cache" /\ of[q] = m
    <3> TAKE m \in Lists
    <3>1. \A q \in Nodes : Inside(ns2[m], q) <=> place2[q] = "list" /\ of[q] = m
      BY <1>17, <2>2
    <3> QED BY <1>17, <2>4, <3>1
  <2>6. Stands(g, c2, ns2, place2, of)
    BY <1>21, <2>2, <2>3, <2>5, StandsFrom
  <2> QED BY <1>4, <1>11, <1>15, <2>6 DEF Standing
<1> QED BY <1>8, <1>19, <1>20

-----------------------------------------------------------------------------
(* Walking a list, and turning it round. *)

\* A chain is a path from its first node, whichever links are followed.
LEMMA PathOf ==
    ASSUME NEW s \in Seq(Nodes), NEW nx, NEW pv, Linked(nx, pv, s)
    PROVE  IsPath(nx, s, NodeAt(s, 1))
BY DEF IsPath, Linked

\* t is s the other way round.
IsReverse(s, t) ==
    /\ Len(t) = Len(s)
    /\ \A k \in 1..Len(s) : (Len(s) - k) + 1 \in 1..Len(s) /\ t[k] = s[(Len(s) - k) + 1]

\* What Reverse returns.
LEMMA ReverseIs ==
    ASSUME NEW S, NEW s \in Seq(S), NEW t, t = Listing!Reverse(s)
    PROVE  t \in Seq(S) /\ IsReverse(s, t)
<1>1. Len(s) \in Nat /\ \A k \in 1..Len(s) : (Len(s) - k) + 1 \in 1..Len(s)
  OBVIOUS
<1>2. t = [k \in 1..Len(s) |-> s[(Len(s) - k) + 1]]
  BY DEF Listing!Reverse
<1>3. t \in [1..Len(s) -> S]
  BY <1>1, <1>2
<1>4. t \in Seq(S) /\ Len(t) = Len(s)
  BY <1>1, <1>3, SeqOfFunction
<1> QED BY <1>1, <1>2, <1>4 DEF IsReverse

\* t is the chain s with its links exchanged.
IsTurned(s, nx, pv, t) ==
    /\ t \in Seq(Nodes) /\ Len(t) = Len(s) /\ Once(t) /\ Linked(pv, nx, t)
    /\ NodeAt(t, 1) = NodeAt(s, Len(s)) /\ NodeAt(t, Len(t)) = NodeAt(s, 1)
    /\ \A q : Inside(t, q) <=> Inside(s, q)

\* A chain is a chain in the other direction.
LEMMA ChainTurned ==
    ASSUME NEW s \in Seq(Nodes), Once(s), NEW nx, NEW pv, Linked(nx, pv, s), NEW t, t = Listing!Reverse(s)
    PROVE  IsTurned(s, nx, pv, t)
<1>1. t \in Seq(Nodes) /\ IsReverse(s, t)
  BY ReverseIs
<1>2. /\ Len(s) \in Nat /\ Len(t) = Len(s)
      /\ \A k \in 1..Len(s) : (Len(s) - k) + 1 \in 1..Len(s) /\ t[k] = s[(Len(s) - k) + 1]
  BY <1>1 DEF IsReverse
<1>3. Once(t)
  <2> SUFFICES ASSUME NEW a \in 1..Len(t), NEW b \in 1..Len(t), t[a] = t[b] PROVE a = b
    BY DEF Once
  <2>1. (Len(s) - a) + 1 \in 1..Len(s) /\ (Len(s) - b) + 1 \in 1..Len(s)
        /\ s[(Len(s) - a) + 1] = s[(Len(s) - b) + 1]
    BY <1>2
  <2>2. (Len(s) - a) + 1 = (Len(s) - b) + 1
    BY <2>1 DEF Once
  <2> QED BY <1>2, <2>2
<1>4. \A k \in Int : NodeAt(t, k) = NodeAt(s, (Len(s) - k) + 1)
  <2> TAKE k \in Int
  <2>1. CASE k \in 1..Len(s)
    BY <1>2, <2>1 DEF NodeAt
  <2>2. CASE k \notin 1..Len(s)
    <3>1. (Len(s) - k) + 1 \notin 1..Len(s)
      BY <1>2, <2>2
    <3> QED BY <1>2, <2>2, <3>1 DEF NodeAt
  <2> QED BY <2>1, <2>2
<1>5. Linked(pv, nx, t)
  <2> SUFFICES ASSUME NEW k \in 1..Len(t)
               PROVE  pv[t[k]] = NodeAt(t, k + 1) /\ nx[t[k]] = NodeAt(t, k - 1)
    BY DEF Linked
  <2>1. PICK o : o = (Len(s) - k) + 1
    OBVIOUS
  <2>2. o \in 1..Len(s) /\ t[k] = s[o] /\ o \in Int
    BY <1>2, <2>1
  <2>3. nx[s[o]] = NodeAt(s, o + 1) /\ pv[s[o]] = NodeAt(s, o - 1)
    BY <2>2 DEF Linked
  <2>4. NodeAt(t, k + 1) = NodeAt(s, (Len(s) - (k + 1)) + 1) /\ NodeAt(t, k - 1) = NodeAt(s, (Len(s) - (k - 1)) + 1)
    <3>1. k + 1 \in Int /\ k - 1 \in Int
      OBVIOUS
    <3> QED BY <1>4, <3>1
  <2>5. (Len(s) - (k + 1)) + 1 = o - 1 /\ (Len(s) - (k - 1)) + 1 = o + 1
    BY <1>2, <2>1
  <2> QED BY <2>2, <2>3, <2>4, <2>5
<1>6. NodeAt(t, 1) = NodeAt(s, Len(s)) /\ NodeAt(t, Len(t)) = NodeAt(s, 1)
  <2>1. (Len(s) - 1) + 1 = Len(s) /\ (Len(s) - Len(s)) + 1 = 1 /\ 1 \in Int /\ Len(s) \in Int
    BY <1>2
  <2> QED BY <1>2, <1>4, <2>1
<1>7. ASSUME NEW q PROVE Inside(t, q) <=> Inside(s, q)
  <2>1. ASSUME NEW k \in 1..Len(t), t[k] = q PROVE Inside(s, q)
    BY <1>2, <2>1 DEF Inside
  <2>2. ASSUME NEW k \in 1..Len(s), s[k] = q PROVE Inside(t, q)
    <3>1. (Len(s) - k) + 1 \in 1..Len(t) /\ (Len(s) - ((Len(s) - k) + 1)) + 1 = k
      BY <1>2
    <3>2. t[(Len(s) - k) + 1] = s[(Len(s) - ((Len(s) - k) + 1)) + 1]
      BY <1>2, <3>1
    <3> QED BY <2>2, <3>1, <3>2 DEF Inside
  <2> QED BY <2>1, <2>2 DEF Inside
<1> QED BY <1>1, <1>2, <1>3, <1>5, <1>6, <1>7 DEF IsTurned

\* Walking from the i-th on.
LEMMA WalkFrom ==
    ASSUME NEW s \in Seq(Nodes), Once(s), NEW nx, NEW pv, Linked(nx, pv, s), NEW j \in 1..Len(s)
    PROVE  Len(Listing!Walk(nx, s[j])) = (Len(s) - j) + 1
<1>1. Len(s) \in Nat /\ j \in Int /\ j - 1 \in 0..Len(s)
  OBVIOUS
<1>2. PICK u : u = Listing!Suffix(s, j - 1)
  OBVIOUS
<1>3. u \in Seq(Nodes) /\ Len(u) = Len(s) - (j - 1) /\ \A k \in 1..Len(s) - (j - 1) : u[k] = s[(j - 1) + k]
  <2>1. PICK o : o = j - 1
    OBVIOUS
  <2>2. o \in 0..Len(s) /\ u = Listing!Suffix(s, o)
    BY <1>1, <1>2, <2>1
  <2>3. u \in Seq(Nodes) /\ Len(u) = Len(s) - o /\ \A k \in 1..Len(s) - o : u[k] = s[o + k]
    <3>1. u \in Seq(Nodes) /\ IsSuffixOf(s, o, u)
      BY <2>2, SuffixIs
    <3> QED BY <3>1 DEF IsSuffixOf
  <2> QED BY <2>1, <2>3
<1>4. \A k \in 1..Len(u) : (j - 1) + k \in 1..Len(s) /\ u[k] = s[(j - 1) + k]
  BY <1>1, <1>3
<1>5. Once(u)
  <2> SUFFICES ASSUME NEW a \in 1..Len(u), NEW b \in 1..Len(u), u[a] = u[b] PROVE a = b
    BY DEF Once
  <2>1. (j - 1) + a = (j - 1) + b
    BY <1>4 DEF Once
  <2> QED BY <1>1, <2>1
<1>6. \A k \in Nat \ {0} : NodeAt(u, k) = NodeAt(s, (j - 1) + k)
  <2> TAKE k \in Nat \ {0}
  <2>1. k \in 1..Len(u) <=> (j - 1) + k \in 1..Len(s)
    BY <1>1, <1>3
  <2> QED BY <1>4, <2>1 DEF NodeAt
<1>7. \A k \in 1..Len(u) : nx[u[k]] = NodeAt(u, k + 1)
  <2> TAKE k \in 1..Len(u)
  <2>1. nx[s[(j - 1) + k]] = NodeAt(s, ((j - 1) + k) + 1)
    BY <1>4 DEF Linked
  <2>2. k + 1 \in Nat \ {0} /\ (j - 1) + (k + 1) = ((j - 1) + k) + 1
    BY <1>1
  <2> QED BY <1>4, <1>6, <2>1, <2>2
<1>8. s[j] = NodeAt(u, 1)
  <2>1. NodeAt(u, 1) = NodeAt(s, (j - 1) + 1) /\ (j - 1) + 1 = j
    BY <1>1, <1>6
  <2> QED BY <2>1 DEF NodeAt
<1>9. Listing!Walk(nx, s[j]) = u
  <2>1. IsPath(nx, u, s[j])
    BY <1>3, <1>7, <1>8 DEF IsPath
  <2> QED BY <1>5, <2>1, WalkIs
<1> QED BY <1>1, <1>3, <1>9

\* What the walks of a list yield.
IsWalked(h, ns, l) ==
    /\ Listing!Chain(h, l) = ns[l]
    /\ Listing!Walk(h.prev, h.last[l]) = Listing!Reverse(ns[l])
    /\ \A k \in 1..Len(ns[l]) : /\ Len(Listing!Walk(h.next, ns[l][k])) = (Len(ns[l]) - k) + 1
                                /\ Len(Listing!Walk(h.prev, ns[l][k])) = k

\* Both walks of a list yield its chain.
LEMMA ListIsWalked ==
    ASSUME NEW h, NEW c, NEW ns, Standing(h, c, ns), NEW l \in Lists
    PROVE  IsWalked(h, ns, l)
<1>1. PICK s : s = ns[l]
  OBVIOUS
<1>2. /\ s \in Seq(Nodes) /\ Len(s) \in Nat /\ Once(s) /\ Linked(h.next, h.prev, s)
      /\ h.first[l] = NodeAt(s, 1) /\ h.last[l] = NodeAt(s, Len(s))
  BY <1>1, StandingOf
<1>3. Listing!Chain(h, l) = s
  <2>1. IsPath(h.next, s, NodeAt(s, 1))
    BY <1>2, PathOf
  <2>2. Listing!Walk(h.next, NodeAt(s, 1)) = s
    BY <1>2, <2>1, WalkIs
  <2> QED BY <1>2, <2>2 DEF Listing!Chain
<1>4. PICK t : t = Listing!Reverse(s)
  OBVIOUS
<1>5. IsTurned(s, h.next, h.prev, t)
  BY <1>2, <1>4, ChainTurned
<1>6. /\ t \in Seq(Nodes) /\ Len(t) = Len(s) /\ Once(t) /\ Linked(h.prev, h.next, t)
      /\ NodeAt(t, 1) = NodeAt(s, Len(s))
  BY <1>5 DEF IsTurned
<1>7. Listing!Walk(h.prev, h.last[l]) = t
  <2>1. IsPath(h.prev, t, NodeAt(t, 1))
    BY <1>6, PathOf
  <2>2. Listing!Walk(h.prev, NodeAt(t, 1)) = t
    BY <1>6, <2>1, WalkIs
  <2> QED BY <1>2, <1>6, <2>2
<1>8. ASSUME NEW k \in 1..Len(s)
      PROVE  /\ Len(Listing!Walk(h.next, s[k])) = (Len(s) - k) + 1
             /\ Len(Listing!Walk(h.prev, s[k])) = k
  <2>1. Len(Listing!Walk(h.next, s[k])) = (Len(s) - k) + 1
    BY <1>2, WalkFrom
  <2>2. PICK o : o = (Len(s) - k) + 1
    OBVIOUS
  <2>3. o \in 1..Len(t) /\ (Len(t) - o) + 1 = k
    BY <1>2, <1>6, <2>2
  <2>4. t[o] = s[k]
    <3>1. IsReverse(s, t)
      BY <1>2, <1>4, ReverseIs
    <3>2. t[o] = s[(Len(s) - o) + 1]
      BY <1>6, <2>3, <3>1 DEF IsReverse
    <3> QED BY <1>6, <2>3, <3>2
  <2>5. Len(Listing!Walk(h.prev, t[o])) = (Len(t) - o) + 1
    BY <1>6, <2>3, WalkFrom
  <2> QED BY <2>1, <2>3, <2>4, <2>5
<1> QED BY <1>1, <1>3, <1>4, <1>7, <1>8 DEF IsWalked

\* The elements of a sequence.
LEMMA RangeIs ==
    ASSUME NEW S, NEW s \in Seq(S)
    PROVE  \A q : q \in Listing!Range(s) <=> Inside(s, q)
<1>1. DOMAIN s = 1..Len(s)
  OBVIOUS
<1> QED BY <1>1 DEF Listing!Range, Inside

\* A list that is emptied leaves everything standing.
LEMMA RemoveAllKeeps ==
    ASSUME NEW h, NEW c, NEW ns, Standing(h, c, ns), NEW l \in Lists, NEW g, g = Listing!RemoveAll(h, l)
    PROVE  Standing(g, [c EXCEPT ![l] = <<>>], [ns EXCEPT ![l] = <<>>])
<1>1. PICK place, of : Stands(h, c, ns, place, of)
  BY DEF Standing
<1>2. /\ IsHeap(h) /\ c \in [Lists -> Seq(Data)] /\ ns \in [Lists -> Seq(Nodes)]
      /\ place \in [Nodes -> {"free", "list", "cache"}] /\ of \in [Nodes -> Lists]
      /\ \A q \in Nodes : q \in h.free <=> place[q] = "free"
  BY <1>1, StandsAll
<1>3. PICK N : N = Listing!Range(Listing!Chain(h, l))
  OBVIOUS
<1>4. \A q : q \in N <=> Inside(ns[l], q)
  <2>1. Listing!Chain(h, l) = ns[l]
    BY ListIsWalked DEF IsWalked
  <2>2. ns[l] \in Seq(Nodes)
    BY <1>2
  <2> QED BY <1>3, <2>1, <2>2, RangeIs
<1>5. N \subseteq Nodes
  <2>1. ns[l] \in Seq(Nodes)
    BY <1>2
  <2> QED BY <1>4, <2>1 DEF Inside
<1>6. PICK f : f = [h EXCEPT !.first[l] = Null, !.last[l] = Null, !.count[l] = 0]
  OBVIOUS
<1>7. IsHeap(f)
  <2>1. IsHeap(h) /\ Null \in Nodes \cup {Null} /\ 0 \in Int
    BY <1>2
  <2>2. PICK a, b, k : a = Null /\ b = Null /\ k = 0
    OBVIOUS
  <2>3. f = [h EXCEPT !.first[l] = a, !.last[l] = b, !.count[l] = k]
    BY <1>6, <2>2
  <2> QED BY <2>1, <2>2, <2>3, AnchorsSet
<1>8. /\ f.first = [h.first EXCEPT ![l] = Null] /\ f.last = [h.last EXCEPT ![l] = Null]
      /\ f.count = [h.count EXCEPT ![l] = 0] /\ f.cache = h.cache /\ f.free = h.free
      /\ f.next = h.next /\ f.prev = h.prev /\ f.data = h.data
  BY <1>2, <1>6 DEF IsHeap
<1>9. g = Listing!Free(f, N)
  <2>1. f = [h EXCEPT !.count[l] = 0, !.first[l] = Null, !.last[l] = Null]
    BY <1>2, <1>6 DEF IsHeap
  <2> QED BY <1>3, <2>1 DEF Listing!RemoveAll
<1>10. IsFreed(f, N, g)
  BY <1>5, <1>7, <1>9, FreeIs
<1>11. /\ IsHeap(g) /\ g.free = h.free \cup N
       /\ g.first = [h.first EXCEPT ![l] = Null] /\ g.last = [h.last EXCEPT ![l] = Null]
       /\ g.count = [h.count EXCEPT ![l] = 0] /\ g.cache = h.cache
       /\ \A q \in Nodes : q \notin N => g.next[q] = h.next[q] /\ g.prev[q] = h.prev[q] /\ g.data[q] = h.data[q]
  BY <1>8, <1>10 DEF IsFreed
<1>12. PICK place2 : place2 = [q \in Nodes |-> IF q \in N THEN "free" ELSE place[q]]
  OBVIOUS
<1>13. /\ place2 \in [Nodes -> {"free", "list", "cache"}]
       /\ \A q \in Nodes : place2[q] = IF q \in N THEN "free" ELSE place[q]
  BY <1>2, <1>12
<1>14. \A q \in Nodes : q \in N <=> place[q] = "list" /\ of[q] = l
  <2>1. \A q \in Nodes : Inside(ns[l], q) <=> place[q] = "list" /\ of[q] = l
    BY <1>1, StandsOf
  <2> QED BY <1>4, <2>1
<1>15. PICK c2, ns2 : c2 = [c EXCEPT ![l] = <<>>] /\ ns2 = [ns EXCEPT ![l] = <<>>]
  OBVIOUS
<1>16. /\ c2 \in [Lists -> Seq(Data)] /\ c2[l] = <<>> /\ \A m \in Lists \ {l} : c2[m] = c[m]
       /\ ns2 \in [Lists -> Seq(Nodes)] /\ ns2[l] = <<>> /\ \A m \in Lists \ {l} : ns2[m] = ns[m]
  <2>1. <<>> \in Seq(Data) /\ <<>> \in Seq(Nodes)
    BY EmptySeq
  <2> QED BY <1>2, <1>15, <2>1
<1>17. \A q \in Nodes : q \in g.free <=> place2[q] = "free"
  BY <1>2, <1>11, <1>13
<1>18. ASSUME NEW m \in Lists
       PROVE  /\ Once(ns2[m]) /\ Linked(g.next, g.prev, ns2[m]) /\ Shows(g, ns2[m], c2[m])
              /\ g.first[m] = NodeAt(ns2[m], 1) /\ g.last[m] = NodeAt(ns2[m], Len(ns2[m]))
              /\ g.count[m] = Len(ns2[m])
              /\ Once(g.cache[m]) /\ Len(g.cache[m]) <= iCacheSize
              /\ \A q \in Nodes : Inside(ns2[m], q) <=> place2[q] = "list" /\ of[q] = m
              /\ \A q \in Nodes : Inside(g.cache[m], q) <=> place2[q] = "cache" /\ of[q] = m
  <2>1. /\ ns[m] \in Seq(Nodes) /\ Once(ns[m]) /\ Linked(h.next, h.prev, ns[m]) /\ Shows(h, ns[m], c[m])
        /\ h.first[m] = NodeAt(ns[m], 1) /\ h.last[m] = NodeAt(ns[m], Len(ns[m]))
        /\ h.count[m] = Len(ns[m])
        /\ Once(h.cache[m]) /\ Len(h.cache[m]) <= iCacheSize
    BY <1>1, StandsOf
  <2>2. /\ \A q \in Nodes : Inside(ns[m], q) <=> place[q] = "list" /\ of[q] = m
        /\ \A q \in Nodes : Inside(h.cache[m], q) <=> place[q] = "cache" /\ of[q] = m
    BY <1>1, StandsOf
  <2>3. h.first \in [Lists -> Nodes \cup {Null}] /\ h.last \in [Lists -> Nodes \cup {Null}]
        /\ h.count \in [Lists -> Int]
    BY <1>2 DEF IsHeap
  <2>4. Once(g.cache[m]) /\ Len(g.cache[m]) <= iCacheSize
        /\ \A q \in Nodes : Inside(g.cache[m], q) <=> place2[q] = "cache" /\ of[q] = m
    BY <1>11, <1>13, <1>14, <2>1, <2>2
  <2>5. CASE m = l
    <3>1. Len(ns2[m]) = 0 /\ Len(c2[m]) = 0 /\ ns2[m] = <<>>
      BY <1>16, <2>5, EmptySeq
    <3>2. Once(ns2[m]) /\ Linked(g.next, g.prev, ns2[m]) /\ Shows(g, ns2[m], c2[m]) /\ \A q : ~Inside(ns2[m], q)
      BY <3>1 DEF Once, Linked, Shows, Inside
    <3>3. NodeAt(ns2[m], 1) = Null /\ NodeAt(ns2[m], Len(ns2[m])) = Null
      BY <3>1 DEF NodeAt
    <3>4. g.first[m] = Null /\ g.last[m] = Null /\ g.count[m] = 0
      BY <1>11, <2>3, <2>5
    <3>5. \A q \in Nodes : ~(place2[q] = "list" /\ of[q] = m)
      BY <1>13, <1>14, <2>5
    <3> QED BY <2>4, <3>1, <3>2, <3>3, <3>4, <3>5
  <2>6. CASE m # l
    <3>1. ns2[m] = ns[m] /\ c2[m] = c[m]
      BY <1>16, <2>6
    <3>2. \A q \in Nodes : Inside(ns[m], q) => q \notin N
      BY <1>14, <2>2, <2>6
    <3>3. \A q \in Nodes : Inside(ns[m], q) => /\ g.next[q] = h.next[q] /\ g.prev[q] = h.prev[q]
                                               /\ g.data[q] = h.data[q]
      BY <1>11, <3>2
    <3>4. Linked(g.next, g.prev, ns[m]) /\ Shows(g, ns[m], c[m])
      <4>1. /\ ns[m] \in Seq(Nodes) /\ Linked(h.next, h.prev, ns[m]) /\ Shows(h, ns[m], c[m])
        BY <2>1
      <4> QED BY <3>3, <4>1, OthersStand, Zenon
    <3>5. g.first[m] = h.first[m] /\ g.last[m] = h.last[m] /\ g.count[m] = h.count[m]
      BY <1>11, <2>3, <2>6
    <3>6. \A q \in Nodes : Inside(ns[m], q) <=> place2[q] = "list" /\ of[q] = m
      BY <1>13, <1>14, <2>2, <2>6
    <3> QED BY <2>1, <2>4, <3>1, <3>4, <3>5, <3>6
  <2> QED BY <2>5, <2>6
<1>19. Stands(g, c2, ns2, place2, of)
  <2>1. IsHeap(g)
    BY <1>11
  <2> QED BY <1>2, <1>13, <1>16, <1>17, <1>18, <2>1, StandsFrom
<1> QED BY <1>15, <1>19 DEF Standing

-----------------------------------------------------------------------------
(* Turning a list round, and moving a part of it to another. *)

\* An operation on the nodes of the lists alone.
LEMMA StandsMoved ==
    ASSUME NEW h, NEW c, NEW ns, NEW place, NEW of, Stands(h, c, ns, place, of),
           NEW g, IsHeap(g), g.cache = h.cache, g.free = h.free,
           NEW c2 \in [Lists -> Seq(Data)], NEW ns2 \in [Lists -> Seq(Nodes)],
           NEW of2 \in [Nodes -> Lists], \A q \in Nodes : place[q] # "list" => of2[q] = of[q],
           \A m \in Lists :
               /\ Once(ns2[m]) /\ Linked(g.next, g.prev, ns2[m]) /\ Shows(g, ns2[m], c2[m])
               /\ g.first[m] = NodeAt(ns2[m], 1) /\ g.last[m] = NodeAt(ns2[m], Len(ns2[m]))
               /\ g.count[m] = Len(ns2[m])
               /\ \A q \in Nodes : Inside(ns2[m], q) <=> place[q] = "list" /\ of2[q] = m
    PROVE  Stands(g, c2, ns2, place, of2)
<1>1. /\ place \in [Nodes -> {"free", "list", "cache"}]
      /\ \A q \in Nodes : q \in g.free <=> place[q] = "free"
  BY StandsAll
<1>2. ASSUME NEW m \in Lists
      PROVE  /\ Once(ns2[m]) /\ Linked(g.next, g.prev, ns2[m]) /\ Shows(g, ns2[m], c2[m])
             /\ g.first[m] = NodeAt(ns2[m], 1) /\ g.last[m] = NodeAt(ns2[m], Len(ns2[m]))
             /\ g.count[m] = Len(ns2[m])
             /\ Once(g.cache[m]) /\ Len(g.cache[m]) <= iCacheSize
             /\ \A q \in Nodes : Inside(ns2[m], q) <=> place[q] = "list" /\ of2[q] = m
             /\ \A q \in Nodes : Inside(g.cache[m], q) <=> place[q] = "cache" /\ of2[q] = m
  <2>1. /\ Once(h.cache[m]) /\ Len(h.cache[m]) <= iCacheSize
        /\ \A q \in Nodes : Inside(h.cache[m], q) <=> place[q] = "cache" /\ of[q] = m
    BY StandsOf
  <2>2. \A q \in Nodes : Inside(g.cache[m], q) <=> place[q] = "cache" /\ of2[q] = m
    BY <2>1
  <2> QED BY <2>1, <2>2
<1> QED BY <1>1, <1>2, StandsFrom

\* The objects of a chain in the other direction.
LEMMA ShowsTurned ==
    ASSUME NEW s \in Seq(Nodes), NEW d \in Seq(Data), NEW h, Shows(h, s, d),
           NEW g, g.data = h.data, NEW t, t = Listing!Reverse(s), NEW e, e = Listing!Reverse(d)
    PROVE  Shows(g, t, e) /\ e \in Seq(Data)
<1>1. IsReverse(s, t) /\ IsReverse(d, e) /\ e \in Seq(Data)
  BY ReverseIs
<1>2. /\ Len(d) = Len(s) /\ \A k \in 1..Len(s) : d[k] = h.data[s[k]]
  BY DEF Shows
<1>3. Len(t) = Len(s) /\ \A k \in 1..Len(s) : (Len(s) - k) + 1 \in 1..Len(s) /\ t[k] = s[(Len(s) - k) + 1]
  BY <1>1 DEF IsReverse
<1>4. Len(e) = Len(d) /\ \A k \in 1..Len(d) : e[k] = d[(Len(d) - k) + 1]
  BY <1>1 DEF IsReverse
<1>5. ASSUME NEW k \in 1..Len(t) PROVE e[k] = g.data[t[k]]
  <2>1. PICK o : o = (Len(s) - k) + 1
    OBVIOUS
  <2>2. o \in 1..Len(s) /\ t[k] = s[o] /\ e[k] = d[o]
    BY <1>2, <1>3, <1>4, <2>1
  <2> QED BY <1>2, <2>2
<1> QED BY <1>1, <1>2, <1>3, <1>4, <1>5 DEF Shows

\* g is h with new links and with a and b at the ends of l.
Replaced(h, l, nx, pv, a, b, g) ==
    /\ IsHeap(h) /\ a \in Nodes \cup {Null} /\ b \in Nodes \cup {Null}
    /\ nx \in [Nodes -> Nodes \cup {Null}] /\ pv \in [Nodes -> Nodes \cup {Null}]
    /\ g = [h EXCEPT !.next = nx, !.prev = pv, !.first[l] = a, !.last[l] = b]

\* Other links and ends are of the right types.
LEMMA ReplacedIsHeap ==
    ASSUME NEW h, NEW l \in Lists, NEW a, NEW b, NEW nx, NEW pv, NEW g, Replaced(h, l, nx, pv, a, b, g)
    PROVE  IsHeap(g)
BY DEF IsHeap, Replaced

\* A list that is turned round leaves everything standing.
LEMMA ReverseKeeps ==
    ASSUME NEW h, NEW c, NEW ns, Standing(h, c, ns), NEW l \in Lists, NEW g, g = Listing!ReverseList(h, l)
    PROVE  Standing(g, [c EXCEPT ![l] = Listing!Reverse(c[l])], [ns EXCEPT ![l] = Listing!Reverse(ns[l])])
<1>1. PICK place, of : Stands(h, c, ns, place, of)
  BY DEF Standing
<1>2. /\ IsHeap(h) /\ c \in [Lists -> Seq(Data)] /\ ns \in [Lists -> Seq(Nodes)]
      /\ of \in [Nodes -> Lists]
  BY <1>1, StandsAll
<1>3. PICK N : N = Listing!Range(Listing!Chain(h, l))
  OBVIOUS
<1>4. \A q : q \in N <=> Inside(ns[l], q)
  <2>1. Listing!Chain(h, l) = ns[l]
    BY ListIsWalked DEF IsWalked
  <2>2. ns[l] \in Seq(Nodes)
    BY <1>2
  <2> QED BY <1>3, <2>1, <2>2, RangeIs
<1>5. PICK nx, pv, a, b : /\ nx = [n \in Nodes |-> IF n \in N THEN h.prev[n] ELSE h.next[n]]
                          /\ pv = [n \in Nodes |-> IF n \in N THEN h.next[n] ELSE h.prev[n]]
                          /\ a = h.last[l] /\ b = h.first[l]
  OBVIOUS
<1>6. /\ nx \in [Nodes -> Nodes \cup {Null}] /\ pv \in [Nodes -> Nodes \cup {Null}]
      /\ a \in Nodes \cup {Null} /\ b \in Nodes \cup {Null}
  BY <1>2, <1>5 DEF IsHeap
<1>7. g = [h EXCEPT !.next = nx, !.prev = pv, !.first[l] = a, !.last[l] = b]
  BY <1>3, <1>5 DEF Listing!ReverseList, IsHeap
<1>8. IsHeap(g)
  <2>1. IsHeap(h)
    BY <1>2
  <2>2. Replaced(h, l, nx, pv, a, b, g)
    BY <1>6, <1>7, <2>1 DEF Replaced
  <2> QED BY <2>2, ReplacedIsHeap
<1>9. /\ g.next = nx /\ g.prev = pv /\ g.data = h.data /\ g.cache = h.cache /\ g.free = h.free
      /\ g.count = h.count /\ g.first = [h.first EXCEPT ![l] = a] /\ g.last = [h.last EXCEPT ![l] = b]
  BY <1>2, <1>7 DEF IsHeap
<1>10. PICK t, d : t = Listing!Reverse(ns[l]) /\ d = Listing!Reverse(c[l])
  OBVIOUS
<1>11. /\ ns[l] \in Seq(Nodes) /\ c[l] \in Seq(Data) /\ Once(ns[l]) /\ Linked(h.next, h.prev, ns[l])
       /\ Shows(h, ns[l], c[l])
       /\ h.first[l] = NodeAt(ns[l], 1) /\ h.last[l] = NodeAt(ns[l], Len(ns[l])) /\ h.count[l] = Len(ns[l])
  BY <1>1, StandsOf
<1>12. IsTurned(ns[l], h.next, h.prev, t)
  BY <1>10, <1>11, ChainTurned
<1>13. /\ t \in Seq(Nodes) /\ Len(t) = Len(ns[l]) /\ Once(t) /\ Linked(h.prev, h.next, t)
       /\ NodeAt(t, 1) = NodeAt(ns[l], Len(ns[l])) /\ NodeAt(t, Len(t)) = NodeAt(ns[l], 1)
       /\ \A q : Inside(t, q) <=> Inside(ns[l], q)
  BY <1>12 DEF IsTurned
<1>14. Shows(g, t, d) /\ d \in Seq(Data)
  <2>1. PICK s, e : s = ns[l] /\ e = c[l]
    OBVIOUS
  <2>2. s \in Seq(Nodes) /\ e \in Seq(Data) /\ Shows(h, s, e) /\ g.data = h.data
    BY <1>9, <1>11, <2>1
  <2> QED BY <1>10, <2>1, <2>2, ShowsTurned
<1>15. Linked(nx, pv, t)
  <2>1. \A q \in Nodes : Inside(t, q) => nx[q] = h.prev[q] /\ pv[q] = h.next[q]
    BY <1>4, <1>5, <1>13
  <2> QED BY <1>13, <2>1, ChainUntouched
<1>16. PICK c2, ns2 : c2 = [c EXCEPT ![l] = d] /\ ns2 = [ns EXCEPT ![l] = t]
  OBVIOUS
<1>17. /\ c2 \in [Lists -> Seq(Data)] /\ c2[l] = d /\ \A m \in Lists \ {l} : c2[m] = c[m]
       /\ ns2 \in [Lists -> Seq(Nodes)] /\ ns2[l] = t /\ \A m \in Lists \ {l} : ns2[m] = ns[m]
  BY <1>2, <1>13, <1>14, <1>16
<1>18. ASSUME NEW m \in Lists
       PROVE  /\ Once(ns2[m]) /\ Linked(g.next, g.prev, ns2[m]) /\ Shows(g, ns2[m], c2[m])
              /\ g.first[m] = NodeAt(ns2[m], 1) /\ g.last[m] = NodeAt(ns2[m], Len(ns2[m]))
              /\ g.count[m] = Len(ns2[m])
              /\ \A q \in Nodes : Inside(ns2[m], q) <=> place[q] = "list" /\ of[q] = m
  <2>1. /\ ns[m] \in Seq(Nodes) /\ Once(ns[m]) /\ Linked(h.next, h.prev, ns[m]) /\ Shows(h, ns[m], c[m])
        /\ h.first[m] = NodeAt(ns[m], 1) /\ h.last[m] = NodeAt(ns[m], Len(ns[m]))
        /\ h.count[m] = Len(ns[m])
        /\ \A q \in Nodes : Inside(ns[m], q) <=> place[q] = "list" /\ of[q] = m
    BY <1>1, StandsOf
  <2>2. h.first \in [Lists -> Nodes \cup {Null}] /\ h.last \in [Lists -> Nodes \cup {Null}]
    BY <1>2 DEF IsHeap
  <2>3. CASE m = l
    <3>1. g.first[m] = NodeAt(t, 1) /\ g.last[m] = NodeAt(t, Len(t)) /\ g.count[m] = Len(t)
      BY <1>5, <1>9, <1>11, <1>13, <2>2, <2>3
    <3>2. \A q \in Nodes : Inside(t, q) <=> place[q] = "list" /\ of[q] = m
      BY <1>13, <2>1, <2>3
    <3> QED BY <1>9, <1>13, <1>14, <1>15, <1>17, <2>3, <3>1, <3>2
  <2>4. CASE m # l
    <3>1. ns2[m] = ns[m] /\ c2[m] = c[m]
      BY <1>17, <2>4
    <3>2. \A q \in Nodes : Inside(ns[m], q) => q \notin N
      <4>1. \A q \in Nodes : Inside(ns[l], q) <=> place[q] = "list" /\ of[q] = l
        BY <1>1, StandsOf
      <4> QED BY <1>4, <2>1, <2>4, <4>1
    <3>3. \A q \in Nodes : Inside(ns[m], q) => /\ g.next[q] = h.next[q] /\ g.prev[q] = h.prev[q]
                                               /\ g.data[q] = h.data[q]
      BY <1>5, <1>9, <3>2
    <3>4. Linked(g.next, g.prev, ns[m]) /\ Shows(g, ns[m], c[m])
      <4>1. /\ ns[m] \in Seq(Nodes) /\ Linked(h.next, h.prev, ns[m]) /\ Shows(h, ns[m], c[m])
        BY <2>1
      <4> QED BY <3>3, <4>1, OthersStand, Zenon
    <3>5. g.first[m] = h.first[m] /\ g.last[m] = h.last[m] /\ g.count[m] = h.count[m]
      BY <1>9, <2>2, <2>4
    <3> QED BY <2>1, <3>1, <3>4, <3>5
  <2> QED BY <2>3, <2>4
<1>19. Stands(g, c2, ns2, place, of)
  <2>1. /\ g.cache = h.cache /\ g.free = h.free /\ c2 \in [Lists -> Seq(Data)]
        /\ ns2 \in [Lists -> Seq(Nodes)] /\ of \in [Nodes -> Lists]
        /\ \A q \in Nodes : place[q] # "list" => of[q] = of[q]
    BY <1>2, <1>9, <1>17
  <2> QED BY <1>1, <1>8, <1>18, <2>1, StandsMoved
<1> QED BY <1>10, <1>16, <1>19 DEF Standing

-----------------------------------------------------------------------------
(* Chains that are cut and joined. *)

\* The first j of a chain, the last of which ends it.
LEMMA ChainPrefix ==
    ASSUME NEW s \in Seq(Nodes), Once(s), NEW nx, NEW pv, Linked(nx, pv, s), NEW j \in 0..Len(s),
           NEW t, t = Listing!Prefix(s, j), NEW nx2, NEW pv2,
           \A q \in Nodes : Inside(t, q) => nx2[q] = (IF q = NodeAt(s, j) THEN Null ELSE nx[q]) /\ pv2[q] = pv[q]
    PROVE  Linked(nx2, pv2, t)
<1>1. t \in Seq(Nodes) /\ IsPrefixOf(s, j, t)
  BY PrefixIs
<1>2. /\ Len(t) = j /\ Len(s) \in Nat /\ j \in Int /\ j <= Len(s)
      /\ \A k \in 1..j : t[k] = s[k]
  BY <1>1 DEF IsPrefixOf
<1> SUFFICES ASSUME NEW k \in 1..Len(t) PROVE nx2[t[k]] = NodeAt(t, k + 1) /\ pv2[t[k]] = NodeAt(t, k - 1)
  BY DEF Linked
<1>3. t[k] = s[k] /\ k \in 1..Len(s) /\ s[k] \in Nodes /\ Inside(t, s[k])
  BY <1>2 DEF Inside
<1>4. nx[s[k]] = NodeAt(s, k + 1) /\ pv[s[k]] = NodeAt(s, k - 1)
  BY <1>3 DEF Linked
<1>5. s[k] = NodeAt(s, j) <=> k = j
  BY <1>2, <1>3, ListsAssumed DEF NodeAt, Once
<1>6. NodeAt(t, k - 1) = NodeAt(s, k - 1)
  BY <1>2 DEF NodeAt
<1>7. NodeAt(t, k + 1) = IF k = j THEN Null ELSE NodeAt(s, k + 1)
  BY <1>2 DEF NodeAt
<1> QED BY <1>3, <1>4, <1>5, <1>6, <1>7

\* The others, the first of which starts it.
LEMMA ChainSuffix ==
    ASSUME NEW s \in Seq(Nodes), Once(s), NEW nx, NEW pv, Linked(nx, pv, s), NEW j \in 0..Len(s),
           NEW t, t = Listing!Suffix(s, j), NEW nx2, NEW pv2,
           \A q \in Nodes : Inside(t, q) => nx2[q] = nx[q] /\ pv2[q] = (IF q = NodeAt(s, j + 1) THEN Null ELSE pv[q])
    PROVE  Linked(nx2, pv2, t)
<1>1. t \in Seq(Nodes) /\ IsSuffixOf(s, j, t)
  BY SuffixIs
<1>2. /\ Len(t) = Len(s) - j /\ Len(s) \in Nat /\ j \in Nat /\ j <= Len(s)
      /\ \A k \in 1..Len(s) - j : t[k] = s[j + k]
  BY <1>1 DEF IsSuffixOf
<1> SUFFICES ASSUME NEW k \in 1..Len(t) PROVE nx2[t[k]] = NodeAt(t, k + 1) /\ pv2[t[k]] = NodeAt(t, k - 1)
  BY DEF Linked
<1>3. t[k] = s[j + k] /\ j + k \in 1..Len(s) /\ s[j + k] \in Nodes /\ Inside(t, s[j + k])
  BY <1>2 DEF Inside
<1>4. nx[s[j + k]] = NodeAt(s, (j + k) + 1) /\ pv[s[j + k]] = NodeAt(s, (j + k) - 1)
  BY <1>3 DEF Linked
<1>5. s[j + k] = NodeAt(s, j + 1) <=> k = 1
  <2>1. j + 1 \in 1..Len(s) /\ NodeAt(s, j + 1) = s[j + 1]
    BY <1>2, <1>3 DEF NodeAt
  <2> QED BY <1>2, <1>3, <2>1 DEF Once
<1>6. NodeAt(t, k + 1) = NodeAt(s, (j + k) + 1)
  <2>1. k + 1 \in 1..Len(t) <=> (j + k) + 1 \in 1..Len(s)
    BY <1>2
  <2>2. k + 1 \in 1..Len(t) => t[k + 1] = s[(j + k) + 1]
    BY <1>2
  <2> QED BY <2>1, <2>2 DEF NodeAt
<1>7. NodeAt(t, k - 1) = IF k = 1 THEN Null ELSE NodeAt(s, (j + k) - 1)
  <2>1. CASE k = 1
    BY <2>1 DEF NodeAt
  <2>2. CASE k # 1
    <3>1. k - 1 \in 1..Len(s) - j /\ j + (k - 1) = (j + k) - 1 /\ (j + k) - 1 \in 1..Len(s)
      BY <1>2, <2>2
    <3>2. t[k - 1] = s[j + (k - 1)]
      BY <1>2, <3>1
    <3> QED BY <1>2, <2>2, <3>1, <3>2 DEF NodeAt
  <2> QED BY <2>1, <2>2
<1> QED BY <1>3, <1>4, <1>5, <1>6, <1>7

\* t is the chain s followed by the chain r.
IsJoined(s, r, nx, pv, t) ==
    /\ t \in Seq(Nodes) /\ Len(t) = Len(s) + Len(r) /\ Once(t) /\ Linked(nx, pv, t)
    /\ NodeAt(t, 1) = IF Len(s) = 0 THEN NodeAt(r, 1) ELSE NodeAt(s, 1)
    /\ NodeAt(t, Len(t)) = IF Len(r) = 0 THEN NodeAt(s, Len(s)) ELSE NodeAt(r, Len(r))
    /\ \A q : Inside(t, q) <=> Inside(s, q) \/ Inside(r, q)

\* The last of s and the first of r are linked to one another.
JoinLinks(s, r, nx, pv, nx2, pv2) ==
    \A q \in Nodes : Inside(s, q) \/ Inside(r, q) =>
        /\ nx2[q] = IF q = NodeAt(s, Len(s)) THEN NodeAt(r, 1) ELSE nx[q]
        /\ pv2[q] = IF q = NodeAt(r, 1) THEN NodeAt(s, Len(s)) ELSE pv[q]

\* Two chains that are linked are one.
LEMMA ChainJoined ==
    ASSUME NEW s \in Seq(Nodes), NEW r \in Seq(Nodes), Once(s), Once(r), \A q : ~(Inside(s, q) /\ Inside(r, q)),
           NEW nx, NEW pv, Linked(nx, pv, s), Linked(nx, pv, r), NEW nx2, NEW pv2,
           JoinLinks(s, r, nx, pv, nx2, pv2), NEW t, t = s \o r
    PROVE  IsJoined(s, r, nx2, pv2, t)
<1>1. PICK a, b : a = Len(s) /\ b = Len(r)
  OBVIOUS
<1>2. a \in Nat /\ b \in Nat
  BY <1>1
<1>3. /\ t \in Seq(Nodes) /\ Len(t) = a + b
      /\ \A k \in 1..a + b : t[k] = IF k <= a THEN s[k] ELSE r[k - a]
  BY <1>1, ConcatProperties
<1>4. \A k \in 1..a + b : \/ k <= a /\ k \in 1..a /\ t[k] = s[k]
                          \/ k > a /\ k - a \in 1..b /\ t[k] = r[k - a]
  BY <1>2, <1>3
<1>5. \A j \in 1..a, k \in 1..b : s[j] # r[k] /\ s[j] \in Nodes /\ r[k] \in Nodes
  <2> SUFFICES ASSUME NEW j \in 1..a, NEW k \in 1..b PROVE s[j] # r[k] /\ s[j] \in Nodes /\ r[k] \in Nodes
    OBVIOUS
  <2>1. Inside(s, s[j]) /\ Inside(r, r[k]) /\ s[j] \in Nodes /\ r[k] \in Nodes
    BY <1>1 DEF Inside
  <2> QED BY <2>1
<1>6. Once(t)
  <2> SUFFICES ASSUME NEW j \in 1..a + b, NEW k \in 1..a + b, t[j] = t[k] PROVE j = k
    BY <1>3 DEF Once
  <2>1. ASSUME NEW o \in 1..a + b, o <= a PROVE o \in 1..a /\ t[o] = s[o]
    BY <1>2, <1>3, <2>1
  <2>2. ASSUME NEW o \in 1..a + b, o > a
        PROVE  \E e \in 1..b : o = e + a /\ t[o] = r[e]
    <3>1. PICK e : e = o - a
      OBVIOUS
    <3>2. e \in 1..b /\ o = e + a /\ ~(o <= a)
      BY <1>2, <2>2, <3>1
    <3>3. t[o] = r[e]
      BY <1>3, <2>2, <3>1, <3>2
    <3> QED BY <3>2, <3>3
  <2>3. CASE j <= a /\ k <= a
    <3>1. j \in 1..a /\ k \in 1..a /\ s[j] = s[k]
      BY <2>1, <2>3
    <3> QED BY <1>1, <3>1 DEF Once
  <2>4. CASE j > a /\ k > a
    <3>1. PICK e \in 1..b : j = e + a /\ t[j] = r[e]
      BY <2>2, <2>4
    <3>2. PICK f \in 1..b : k = f + a /\ t[k] = r[f]
      BY <2>2, <2>4
    <3>3. e = f
      BY <1>1, <3>1, <3>2 DEF Once
    <3> QED BY <3>1, <3>2, <3>3
  <2>5. CASE j <= a /\ k > a
    <3>1. j \in 1..a /\ t[j] = s[j]
      BY <2>1, <2>5
    <3>2. PICK f \in 1..b : k = f + a /\ t[k] = r[f]
      BY <2>2, <2>5
    <3> QED BY <1>5, <3>1, <3>2
  <2>6. CASE j > a /\ k <= a
    <3>1. k \in 1..a /\ t[k] = s[k]
      BY <2>1, <2>6
    <3>2. PICK e \in 1..b : j = e + a /\ t[j] = r[e]
      BY <2>2, <2>6
    <3> QED BY <1>5, <3>1, <3>2
  <2>7. j \in Int /\ k \in Int
    OBVIOUS
  <2> QED BY <1>2, <2>3, <2>4, <2>5, <2>6, <2>7
<1>7. \A k \in Int : NodeAt(t, k) = IF k <= a THEN NodeAt(s, k) ELSE NodeAt(r, k - a)
  <2> TAKE k \in Int
  <2>1. CASE k \in 1..a + b
    BY <1>1, <1>2, <1>3, <1>4, <2>1 DEF NodeAt
  <2>2. CASE k \notin 1..a + b
    <3>1. (k <= a => k \notin 1..a) /\ (k > a => k - a \notin 1..b)
      BY <1>2, <2>2
    <3> QED BY <1>1, <1>2, <1>3, <2>2, <3>1 DEF NodeAt
  <2> QED BY <2>1, <2>2
<1>8. /\ \A k \in 1..a : (s[k] = NodeAt(s, a) <=> k = a) /\ s[k] # NodeAt(r, 1) /\ Inside(s, s[k])
      /\ \A k \in 1..b : (r[k] = NodeAt(r, 1) <=> k = 1) /\ r[k] # NodeAt(s, a) /\ Inside(r, r[k])
  <2>1. \A k \in 1..a : (s[k] = NodeAt(s, a) <=> k = a) /\ s[k] # NodeAt(r, 1) /\ Inside(s, s[k])
    BY <1>1, <1>2, <1>5, ListsAssumed DEF NodeAt, Once, Inside
  <2>2. \A k \in 1..b : (r[k] = NodeAt(r, 1) <=> k = 1) /\ r[k] # NodeAt(s, a) /\ Inside(r, r[k])
    BY <1>1, <1>2, <1>5, ListsAssumed DEF NodeAt, Once, Inside
  <2> QED BY <2>1, <2>2
<1>9. Linked(nx2, pv2, t)
  <2> SUFFICES ASSUME NEW k \in 1..a + b
               PROVE  nx2[t[k]] = NodeAt(t, k + 1) /\ pv2[t[k]] = NodeAt(t, k - 1)
    BY <1>3 DEF Linked
  <2>0. k \in Int /\ k + 1 \in Int /\ k - 1 \in Int
    OBVIOUS
  <2>1. CASE k <= a /\ k \in 1..a /\ t[k] = s[k]
    <3>1. nx[s[k]] = NodeAt(s, k + 1) /\ pv[s[k]] = NodeAt(s, k - 1) /\ s[k] \in Nodes
      BY <1>1, <2>1 DEF Linked
    <3>2. nx2[s[k]] = (IF k = a THEN NodeAt(r, 1) ELSE NodeAt(s, k + 1)) /\ pv2[s[k]] = NodeAt(s, k - 1)
      BY <1>1, <1>8, <2>1, <3>1 DEF JoinLinks
    <3>3. NodeAt(t, k - 1) = NodeAt(s, k - 1)
      BY <1>2, <1>7, <2>0, <2>1
    <3>4. NodeAt(t, k + 1) = IF k = a THEN NodeAt(r, 1) ELSE NodeAt(s, k + 1)
      <4>1. NodeAt(t, k + 1) = IF k + 1 <= a THEN NodeAt(s, k + 1) ELSE NodeAt(r, (k + 1) - a)
        BY <1>7, <2>0
      <4>2. (k + 1 <= a <=> k # a) /\ (k = a => (k + 1) - a = 1)
        BY <1>2, <2>0, <2>1
      <4> QED BY <4>1, <4>2
    <3> QED BY <2>1, <3>2, <3>3, <3>4
  <2>2. CASE k > a /\ k - a \in 1..b /\ t[k] = r[k - a]
    <3>1. PICK o : o = k - a
      OBVIOUS
    <3>2. o \in 1..b /\ o \in Int /\ t[k] = r[o] /\ (k + 1) - a = o + 1 /\ (k - 1) - a = o - 1
          /\ ~(k + 1 <= a) /\ (k - 1 <= a <=> o = 1) /\ (o = 1 => k - 1 = a)
      BY <1>2, <2>0, <2>2, <3>1
    <3>3. nx[r[o]] = NodeAt(r, o + 1) /\ pv[r[o]] = NodeAt(r, o - 1) /\ r[o] \in Nodes
      BY <1>1, <3>2 DEF Linked
    <3>4. pv2[r[o]] = (IF o = 1 THEN NodeAt(s, a) ELSE NodeAt(r, o - 1)) /\ nx2[r[o]] = NodeAt(r, o + 1)
      BY <1>1, <1>8, <3>2, <3>3 DEF JoinLinks
    <3>5. NodeAt(t, k + 1) = NodeAt(r, o + 1)
      BY <1>7, <2>0, <3>2
    <3>6. NodeAt(t, k - 1) = IF o = 1 THEN NodeAt(s, a) ELSE NodeAt(r, o - 1)
      BY <1>7, <2>0, <3>2
    <3> QED BY <3>2, <3>4, <3>5, <3>6
  <2> QED BY <1>4, <2>1, <2>2
<1>10. NodeAt(t, 1) = IF a = 0 THEN NodeAt(r, 1) ELSE NodeAt(s, 1)
  <2>1. NodeAt(t, 1) = IF 1 <= a THEN NodeAt(s, 1) ELSE NodeAt(r, 1 - a)
    BY <1>7
  <2>2. (1 <= a <=> a # 0) /\ (a = 0 => 1 - a = 1)
    BY <1>2
  <2> QED BY <2>1, <2>2
<1>11. NodeAt(t, a + b) = IF b = 0 THEN NodeAt(s, a) ELSE NodeAt(r, b)
  <2>1. NodeAt(t, a + b) = IF a + b <= a THEN NodeAt(s, a + b) ELSE NodeAt(r, (a + b) - a)
    BY <1>2, <1>7
  <2>2. (a + b <= a <=> b = 0) /\ (b = 0 => a + b = a) /\ (a + b) - a = b
    BY <1>2
  <2> QED BY <2>1, <2>2
<1>12. ASSUME NEW q PROVE Inside(t, q) <=> Inside(s, q) \/ Inside(r, q)
  <2>1. ASSUME Inside(t, q) PROVE Inside(s, q) \/ Inside(r, q)
    BY <1>1, <1>3, <1>4, <2>1 DEF Inside
  <2>2. ASSUME NEW k \in 1..a, s[k] = q PROVE Inside(t, q)
    <3>1. k \in 1..a + b /\ k <= a
      BY <1>2
    <3> QED BY <1>3, <2>2, <3>1 DEF Inside
  <2>3. ASSUME NEW k \in 1..b, r[k] = q PROVE Inside(t, q)
    <3>1. k + a \in 1..a + b /\ ~(k + a <= a) /\ (k + a) - a = k
      BY <1>2
    <3>2. t[k + a] = r[(k + a) - a]
      BY <1>3, <3>1
    <3> QED BY <1>3, <2>3, <3>1, <3>2 DEF Inside
  <2> QED BY <1>1, <2>1, <2>2, <2>3 DEF Inside
<1> QED BY <1>1, <1>3, <1>6, <1>9, <1>10, <1>11, <1>12 DEF IsJoined

-----------------------------------------------------------------------------
(* Moving a part of a list to another. *)

\* The objects of the first a nodes.
LEMMA ShowsPrefix ==
    ASSUME NEW s \in Seq(Nodes), NEW d \in Seq(Data), NEW h, Shows(h, s, d), NEW a \in 0..Len(s),
           NEW g, g.data = h.data, NEW t, t = Listing!Prefix(s, a), NEW e, e = Listing!Prefix(d, a)
    PROVE  Shows(g, t, e) /\ e \in Seq(Data)
<1>1. /\ Len(d) = Len(s) /\ \A k \in 1..Len(s) : d[k] = h.data[s[k]]
  BY DEF Shows
<1>2. t \in Seq(Nodes) /\ IsPrefixOf(s, a, t)
  BY PrefixIs
<1>3. a \in 0..Len(d)
  BY <1>1
<1>4. e \in Seq(Data) /\ IsPrefixOf(d, a, e)
  BY <1>3, PrefixIs
<1>5. Len(t) = a /\ Len(e) = a /\ \A k \in 1..a : k \in 1..Len(s) /\ t[k] = s[k] /\ e[k] = d[k]
  BY <1>2, <1>4 DEF IsPrefixOf
<1> QED BY <1>1, <1>4, <1>5 DEF Shows

\* The objects of the other nodes.
LEMMA ShowsSuffix ==
    ASSUME NEW s \in Seq(Nodes), NEW d \in Seq(Data), NEW h, Shows(h, s, d), NEW a \in 0..Len(s),
           NEW g, g.data = h.data, NEW t, t = Listing!Suffix(s, a), NEW e, e = Listing!Suffix(d, a)
    PROVE  Shows(g, t, e) /\ e \in Seq(Data)
<1>1. /\ Len(d) = Len(s) /\ \A k \in 1..Len(s) : d[k] = h.data[s[k]]
  BY DEF Shows
<1>2. t \in Seq(Nodes) /\ IsSuffixOf(s, a, t)
  BY SuffixIs
<1>3. a \in 0..Len(d)
  BY <1>1
<1>4. e \in Seq(Data) /\ IsSuffixOf(d, a, e)
  BY <1>3, SuffixIs
<1>5. /\ Len(t) = Len(s) - a /\ Len(e) = Len(s) - a
      /\ \A k \in 1..Len(s) - a : t[k] = s[a + k] /\ e[k] = d[a + k]
  BY <1>1, <1>2, <1>4 DEF IsSuffixOf
<1>6. \A k \in 1..Len(s) - a : a + k \in 1..Len(s)
  OBVIOUS
<1> QED BY <1>1, <1>4, <1>5, <1>6 DEF Shows

\* Two chains and their objects.
ShowBoth(h, s, d, r, e) ==
    /\ s \in Seq(Nodes) /\ d \in Seq(Data) /\ Shows(h, s, d)
    /\ r \in Seq(Nodes) /\ e \in Seq(Data) /\ Shows(h, r, e)

\* The objects of two chains that are joined.
LEMMA ShowsJoined ==
    ASSUME NEW h, NEW s, NEW d, NEW r, NEW e, ShowBoth(h, s, d, r, e)
    PROVE  Shows(h, s \o r, d \o e) /\ d \o e \in Seq(Data)
<1>0. PICK t, f : t = s \o r /\ f = d \o e
  OBVIOUS
<1>7. /\ s \in Seq(Nodes) /\ d \in Seq(Data) /\ r \in Seq(Nodes) /\ e \in Seq(Data)
      /\ Shows(h, s, d) /\ Shows(h, r, e)
  BY DEF ShowBoth
<1>1. /\ Len(d) = Len(s) /\ \A k \in 1..Len(s) : d[k] = h.data[s[k]]
      /\ Len(e) = Len(r) /\ \A k \in 1..Len(r) : e[k] = h.data[r[k]]
  BY <1>7 DEF Shows
<1>2. PICK a, b : a = Len(s) /\ b = Len(r)
  OBVIOUS
<1>3. a \in Nat /\ b \in Nat
  BY <1>2, <1>7
<1>4. Len(t) = a + b /\ \A k \in 1..a + b : t[k] = IF k <= a THEN s[k] ELSE r[k - a]
  BY <1>0, <1>2, <1>7, ConcatProperties
<1>5. f \in Seq(Data) /\ Len(f) = a + b /\ \A k \in 1..a + b : f[k] = IF k <= a THEN d[k] ELSE e[k - a]
  <2>1. /\ f \in Seq(Data) /\ Len(f) = Len(d) + Len(e)
        /\ \A k \in 1..Len(d) + Len(e) : f[k] = IF k <= Len(d) THEN d[k] ELSE e[k - Len(d)]
    BY <1>0, <1>7, ConcatProperties
  <2>2. Len(d) = a /\ Len(e) = b
    BY <1>1, <1>2
  <2> QED BY <2>1, <2>2
<1>6. ASSUME NEW k \in 1..a + b PROVE f[k] = h.data[t[k]]
  <2>1. CASE k <= a
    <3>1. k \in 1..Len(s)
      BY <1>2, <1>3, <2>1
    <3> QED BY <1>1, <1>4, <1>5, <2>1, <3>1
  <2>2. CASE ~(k <= a)
    <3>1. k - a \in 1..Len(r)
      BY <1>2, <1>3, <2>2
    <3>2. t[k] = r[k - a] /\ f[k] = e[k - a]
      BY <1>4, <1>5, <2>2
    <3> QED BY <1>1, <3>1, <3>2
  <2> QED BY <2>1, <2>2
<1>8. Shows(h, t, f)
  BY <1>4, <1>5, <1>6 DEF Shows
<1> QED BY <1>0, <1>5, <1>8

\* t is the first a of s, and u the others.
IsCut(s, a, t, u) ==
    /\ t \in Seq(Nodes) /\ u \in Seq(Nodes) /\ Len(t) = a /\ Len(u) = Len(s) - a /\ Len(s) \in Nat /\ a \in Nat
    /\ Once(t) /\ Once(u)
    /\ \A q : Inside(s, q) <=> Inside(t, q) \/ Inside(u, q)
    /\ \A q : ~(Inside(t, q) /\ Inside(u, q))
    /\ a # 0 => NodeAt(t, 1) = NodeAt(s, 1)
    /\ NodeAt(t, a) = NodeAt(s, a)
    /\ NodeAt(u, 1) = NodeAt(s, a + 1)
    /\ a # Len(s) => NodeAt(u, Len(s) - a) = NodeAt(s, Len(s))

\* What cutting a sequence in two yields.
LEMMA CutIs ==
    ASSUME NEW s \in Seq(Nodes), Once(s), NEW a \in 0..Len(s),
           NEW t, t = Listing!Prefix(s, a), NEW u, u = Listing!Suffix(s, a)
    PROVE  IsCut(s, a, t, u)
<1>1. t \in Seq(Nodes) /\ Len(t) = a /\ \A k \in 1..a : t[k] = s[k]
  <2>1. t \in Seq(Nodes) /\ IsPrefixOf(s, a, t)
    BY PrefixIs
  <2> QED BY <2>1 DEF IsPrefixOf
<1>2. u \in Seq(Nodes) /\ Len(u) = Len(s) - a /\ \A k \in 1..Len(s) - a : u[k] = s[a + k]
  <2>1. u \in Seq(Nodes) /\ IsSuffixOf(s, a, u)
    BY SuffixIs
  <2> QED BY <2>1 DEF IsSuffixOf
<1>3. PICK b : b = Len(s) - a
  OBVIOUS
<1>4. Len(s) \in Nat /\ a \in Nat /\ b \in Nat /\ Len(s) = a + b
  BY <1>3
<1>5. /\ \A k \in 1..a : k \in 1..Len(s) /\ t[k] = s[k]
      /\ \A k \in 1..b : a + k \in 1..Len(s) /\ u[k] = s[a + k]
  BY <1>1, <1>2, <1>3, <1>4
<1>6. Once(t)
  BY <1>1, <1>5 DEF Once
<1>7. Once(u)
  <2> SUFFICES ASSUME NEW j \in 1..b, NEW k \in 1..b, u[j] = u[k] PROVE j = k
    BY <1>2, <1>3 DEF Once
  <2>1. a + j = a + k
    BY <1>5 DEF Once
  <2> QED BY <1>4, <2>1
<1>8. ASSUME NEW q PROVE Inside(s, q) => Inside(t, q) \/ Inside(u, q)
  <2> SUFFICES ASSUME NEW k \in 1..Len(s), s[k] = q PROVE Inside(t, q) \/ Inside(u, q)
    BY DEF Inside
  <2>1. CASE k <= a
    <3>1. k \in 1..Len(t)
      BY <1>1, <2>1
    <3> QED BY <1>1, <3>1 DEF Inside
  <2>2. CASE ~(k <= a)
    <3>1. k - a \in 1..b /\ a + (k - a) = k
      BY <1>4, <2>2
    <3>2. u[k - a] = q /\ k - a \in 1..Len(u)
      BY <1>2, <1>3, <1>5, <3>1
    <3> QED BY <3>2 DEF Inside
  <2> QED BY <2>1, <2>2
<1>9. ASSUME NEW q PROVE Inside(t, q) \/ Inside(u, q) => Inside(s, q)
  BY <1>1, <1>2, <1>3, <1>5 DEF Inside
<1>10. ASSUME NEW q, Inside(t, q), Inside(u, q) PROVE FALSE
  <2>1. PICK j \in 1..a : t[j] = q
    BY <1>1, <1>10 DEF Inside
  <2>2. PICK k \in 1..b : u[k] = q
    BY <1>2, <1>3, <1>10 DEF Inside
  <2>3. j = a + k
    BY <1>5, <2>1, <2>2 DEF Once
  <2> QED BY <1>4, <2>3
<1>11. a # 0 => NodeAt(t, 1) = NodeAt(s, 1)
  BY <1>1, <1>4, <1>5 DEF NodeAt
<1>12. NodeAt(t, a) = NodeAt(s, a)
  BY <1>1, <1>4, <1>5 DEF NodeAt
<1>13. NodeAt(u, 1) = NodeAt(s, a + 1)
  <2>1. 1 \in 1..Len(u) <=> a + 1 \in 1..Len(s)
    BY <1>2, <1>4
  <2>2. 1 \in 1..Len(u) => u[1] = s[a + 1]
    BY <1>2
  <2> QED BY <2>1, <2>2 DEF NodeAt
<1>14. a # Len(s) => NodeAt(u, Len(s) - a) = NodeAt(s, Len(s))
  <2>1. ASSUME a # Len(s) PROVE b \in 1..Len(u) /\ a + b \in 1..Len(s)
    BY <1>2, <1>3, <1>4, <2>1
  <2> QED BY <1>3, <1>4, <1>5, <2>1 DEF NodeAt
<1> QED BY <1>1, <1>2, <1>4, <1>6, <1>7, <1>8, <1>9, <1>10, <1>11, <1>12, <1>13, <1>14 DEF IsCut

\* What MoveToTail does with k elements up to p.
IsTailMoved(h, l, m, p, k, g) ==
    /\ IsHeap(g) /\ g.cache = h.cache /\ g.data = h.data /\ g.free = h.free
    /\ \A q \in Nodes : g.next[q] = IF q = p THEN Null ELSE IF q = h.last[m] THEN h.first[l] ELSE h.next[q]
    /\ \A q \in Nodes : g.prev[q] = IF q = h.next[p] THEN Null ELSE IF q = h.first[l] THEN h.last[m] ELSE h.prev[q]
    /\ \A o \in Lists :
          /\ g.first[o] = IF o = l THEN h.next[p]
                          ELSE IF o = m /\ h.first[m] = Null THEN h.first[l] ELSE h.first[o]
          /\ g.last[o] = IF o = m THEN p ELSE IF o = l /\ h.next[p] = Null THEN Null ELSE h.last[o]
          /\ g.count[o] = IF o = m THEN h.count[m] + k ELSE IF o = l THEN h.count[l] - k ELSE h.count[o]

\* What MoveToHead does with k elements from p on.
IsHeadMoved(h, l, m, p, k, g) ==
    /\ IsHeap(g) /\ g.cache = h.cache /\ g.data = h.data /\ g.free = h.free
    /\ \A q \in Nodes : g.prev[q] = IF q = p THEN Null ELSE IF q = h.first[m] THEN h.last[l] ELSE h.prev[q]
    /\ \A q \in Nodes : g.next[q] = IF q = h.prev[p] THEN Null ELSE IF q = h.last[l] THEN h.first[m] ELSE h.next[q]
    /\ \A o \in Lists :
          /\ g.last[o] = IF o = l THEN h.prev[p]
                         ELSE IF o = m /\ h.last[m] = Null THEN h.last[l] ELSE h.last[o]
          /\ g.first[o] = IF o = m THEN p ELSE IF o = l /\ h.prev[p] = Null THEN Null ELSE h.first[o]
          /\ g.count[o] = IF o = m THEN h.count[m] + k ELSE IF o = l THEN h.count[l] - k ELSE h.count[o]

\* g is h with other anchors.
IsAnchored(h, a, b, k, g) ==
    /\ IsHeap(g) /\ g.first = a /\ g.last = b /\ g.count = k
    /\ g.cache = h.cache /\ g.next = h.next /\ g.prev = h.prev /\ g.data = h.data /\ g.free = h.free

\* What MoveToTail does to each field.
LEMMA TailMovedIs ==
    ASSUME NEW h, IsHeap(h), NEW l \in Lists, NEW m \in Lists, l # m, NEW p \in Nodes, p # h.last[m],
           h.first[l] \in Nodes, NEW k \in Int, k = Len(Listing!Walk(h.prev, p)), NEW g, g = Listing!MoveToTail(h, l, p, m)
    PROVE  IsTailMoved(h, l, m, p, k, g)
<1>1. PICK e, f, rest : e = h.last[m] /\ f = h.first[l] /\ rest = h.next[p]
  OBVIOUS
<1>2. e \in Nodes \cup {Null} /\ f \in Nodes /\ rest \in Nodes \cup {Null}
  BY <1>1 DEF IsHeap
<1>3. PICK v : v = Listing!SetNext(h, e, f)
  OBVIOUS
<1>4. NextIs(h, e, f, v)
  BY <1>2, <1>3, SetNextIs
<1>5. IsHeap(v) /\ (\A q \in Nodes : v.next[q] = IF q = e THEN f ELSE h.next[q])
      /\ v.first = h.first /\ v.last = h.last /\ v.count = h.count /\ v.cache = h.cache
      /\ v.prev = h.prev /\ v.data = h.data /\ v.free = h.free
  BY <1>4 DEF NextIs
<1>6. PICK w : w = Listing!SetPrev(v, f, e)
  OBVIOUS
<1>7. PrevIs(v, f, e, w)
  BY <1>2, <1>5, <1>6, SetPrevIs
<1>8. IsHeap(w) /\ (\A q \in Nodes : w.prev[q] = IF q = f THEN e ELSE v.prev[q])
      /\ w.first = v.first /\ w.last = v.last /\ w.count = v.count /\ w.cache = v.cache
      /\ w.next = v.next /\ w.data = v.data /\ w.free = v.free
  BY <1>7 DEF PrevIs
<1>9. w.next[p] = rest
  BY <1>1, <1>5, <1>8
<1>10. PICK x : x = [w EXCEPT !.first[m] = IF @ = Null THEN h.first[l] ELSE @, !.first[l] = w.next[p],
                              !.last[l] = IF w.next[p] = Null THEN Null ELSE @, !.last[m] = p,
                              !.count[l] = @ - Len(Listing!Walk(h.prev, p)),
                              !.count[m] = @ + Len(Listing!Walk(h.prev, p))]
  OBVIOUS
<1>11. g = Listing!SetNext(Listing!SetPrev(x, rest, Null), p, Null)
  <2>1. w = Listing!SetPrev(Listing!SetNext(h, h.last[m], h.first[l]), h.first[l], h.last[m])
    BY <1>1, <1>3, <1>6
  <2>2. g = Listing!SetNext(Listing!SetPrev(x, w.next[p], Null), p, Null)
    BY <1>10, <2>1 DEF Listing!MoveToTail
  <2> QED BY <1>9, <2>2
<1>12. PICK a, b, n : /\ a = [w.first EXCEPT ![m] = IF w.first[m] = Null THEN f ELSE w.first[m], ![l] = rest]
                      /\ b = [w.last EXCEPT ![l] = IF rest = Null THEN Null ELSE w.last[l], ![m] = p]
                      /\ n = [w.count EXCEPT ![l] = w.count[l] - k, ![m] = w.count[m] + k]
  OBVIOUS
<1>13. /\ w.first \in [Lists -> Nodes \cup {Null}] /\ w.last \in [Lists -> Nodes \cup {Null}] /\ w.count \in [Lists -> Int]
       /\ w.first = h.first /\ w.last = h.last /\ w.count = h.count
  BY <1>5, <1>8 DEF IsHeap
<1>14. /\ a \in [Lists -> Nodes \cup {Null}] /\ b \in [Lists -> Nodes \cup {Null}] /\ n \in [Lists -> Int]
       /\ \A o \in Lists :
             /\ a[o] = IF o = l THEN rest ELSE IF o = m /\ h.first[m] = Null THEN f ELSE h.first[o]
             /\ b[o] = IF o = m THEN p ELSE IF o = l /\ rest = Null THEN Null ELSE h.last[o]
             /\ n[o] = IF o = m THEN h.count[m] + k ELSE IF o = l THEN h.count[l] - k ELSE h.count[o]
  <2>1. /\ a \in [Lists -> Nodes \cup {Null}]
        /\ \A o \in Lists : a[o] = IF o = l THEN rest ELSE IF o = m /\ h.first[m] = Null THEN f ELSE h.first[o]
    BY <1>2, <1>12, <1>13
  <2>2. /\ b \in [Lists -> Nodes \cup {Null}]
        /\ \A o \in Lists : b[o] = IF o = m THEN p ELSE IF o = l /\ rest = Null THEN Null ELSE h.last[o]
    BY <1>2, <1>12, <1>13
  <2>3. /\ n \in [Lists -> Int]
        /\ \A o \in Lists : n[o] = IF o = m THEN h.count[m] + k ELSE IF o = l THEN h.count[l] - k ELSE h.count[o]
    BY <1>12, <1>13
  <2> QED BY <2>1, <2>2, <2>3
<1>15. x.first = a /\ x.last = b /\ x.count = n
  <2>1. h.first[l] = f /\ w.next[p] = rest /\ Len(Listing!Walk(h.prev, p)) = k
    BY <1>1, <1>9
  <2>2. IsHeap(w) /\ x = [w EXCEPT !.first[m] = IF @ = Null THEN f ELSE @, !.first[l] = rest,
                                   !.last[l] = IF rest = Null THEN Null ELSE @, !.last[m] = p,
                                   !.count[l] = @ - k, !.count[m] = @ + k]
    BY <1>8, <1>10, <2>1
  <2> QED BY <1>12, <2>2 DEF IsHeap
<1>16. IsAnchored(w, a, b, n, x)
  <2>1. /\ x.cache = w.cache /\ x.next = w.next /\ x.prev = w.prev /\ x.data = w.data /\ x.free = w.free
    BY <1>8, <1>10 DEF IsHeap
  <2>2. IsHeap(x)
    <3>1. DOMAIN x = DOMAIN w /\ x = [q \in DOMAIN w |-> x[q]]
      BY <1>8, <1>10 DEF IsHeap
    <3> QED BY <1>8, <1>14, <1>15, <2>1, <3>1 DEF IsHeap
  <2> QED BY <1>15, <2>1, <2>2 DEF IsAnchored
<1>17. /\ IsHeap(x) /\ x.first = a /\ x.last = b /\ x.count = n
       /\ x.cache = w.cache /\ x.next = w.next /\ x.prev = w.prev /\ x.data = w.data /\ x.free = w.free
  BY <1>16 DEF IsAnchored
<1>18. PICK y : y = Listing!SetPrev(x, rest, Null)
  OBVIOUS
<1>19. PrevIs(x, rest, Null, y)
  BY <1>2, <1>17, <1>18, SetPrevIs
<1>20. IsHeap(y) /\ (\A q \in Nodes : y.prev[q] = IF q = rest THEN Null ELSE x.prev[q])
       /\ y.first = x.first /\ y.last = x.last /\ y.count = x.count /\ y.cache = x.cache
       /\ y.next = x.next /\ y.data = x.data /\ y.free = x.free
  BY <1>19 DEF PrevIs
<1>21. NextIs(y, p, Null, g)
  BY <1>11, <1>18, <1>20, SetNextIs
<1>22. IsHeap(g) /\ (\A q \in Nodes : g.next[q] = IF q = p THEN Null ELSE y.next[q])
       /\ g.first = y.first /\ g.last = y.last /\ g.count = y.count /\ g.cache = y.cache
       /\ g.prev = y.prev /\ g.data = y.data /\ g.free = y.free
  BY <1>21 DEF NextIs
<1>23. g.cache = h.cache /\ g.data = h.data /\ g.free = h.free
  BY <1>5, <1>8, <1>17, <1>20, <1>22
<1>24. \A q \in Nodes : g.next[q] = IF q = p THEN Null ELSE IF q = e THEN f ELSE h.next[q]
  BY <1>5, <1>8, <1>17, <1>20, <1>22
<1>25. \A q \in Nodes : g.prev[q] = IF q = rest THEN Null ELSE IF q = f THEN e ELSE h.prev[q]
  BY <1>5, <1>8, <1>17, <1>20, <1>22
<1>26. ASSUME NEW o \in Lists
       PROVE  /\ g.first[o] = IF o = l THEN rest ELSE IF o = m /\ h.first[m] = Null THEN f ELSE h.first[o]
              /\ g.last[o] = IF o = m THEN p ELSE IF o = l /\ rest = Null THEN Null ELSE h.last[o]
              /\ g.count[o] = IF o = m THEN h.count[m] + k ELSE IF o = l THEN h.count[l] - k ELSE h.count[o]
  <2>1. g.first = a /\ g.last = b /\ g.count = n
    BY <1>17, <1>20, <1>22
  <2> QED BY <1>14, <2>1
<1> QED BY <1>1, <1>22, <1>23, <1>24, <1>25, <1>26 DEF IsTailMoved



\* What MoveToHead does to each field.
LEMMA HeadMovedIs ==
    ASSUME NEW h, IsHeap(h), NEW l \in Lists, NEW m \in Lists, l # m, NEW p \in Nodes, p # h.first[m],
           h.last[l] \in Nodes, NEW k \in Int, k = Len(Listing!Walk(h.next, p)), NEW g, g = Listing!MoveToHead(h, l, p, m)
    PROVE  IsHeadMoved(h, l, m, p, k, g)
<1>1. PICK e, f, rest : e = h.first[m] /\ f = h.last[l] /\ rest = h.prev[p]
  OBVIOUS
<1>2. e \in Nodes \cup {Null} /\ f \in Nodes /\ rest \in Nodes \cup {Null}
  BY <1>1 DEF IsHeap
<1>3. PICK v : v = Listing!SetPrev(h, e, f)
  OBVIOUS
<1>4. PrevIs(h, e, f, v)
  BY <1>2, <1>3, SetPrevIs
<1>5. IsHeap(v) /\ (\A q \in Nodes : v.prev[q] = IF q = e THEN f ELSE h.prev[q])
      /\ v.last = h.last /\ v.first = h.first /\ v.count = h.count /\ v.cache = h.cache
      /\ v.next = h.next /\ v.data = h.data /\ v.free = h.free
  BY <1>4 DEF PrevIs
<1>6. PICK w : w = Listing!SetNext(v, f, e)
  OBVIOUS
<1>7. NextIs(v, f, e, w)
  BY <1>2, <1>5, <1>6, SetNextIs
<1>8. IsHeap(w) /\ (\A q \in Nodes : w.next[q] = IF q = f THEN e ELSE v.next[q])
      /\ w.last = v.last /\ w.first = v.first /\ w.count = v.count /\ w.cache = v.cache
      /\ w.prev = v.prev /\ w.data = v.data /\ w.free = v.free
  BY <1>7 DEF NextIs
<1>9. w.prev[p] = rest
  BY <1>1, <1>5, <1>8
<1>10. PICK x : x = [w EXCEPT !.last[m] = IF @ = Null THEN h.last[l] ELSE @, !.last[l] = w.prev[p],
                              !.first[l] = IF w.prev[p] = Null THEN Null ELSE @, !.first[m] = p,
                              !.count[l] = @ - Len(Listing!Walk(h.next, p)),
                              !.count[m] = @ + Len(Listing!Walk(h.next, p))]
  OBVIOUS
<1>11. g = Listing!SetPrev(Listing!SetNext(x, rest, Null), p, Null)
  <2>1. w = Listing!SetNext(Listing!SetPrev(h, h.first[m], h.last[l]), h.last[l], h.first[m])
    BY <1>1, <1>3, <1>6
  <2>2. g = Listing!SetPrev(Listing!SetNext(x, w.prev[p], Null), p, Null)
    BY <1>10, <2>1 DEF Listing!MoveToHead
  <2> QED BY <1>9, <2>2
<1>12. PICK a, b, n : /\ a = [w.last EXCEPT ![m] = IF w.last[m] = Null THEN f ELSE w.last[m], ![l] = rest]
                      /\ b = [w.first EXCEPT ![l] = IF rest = Null THEN Null ELSE w.first[l], ![m] = p]
                      /\ n = [w.count EXCEPT ![l] = w.count[l] - k, ![m] = w.count[m] + k]
  OBVIOUS
<1>13. /\ w.last \in [Lists -> Nodes \cup {Null}] /\ w.first \in [Lists -> Nodes \cup {Null}] /\ w.count \in [Lists -> Int]
       /\ w.last = h.last /\ w.first = h.first /\ w.count = h.count
  BY <1>5, <1>8 DEF IsHeap
<1>14. /\ a \in [Lists -> Nodes \cup {Null}] /\ b \in [Lists -> Nodes \cup {Null}] /\ n \in [Lists -> Int]
       /\ \A o \in Lists :
             /\ a[o] = IF o = l THEN rest ELSE IF o = m /\ h.last[m] = Null THEN f ELSE h.last[o]
             /\ b[o] = IF o = m THEN p ELSE IF o = l /\ rest = Null THEN Null ELSE h.first[o]
             /\ n[o] = IF o = m THEN h.count[m] + k ELSE IF o = l THEN h.count[l] - k ELSE h.count[o]
  <2>1. /\ a \in [Lists -> Nodes \cup {Null}]
        /\ \A o \in Lists : a[o] = IF o = l THEN rest ELSE IF o = m /\ h.last[m] = Null THEN f ELSE h.last[o]
    BY <1>2, <1>12, <1>13
  <2>2. /\ b \in [Lists -> Nodes \cup {Null}]
        /\ \A o \in Lists : b[o] = IF o = m THEN p ELSE IF o = l /\ rest = Null THEN Null ELSE h.first[o]
    BY <1>2, <1>12, <1>13
  <2>3. /\ n \in [Lists -> Int]
        /\ \A o \in Lists : n[o] = IF o = m THEN h.count[m] + k ELSE IF o = l THEN h.count[l] - k ELSE h.count[o]
    BY <1>12, <1>13
  <2> QED BY <2>1, <2>2, <2>3
<1>15. x.last = a /\ x.first = b /\ x.count = n
  <2>1. h.last[l] = f /\ w.prev[p] = rest /\ Len(Listing!Walk(h.next, p)) = k
    BY <1>1, <1>9
  <2>2. IsHeap(w) /\ x = [w EXCEPT !.last[m] = IF @ = Null THEN f ELSE @, !.last[l] = rest,
                                   !.first[l] = IF rest = Null THEN Null ELSE @, !.first[m] = p,
                                   !.count[l] = @ - k, !.count[m] = @ + k]
    BY <1>8, <1>10, <2>1
  <2> QED BY <1>12, <2>2 DEF IsHeap
<1>16. IsAnchored(w, b, a, n, x)
  <2>1. /\ x.cache = w.cache /\ x.prev = w.prev /\ x.next = w.next /\ x.data = w.data /\ x.free = w.free
    BY <1>8, <1>10 DEF IsHeap
  <2>2. IsHeap(x)
    <3>1. DOMAIN x = DOMAIN w /\ x = [q \in DOMAIN w |-> x[q]]
      BY <1>8, <1>10 DEF IsHeap
    <3> QED BY <1>8, <1>14, <1>15, <2>1, <3>1 DEF IsHeap
  <2> QED BY <1>15, <2>1, <2>2 DEF IsAnchored
<1>17. /\ IsHeap(x) /\ x.last = a /\ x.first = b /\ x.count = n
       /\ x.cache = w.cache /\ x.prev = w.prev /\ x.next = w.next /\ x.data = w.data /\ x.free = w.free
  BY <1>16 DEF IsAnchored
<1>18. PICK y : y = Listing!SetNext(x, rest, Null)
  OBVIOUS
<1>19. NextIs(x, rest, Null, y)
  BY <1>2, <1>17, <1>18, SetNextIs
<1>20. IsHeap(y) /\ (\A q \in Nodes : y.next[q] = IF q = rest THEN Null ELSE x.next[q])
       /\ y.last = x.last /\ y.first = x.first /\ y.count = x.count /\ y.cache = x.cache
       /\ y.prev = x.prev /\ y.data = x.data /\ y.free = x.free
  BY <1>19 DEF NextIs
<1>21. PrevIs(y, p, Null, g)
  BY <1>11, <1>18, <1>20, SetPrevIs
<1>22. IsHeap(g) /\ (\A q \in Nodes : g.prev[q] = IF q = p THEN Null ELSE y.prev[q])
       /\ g.last = y.last /\ g.first = y.first /\ g.count = y.count /\ g.cache = y.cache
       /\ g.next = y.next /\ g.data = y.data /\ g.free = y.free
  BY <1>21 DEF PrevIs
<1>23. g.cache = h.cache /\ g.data = h.data /\ g.free = h.free
  BY <1>5, <1>8, <1>17, <1>20, <1>22
<1>24. \A q \in Nodes : g.prev[q] = IF q = p THEN Null ELSE IF q = e THEN f ELSE h.prev[q]
  BY <1>5, <1>8, <1>17, <1>20, <1>22
<1>25. \A q \in Nodes : g.next[q] = IF q = rest THEN Null ELSE IF q = f THEN e ELSE h.next[q]
  BY <1>5, <1>8, <1>17, <1>20, <1>22
<1>26. ASSUME NEW o \in Lists
       PROVE  /\ g.last[o] = IF o = l THEN rest ELSE IF o = m /\ h.last[m] = Null THEN f ELSE h.last[o]
              /\ g.first[o] = IF o = m THEN p ELSE IF o = l /\ rest = Null THEN Null ELSE h.first[o]
              /\ g.count[o] = IF o = m THEN h.count[m] + k ELSE IF o = l THEN h.count[l] - k ELSE h.count[o]
  <2>1. g.last = a /\ g.first = b /\ g.count = n
    BY <1>17, <1>20, <1>22
  <2> QED BY <1>14, <2>1
<1> QED BY <1>1, <1>22, <1>23, <1>24, <1>25, <1>26 DEF IsHeadMoved



\* The list o of the memory g is the chain s, and shows d.
Forms(g, o, s, d) ==
    /\ Once(s) /\ Linked(g.next, g.prev, s) /\ Shows(g, s, d)
    /\ g.first[o] = NodeAt(s, 1) /\ g.last[o] = NodeAt(s, Len(s)) /\ g.count[o] = Len(s)

\* The nodes of t went from l, of which u is left, to m, which is v now.
IsMoved(h, ns, l, m, t, u, v, g) ==
    /\ IsHeap(g) /\ g.cache = h.cache /\ g.data = h.data /\ g.free = h.free
    /\ \A q : Inside(ns[l], q) <=> Inside(t, q) \/ Inside(u, q)
    /\ \A q : ~(Inside(t, q) /\ Inside(u, q))
    /\ \A q : Inside(v, q) <=> Inside(ns[m], q) \/ Inside(t, q)
    /\ \A o \in Lists : o # l /\ o # m => /\ g.first[o] = h.first[o] /\ g.last[o] = h.last[o]
                                          /\ g.count[o] = h.count[o]
    /\ \A q \in Nodes : ~Inside(ns[l], q) /\ ~Inside(ns[m], q) => g.next[q] = h.next[q] /\ g.prev[q] = h.prev[q]

\* A piece of a list that is moved to another leaves everything standing.
LEMMA MovedKeeps ==
    ASSUME NEW h, NEW c, NEW ns, Standing(h, c, ns), NEW l \in Lists, NEW m \in Lists, l # m, NEW g,
           NEW t, NEW u \in Seq(Nodes), NEW v \in Seq(Nodes), IsMoved(h, ns, l, m, t, u, v, g),
           NEW d \in Seq(Data), NEW e \in Seq(Data), Forms(g, l, u, d), Forms(g, m, v, e)
    PROVE  Standing(g, [c EXCEPT ![l] = d, ![m] = e], [ns EXCEPT ![l] = u, ![m] = v])
<1>1. PICK place, of : Stands(h, c, ns, place, of)
  BY DEF Standing
<1>2. /\ IsHeap(h) /\ c \in [Lists -> Seq(Data)] /\ ns \in [Lists -> Seq(Nodes)]
      /\ of \in [Nodes -> Lists]
  BY <1>1, StandsAll
<1>3. PICK c2, ns2, of2 : /\ c2 = [c EXCEPT ![l] = d, ![m] = e] /\ ns2 = [ns EXCEPT ![l] = u, ![m] = v]
                          /\ of2 = [q \in Nodes |-> IF Inside(t, q) THEN m ELSE of[q]]
  OBVIOUS
<1>4. /\ c2 \in [Lists -> Seq(Data)] /\ c2[l] = d /\ c2[m] = e /\ \A o \in Lists : o # l /\ o # m => c2[o] = c[o]
      /\ ns2 \in [Lists -> Seq(Nodes)] /\ ns2[l] = u /\ ns2[m] = v
      /\ \A o \in Lists : o # l /\ o # m => ns2[o] = ns[o]
  BY <1>2, <1>3
<1>5. of2 \in [Nodes -> Lists] /\ \A q \in Nodes : of2[q] = IF Inside(t, q) THEN m ELSE of[q]
  BY <1>2, <1>3
<1>6. /\ IsHeap(g) /\ g.cache = h.cache /\ g.data = h.data /\ g.free = h.free
      /\ \A q : Inside(ns[l], q) <=> Inside(t, q) \/ Inside(u, q)
      /\ \A q : ~(Inside(t, q) /\ Inside(u, q))
      /\ \A q : Inside(v, q) <=> Inside(ns[m], q) \/ Inside(t, q)
      /\ \A o \in Lists : o # l /\ o # m => g.first[o] = h.first[o] /\ g.last[o] = h.last[o] /\ g.count[o] = h.count[o]
      /\ \A q \in Nodes : ~Inside(ns[l], q) /\ ~Inside(ns[m], q) => g.next[q] = h.next[q] /\ g.prev[q] = h.prev[q]
  BY DEF IsMoved
<1>7. \A o \in Lists : \A q \in Nodes : Inside(ns[o], q) <=> place[q] = "list" /\ of[q] = o
  BY <1>1, StandsOf
<1>8. \A q \in Nodes : place[q] # "list" => of2[q] = of[q]
  BY <1>5, <1>6, <1>7
<1>9. \A q \in Nodes : Inside(u, q) <=> place[q] = "list" /\ of2[q] = l
  BY <1>5, <1>6, <1>7
<1>10. \A q \in Nodes : Inside(v, q) <=> place[q] = "list" /\ of2[q] = m
  BY <1>5, <1>6, <1>7
<1>11. \A o \in Lists : o # l /\ o # m => \A q \in Nodes : Inside(ns[o], q) <=> place[q] = "list" /\ of2[q] = o
  BY <1>5, <1>6, <1>7
<1>12. ASSUME NEW o \in Lists
       PROVE  /\ Once(ns2[o]) /\ Linked(g.next, g.prev, ns2[o]) /\ Shows(g, ns2[o], c2[o])
              /\ g.first[o] = NodeAt(ns2[o], 1) /\ g.last[o] = NodeAt(ns2[o], Len(ns2[o]))
              /\ g.count[o] = Len(ns2[o])
              /\ \A q \in Nodes : Inside(ns2[o], q) <=> place[q] = "list" /\ of2[q] = o
  <2>1. CASE o = l
    BY <1>4, <1>9, <2>1 DEF Forms
  <2>2. CASE o = m
    BY <1>4, <1>10, <2>2 DEF Forms
  <2>3. CASE o # l /\ o # m
    <3>1. ns2[o] = ns[o] /\ c2[o] = c[o]
      BY <1>4, <2>3
    <3>2. /\ ns[o] \in Seq(Nodes) /\ Once(ns[o]) /\ Linked(h.next, h.prev, ns[o]) /\ Shows(h, ns[o], c[o])
          /\ h.first[o] = NodeAt(ns[o], 1) /\ h.last[o] = NodeAt(ns[o], Len(ns[o])) /\ h.count[o] = Len(ns[o])
      BY <1>1, StandsOf
    <3>3. \A q \in Nodes : Inside(ns[o], q) => ~Inside(ns[l], q) /\ ~Inside(ns[m], q)
      BY <1>7, <2>3
    <3>4. \A q \in Nodes : Inside(ns[o], q) => /\ g.next[q] = h.next[q] /\ g.prev[q] = h.prev[q]
                                               /\ g.data[q] = h.data[q]
      BY <1>6, <3>3
    <3>5. Linked(g.next, g.prev, ns[o]) /\ Shows(g, ns[o], c[o])
      <4>1. ns[o] \in Seq(Nodes) /\ Linked(h.next, h.prev, ns[o]) /\ Shows(h, ns[o], c[o])
        BY <3>2
      <4> QED BY <3>4, <4>1, OthersStand, Zenon
    <3>6. g.first[o] = h.first[o] /\ g.last[o] = h.last[o] /\ g.count[o] = h.count[o]
      BY <1>6, <2>3
    <3>7. \A q \in Nodes : Inside(ns[o], q) <=> place[q] = "list" /\ of2[q] = o
      BY <1>11, <2>3
    <3> QED BY <3>1, <3>2, <3>5, <3>6, <3>7
  <2> QED BY <2>1, <2>2, <2>3
<1>13. Stands(g, c2, ns2, place, of2)
  <2>1. /\ IsHeap(g) /\ g.cache = h.cache /\ g.free = h.free /\ c2 \in [Lists -> Seq(Data)]
        /\ ns2 \in [Lists -> Seq(Nodes)] /\ of2 \in [Nodes -> Lists]
    BY <1>4, <1>5, <1>6
  <2>2. /\ place \in [Nodes -> {"free", "list", "cache"}] /\ \A q \in Nodes : q \in g.free <=> place[q] = "free"
    BY <1>1, <2>1, StandsAll
  <2>3. ASSUME NEW o \in Lists
        PROVE  /\ Once(g.cache[o]) /\ Len(g.cache[o]) <= iCacheSize
               /\ \A q \in Nodes : Inside(g.cache[o], q) <=> place[q] = "cache" /\ of2[q] = o
    <3>1. /\ Once(h.cache[o]) /\ Len(h.cache[o]) <= iCacheSize
          /\ \A q \in Nodes : Inside(h.cache[o], q) <=> place[q] = "cache" /\ of[q] = o
      BY <1>1, StandsOf
    <3>2. \A q \in Nodes : place[q] = "cache" => of2[q] = of[q]
      BY <1>8
    <3> QED BY <2>1, <3>1, <3>2
  <2> QED BY <1>12, <2>1, <2>2, <2>3, StandsFrom
<1> QED BY <1>3, <1>13 DEF Standing

\* The elements up to p at the end of another list.
LEMMA MoveToTailKeeps ==
    ASSUME NEW h, NEW c, NEW ns, Standing(h, c, ns), NEW l \in Lists, NEW m \in Lists, l # m,
           NEW a \in 1..Len(ns[l]), NEW g, g = Listing!MoveToTail(h, l, ns[l][a], m)
    PROVE  Standing(g, [c EXCEPT ![l] = Listing!Suffix(c[l], a), ![m] = c[m] \o Listing!Prefix(c[l], a)],
                       [ns EXCEPT ![l] = Listing!Suffix(ns[l], a), ![m] = ns[m] \o Listing!Prefix(ns[l], a)])
<1>1. PICK s, r, x, y, p : s = ns[l] /\ r = ns[m] /\ x = c[l] /\ y = c[m] /\ p = s[a]
  OBVIOUS
<1>2. PICK place, of : Stands(h, c, ns, place, of)
  BY DEF Standing
<1>3. IsHeap(h)
  BY <1>2, StandsAll
<1>4. /\ s \in Seq(Nodes) /\ Len(s) \in Nat /\ x \in Seq(Data) /\ Once(s) /\ Linked(h.next, h.prev, s) /\ Shows(h, s, x)
      /\ h.first[l] = NodeAt(s, 1) /\ h.last[l] = NodeAt(s, Len(s)) /\ h.count[l] = Len(s)
  BY <1>1, <1>2, StandsOf
<1>5. /\ r \in Seq(Nodes) /\ Len(r) \in Nat /\ y \in Seq(Data) /\ Once(r) /\ Linked(h.next, h.prev, r) /\ Shows(h, r, y)
      /\ h.first[m] = NodeAt(r, 1) /\ h.last[m] = NodeAt(r, Len(r)) /\ h.count[m] = Len(r)
  BY <1>1, <1>2, StandsOf
<1>6. \A q : ~(Inside(s, q) /\ Inside(r, q))
  <2>1. /\ \A q \in Nodes : Inside(s, q) <=> place[q] = "list" /\ of[q] = l
        /\ \A q \in Nodes : Inside(r, q) <=> place[q] = "list" /\ of[q] = m
    BY <1>1, <1>2, StandsOf
  <2>2. \A q : Inside(s, q) => q \in Nodes
    BY <1>4 DEF Inside
  <2> QED BY <2>1, <2>2
<1>7. a \in 1..Len(s) /\ a \in 0..Len(s) /\ a \in Int /\ a # 0 /\ p \in Nodes /\ Inside(s, p) /\ NodeAt(s, a) = p
      /\ NodeAt(s, 1) \in Nodes /\ Inside(s, NodeAt(s, 1))
  <2>1. a \in 1..Len(s) /\ a \in 0..Len(s) /\ a \in Int /\ a # 0 /\ 1 \in 1..Len(s)
    BY <1>1, <1>4
  <2> QED BY <1>1, <1>4, <2>1 DEF NodeAt, Inside
<1>8. PICK e, f, rest : e = h.last[m] /\ f = h.first[l] /\ rest = h.next[p]
  OBVIOUS
<1>9. f = NodeAt(s, 1) /\ e = NodeAt(r, Len(r)) /\ rest = NodeAt(s, a + 1)
  BY <1>1, <1>4, <1>5, <1>7, <1>8 DEF Linked
<1>10. \A q \in Nodes : q = e => Inside(r, q)
  BY <1>5, <1>9, ListsAssumed DEF NodeAt, Inside
<1>11. IsTailMoved(h, l, m, p, a, g)
  <2>1. Len(Listing!Walk(h.prev, p)) = a
    <3>1. IsWalked(h, ns, l)
      BY ListIsWalked
    <3> QED BY <1>1, <1>7, <3>1 DEF IsWalked
  <2>2. p # h.last[m] /\ h.first[l] \in Nodes /\ g = Listing!MoveToTail(h, l, p, m)
    BY <1>1, <1>6, <1>7, <1>8, <1>9, <1>10
  <2> QED BY <1>3, <1>7, <2>1, <2>2, TailMovedIs
<1>12. /\ IsHeap(g) /\ g.cache = h.cache /\ g.data = h.data /\ g.free = h.free
       /\ \A q \in Nodes : g.next[q] = IF q = p THEN Null ELSE IF q = e THEN f ELSE h.next[q]
       /\ \A q \in Nodes : g.prev[q] = IF q = rest THEN Null ELSE IF q = f THEN e ELSE h.prev[q]
       /\ \A o \in Lists :
             /\ g.first[o] = IF o = l THEN rest ELSE IF o = m /\ h.first[m] = Null THEN f ELSE h.first[o]
             /\ g.last[o] = IF o = m THEN p ELSE IF o = l /\ rest = Null THEN Null ELSE h.last[o]
             /\ g.count[o] = IF o = m THEN h.count[m] + a ELSE IF o = l THEN h.count[l] - a ELSE h.count[o]
  BY <1>8, <1>11 DEF IsTailMoved
<1>13. PICK t, u, v : t = Listing!Prefix(s, a) /\ u = Listing!Suffix(s, a) /\ v = r \o t
  OBVIOUS
<1>14. IsCut(s, a, t, u)
  BY <1>4, <1>7, <1>13, CutIs
<1>15. /\ t \in Seq(Nodes) /\ u \in Seq(Nodes) /\ Len(t) = a /\ Len(u) = Len(s) - a
       /\ Once(t) /\ Once(u)
       /\ \A q : Inside(s, q) <=> Inside(t, q) \/ Inside(u, q)
       /\ \A q : ~(Inside(t, q) /\ Inside(u, q))
       /\ NodeAt(t, 1) = NodeAt(s, 1) /\ NodeAt(t, a) = NodeAt(s, a) /\ NodeAt(u, 1) = NodeAt(s, a + 1)
       /\ a # Len(s) => NodeAt(u, Len(s) - a) = NodeAt(s, Len(s))
  BY <1>7, <1>14 DEF IsCut
<1>16. Inside(t, p) /\ Inside(t, f) /\ (rest # Null => Inside(u, rest))
  <2>1. \A k \in Int : \A z : NodeAt(z, k) # Null => Inside(z, NodeAt(z, k))
    BY DEF NodeAt, Inside
  <2> QED BY <1>7, <1>9, <1>15, <2>1, ListsAssumed
<1>17. Linked(g.next, g.prev, u)
  <2>1. \A q \in Nodes : Inside(u, q) => /\ g.next[q] = h.next[q]
                                         /\ g.prev[q] = IF q = NodeAt(s, a + 1) THEN Null ELSE h.prev[q]
    BY <1>6, <1>9, <1>10, <1>12, <1>15, <1>16
  <2> QED BY <1>4, <1>7, <1>13, <2>1, ChainSuffix
<1>18. PICK nx : nx = [q \in Nodes |-> IF q = p THEN Null ELSE h.next[q]]
  OBVIOUS
<1>19. Linked(nx, h.prev, t)
  <2>1. \A q \in Nodes : Inside(t, q) => nx[q] = (IF q = NodeAt(s, a) THEN Null ELSE h.next[q]) /\ h.prev[q] = h.prev[q]
    BY <1>7, <1>18
  <2> QED BY <1>4, <1>7, <1>13, <2>1, ChainPrefix
<1>20. Linked(nx, h.prev, r)
  <2>1. \A q \in Nodes : Inside(r, q) => nx[q] = h.next[q] /\ h.prev[q] = h.prev[q]
    BY <1>6, <1>7, <1>18
  <2> QED BY <1>5, <2>1, ChainUntouched
<1>21. JoinLinks(r, t, nx, h.prev, g.next, g.prev)
  <2> SUFFICES ASSUME NEW q \in Nodes, Inside(r, q) \/ Inside(t, q)
               PROVE  /\ g.next[q] = IF q = NodeAt(r, Len(r)) THEN NodeAt(t, 1) ELSE nx[q]
                      /\ g.prev[q] = IF q = NodeAt(t, 1) THEN NodeAt(r, Len(r)) ELSE h.prev[q]
    BY DEF JoinLinks
  <2>1. q # rest
    BY <1>6, <1>15, <1>16, ListsAssumed
  <2>2. q = e => q # p
    BY <1>6, <1>7, <1>10
  <2> QED BY <1>9, <1>12, <1>15, <1>18, <2>1, <2>2
<1>22. IsJoined(r, t, g.next, g.prev, v)
  <2>1. \A q : ~(Inside(r, q) /\ Inside(t, q))
    BY <1>6, <1>15
  <2>2. t \in Seq(Nodes) /\ Once(t) /\ r \in Seq(Nodes) /\ Once(r)
    BY <1>5, <1>15
  <2> QED BY <1>13, <1>19, <1>20, <1>21, <2>1, <2>2, ChainJoined
<1>23. /\ v \in Seq(Nodes) /\ Len(v) = Len(r) + Len(t) /\ Once(v) /\ Linked(g.next, g.prev, v)
       /\ NodeAt(v, 1) = IF Len(r) = 0 THEN NodeAt(t, 1) ELSE NodeAt(r, 1)
       /\ NodeAt(v, Len(v)) = IF Len(t) = 0 THEN NodeAt(r, Len(r)) ELSE NodeAt(t, Len(t))
       /\ \A q : Inside(v, q) <=> Inside(r, q) \/ Inside(t, q)
  BY <1>22 DEF IsJoined
<1>24. PICK d, b, n : d = Listing!Suffix(x, a) /\ b = Listing!Prefix(x, a) /\ n = y \o b
  OBVIOUS
<1>25. Shows(g, u, d) /\ d \in Seq(Data)
  BY <1>4, <1>7, <1>12, <1>13, <1>24, ShowsSuffix
<1>26. Shows(g, t, b) /\ b \in Seq(Data)
  BY <1>4, <1>7, <1>12, <1>13, <1>24, ShowsPrefix
<1>27. Shows(g, r, y)
  BY <1>5, <1>12 DEF Shows
<1>28. Shows(g, v, n) /\ n \in Seq(Data)
  <2>1. ShowBoth(g, r, y, t, b)
    BY <1>5, <1>15, <1>26, <1>27 DEF ShowBoth
  <2>2. Shows(g, r \o t, y \o b) /\ y \o b \in Seq(Data)
    BY <2>1, ShowsJoined
  <2> QED BY <1>13, <1>24, <2>2
<1>29. Forms(g, l, u, d)
  <2>1. g.first[l] = rest /\ g.count[l] = Len(s) - a
        /\ g.last[l] = IF rest = Null THEN Null ELSE NodeAt(s, Len(s))
    BY <1>4, <1>12
  <2>2. rest = Null <=> a = Len(s)
    BY <1>4, <1>7, <1>9, ListsAssumed DEF NodeAt
  <2>3. a = Len(s) => NodeAt(u, Len(u)) = Null
    BY <1>15 DEF NodeAt
  <2>4. g.last[l] = NodeAt(u, Len(u))
    BY <1>15, <2>1, <2>2, <2>3
  <2> QED BY <1>9, <1>15, <1>17, <1>25, <2>1, <2>4 DEF Forms
<1>30. Forms(g, m, v, n)
  <2>1. /\ g.first[m] = IF h.first[m] = Null THEN f ELSE h.first[m]
        /\ g.last[m] = p /\ g.count[m] = Len(r) + a
    BY <1>5, <1>12
  <2>2. h.first[m] = Null <=> Len(r) = 0
    BY <1>5, ListsAssumed DEF NodeAt
  <2>3. g.first[m] = NodeAt(v, 1) /\ g.last[m] = NodeAt(v, Len(v)) /\ g.count[m] = Len(v)
    BY <1>5, <1>7, <1>9, <1>15, <1>23, <2>1, <2>2
  <2> QED BY <1>23, <1>28, <2>3 DEF Forms
<1>31. IsMoved(h, ns, l, m, t, u, v, g)
  <2>1. \A o \in Lists : o # l /\ o # m => /\ g.first[o] = h.first[o] /\ g.last[o] = h.last[o]
                                           /\ g.count[o] = h.count[o]
    BY <1>12
  <2>2. \A q \in Nodes : ~Inside(s, q) /\ ~Inside(r, q) => g.next[q] = h.next[q] /\ g.prev[q] = h.prev[q]
    BY <1>7, <1>10, <1>12, <1>15, <1>16, ListsAssumed
  <2> QED BY <1>1, <1>12, <1>15, <1>23, <2>1, <2>2 DEF IsMoved
<1>32. Standing(g, [c EXCEPT ![l] = d, ![m] = n], [ns EXCEPT ![l] = u, ![m] = v])
  BY <1>15, <1>23, <1>25, <1>28, <1>29, <1>30, <1>31, MovedKeeps
<1> QED BY <1>1, <1>13, <1>24, <1>32

\* The elements from p on at the start of another list.
LEMMA MoveToHeadKeeps ==
    ASSUME NEW h, NEW c, NEW ns, Standing(h, c, ns), NEW l \in Lists, NEW m \in Lists, l # m,
           NEW a \in 0..Len(ns[l]), a # Len(ns[l]), NEW g, g = Listing!MoveToHead(h, l, ns[l][a + 1], m)
    PROVE  Standing(g, [c EXCEPT ![l] = Listing!Prefix(c[l], a), ![m] = Listing!Suffix(c[l], a) \o c[m]],
                       [ns EXCEPT ![l] = Listing!Prefix(ns[l], a), ![m] = Listing!Suffix(ns[l], a) \o ns[m]])
<1>1. PICK s, r, x, y, p : s = ns[l] /\ r = ns[m] /\ x = c[l] /\ y = c[m] /\ p = s[a + 1]
  OBVIOUS
<1>2. PICK place, of : Stands(h, c, ns, place, of)
  BY DEF Standing
<1>3. IsHeap(h)
  BY <1>2, StandsAll
<1>4. /\ s \in Seq(Nodes) /\ Len(s) \in Nat /\ x \in Seq(Data) /\ Once(s) /\ Linked(h.next, h.prev, s) /\ Shows(h, s, x)
      /\ h.first[l] = NodeAt(s, 1) /\ h.last[l] = NodeAt(s, Len(s)) /\ h.count[l] = Len(s)
  BY <1>1, <1>2, StandsOf
<1>5. /\ r \in Seq(Nodes) /\ Len(r) \in Nat /\ y \in Seq(Data) /\ Once(r) /\ Linked(h.next, h.prev, r) /\ Shows(h, r, y)
      /\ h.first[m] = NodeAt(r, 1) /\ h.last[m] = NodeAt(r, Len(r)) /\ h.count[m] = Len(r)
  BY <1>1, <1>2, StandsOf
<1>6. \A q : ~(Inside(s, q) /\ Inside(r, q))
  <2>1. /\ \A q \in Nodes : Inside(s, q) <=> place[q] = "list" /\ of[q] = l
        /\ \A q \in Nodes : Inside(r, q) <=> place[q] = "list" /\ of[q] = m
    BY <1>1, <1>2, StandsOf
  <2>2. \A q : Inside(s, q) => q \in Nodes
    BY <1>4 DEF Inside
  <2> QED BY <2>1, <2>2
<1>7. a \in 0..Len(s) /\ a \in Nat /\ a # Len(s) /\ p \in Nodes /\ Inside(s, p) /\ NodeAt(s, a + 1) = p
      /\ NodeAt(s, Len(s)) \in Nodes /\ Inside(s, NodeAt(s, Len(s))) /\ Len(s) - a \in Nat /\ Len(s) - a # 0
  <2>1. /\ a \in 0..Len(s) /\ a \in Nat /\ a # Len(s) /\ a + 1 \in 1..Len(s) /\ Len(s) \in 1..Len(s)
        /\ Len(s) - a \in Nat /\ Len(s) - a # 0
    BY <1>1, <1>4
  <2> QED BY <1>1, <1>4, <2>1 DEF NodeAt, Inside
<1>8. PICK e, f, rest, k : e = h.first[m] /\ f = h.last[l] /\ rest = h.prev[p] /\ k = Len(s) - a
  OBVIOUS
<1>9. f = NodeAt(s, Len(s)) /\ e = NodeAt(r, 1) /\ rest = NodeAt(s, a)
  <2>1. a + 1 \in 1..Len(s) /\ (a + 1) - 1 = a
    BY <1>4, <1>7
  <2>2. h.prev[s[a + 1]] = NodeAt(s, (a + 1) - 1)
    BY <1>4, <2>1 DEF Linked
  <2> QED BY <1>1, <1>4, <1>5, <1>8, <2>1, <2>2
<1>10. \A q \in Nodes : q = e => Inside(r, q)
  BY <1>5, <1>9, ListsAssumed DEF NodeAt, Inside
<1>11. IsHeadMoved(h, l, m, p, k, g)
  <2>1. Len(Listing!Walk(h.next, p)) = k
    <3>1. IsWalked(h, ns, l)
      BY ListIsWalked
    <3>2. PICK o : o = a + 1
      OBVIOUS
    <3>3. o \in 1..Len(s) /\ (Len(s) - o) + 1 = k
      BY <1>4, <1>7, <1>8, <3>2
    <3>4. Len(Listing!Walk(h.next, s[o])) = (Len(s) - o) + 1
      BY <1>1, <3>1, <3>3 DEF IsWalked
    <3> QED BY <1>1, <3>2, <3>3, <3>4
  <2>2. p # h.first[m] /\ h.last[l] \in Nodes /\ g = Listing!MoveToHead(h, l, p, m) /\ k \in Int
    BY <1>1, <1>6, <1>7, <1>8, <1>9, <1>10
  <2> QED BY <1>3, <1>7, <2>1, <2>2, HeadMovedIs
<1>12. /\ IsHeap(g) /\ g.cache = h.cache /\ g.data = h.data /\ g.free = h.free
       /\ \A q \in Nodes : g.prev[q] = IF q = p THEN Null ELSE IF q = e THEN f ELSE h.prev[q]
       /\ \A q \in Nodes : g.next[q] = IF q = rest THEN Null ELSE IF q = f THEN e ELSE h.next[q]
       /\ \A o \in Lists :
             /\ g.last[o] = IF o = l THEN rest ELSE IF o = m /\ h.last[m] = Null THEN f ELSE h.last[o]
             /\ g.first[o] = IF o = m THEN p ELSE IF o = l /\ rest = Null THEN Null ELSE h.first[o]
             /\ g.count[o] = IF o = m THEN h.count[m] + k ELSE IF o = l THEN h.count[l] - k ELSE h.count[o]
  BY <1>8, <1>11 DEF IsHeadMoved
<1>13. PICK t, u, v : t = Listing!Suffix(s, a) /\ u = Listing!Prefix(s, a) /\ v = t \o r
  OBVIOUS
<1>14. IsCut(s, a, u, t)
  BY <1>4, <1>7, <1>13, CutIs
<1>15. /\ t \in Seq(Nodes) /\ u \in Seq(Nodes) /\ Len(t) = k /\ Len(u) = a
       /\ Once(t) /\ Once(u)
       /\ \A q : Inside(s, q) <=> Inside(t, q) \/ Inside(u, q)
       /\ \A q : ~(Inside(t, q) /\ Inside(u, q))
       /\ NodeAt(t, 1) = p /\ NodeAt(t, k) = NodeAt(s, Len(s)) /\ NodeAt(u, a) = NodeAt(s, a)
       /\ a # 0 => NodeAt(u, 1) = NodeAt(s, 1)
  BY <1>7, <1>8, <1>14 DEF IsCut
<1>16. Inside(t, p) /\ Inside(t, f) /\ (rest # Null => Inside(u, rest))
  <2>1. \A o \in Int : \A z : NodeAt(z, o) # Null => Inside(z, NodeAt(z, o))
    BY DEF NodeAt, Inside
  <2>2. k \in Int /\ a \in Int
    BY <1>7, <1>8
  <2> QED BY <1>7, <1>9, <1>15, <2>1, <2>2, ListsAssumed
<1>17. Linked(g.next, g.prev, u)
  <2>1. \A q \in Nodes : Inside(u, q) => /\ g.next[q] = IF q = NodeAt(s, a) THEN Null ELSE h.next[q]
                                         /\ g.prev[q] = h.prev[q]
    BY <1>6, <1>9, <1>10, <1>12, <1>15, <1>16
  <2> QED BY <1>4, <1>7, <1>13, <2>1, ChainPrefix
<1>18. PICK pv : pv = [q \in Nodes |-> IF q = p THEN Null ELSE h.prev[q]]
  OBVIOUS
<1>19. Linked(h.next, pv, t)
  <2>1. \A q \in Nodes : Inside(t, q) => h.next[q] = h.next[q] /\ pv[q] = IF q = NodeAt(s, a + 1) THEN Null ELSE h.prev[q]
    BY <1>7, <1>18
  <2> QED BY <1>4, <1>7, <1>13, <2>1, ChainSuffix
<1>20. Linked(h.next, pv, r)
  <2>1. \A q \in Nodes : Inside(r, q) => h.next[q] = h.next[q] /\ pv[q] = h.prev[q]
    BY <1>6, <1>7, <1>18
  <2> QED BY <1>5, <2>1, ChainUntouched
<1>21. JoinLinks(t, r, h.next, pv, g.next, g.prev)
  <2> SUFFICES ASSUME NEW q \in Nodes, Inside(t, q) \/ Inside(r, q)
               PROVE  /\ g.next[q] = IF q = NodeAt(t, Len(t)) THEN NodeAt(r, 1) ELSE h.next[q]
                      /\ g.prev[q] = IF q = NodeAt(r, 1) THEN NodeAt(t, Len(t)) ELSE pv[q]
    BY DEF JoinLinks
  <2>1. q # rest
    BY <1>6, <1>15, <1>16, ListsAssumed
  <2>2. q = e => q # p
    BY <1>6, <1>7, <1>10
  <2> QED BY <1>9, <1>12, <1>15, <1>18, <2>1, <2>2
<1>22. IsJoined(t, r, g.next, g.prev, v)
  <2>1. \A q : ~(Inside(t, q) /\ Inside(r, q))
    BY <1>6, <1>15
  <2>2. t \in Seq(Nodes) /\ Once(t) /\ r \in Seq(Nodes) /\ Once(r)
    BY <1>5, <1>15
  <2> QED BY <1>13, <1>19, <1>20, <1>21, <2>1, <2>2, ChainJoined
<1>23. /\ v \in Seq(Nodes) /\ Len(v) = Len(t) + Len(r) /\ Once(v) /\ Linked(g.next, g.prev, v)
       /\ NodeAt(v, 1) = IF Len(t) = 0 THEN NodeAt(r, 1) ELSE NodeAt(t, 1)
       /\ NodeAt(v, Len(v)) = IF Len(r) = 0 THEN NodeAt(t, Len(t)) ELSE NodeAt(r, Len(r))
       /\ \A q : Inside(v, q) <=> Inside(t, q) \/ Inside(r, q)
  BY <1>22 DEF IsJoined
<1>24. PICK d, b, n : d = Listing!Prefix(x, a) /\ b = Listing!Suffix(x, a) /\ n = b \o y
  OBVIOUS
<1>25. Shows(g, u, d) /\ d \in Seq(Data)
  BY <1>4, <1>7, <1>12, <1>13, <1>24, ShowsPrefix
<1>26. Shows(g, t, b) /\ b \in Seq(Data)
  BY <1>4, <1>7, <1>12, <1>13, <1>24, ShowsSuffix
<1>27. Shows(g, r, y)
  BY <1>5, <1>12 DEF Shows
<1>28. Shows(g, v, n) /\ n \in Seq(Data)
  <2>1. ShowBoth(g, t, b, r, y)
    BY <1>5, <1>15, <1>26, <1>27 DEF ShowBoth
  <2>2. Shows(g, t \o r, b \o y) /\ b \o y \in Seq(Data)
    BY <2>1, ShowsJoined
  <2> QED BY <1>13, <1>24, <2>2
<1>29. Forms(g, l, u, d)
  <2>1. g.last[l] = rest /\ g.count[l] = a
        /\ g.first[l] = IF rest = Null THEN Null ELSE NodeAt(s, 1)
    BY <1>4, <1>7, <1>8, <1>12
  <2>2. rest = Null <=> a = 0
    BY <1>4, <1>7, <1>9, ListsAssumed DEF NodeAt
  <2>3. a = 0 => NodeAt(u, 1) = Null
    BY <1>15 DEF NodeAt
  <2>4. g.first[l] = NodeAt(u, 1)
    BY <1>15, <2>1, <2>2, <2>3
  <2> QED BY <1>9, <1>15, <1>17, <1>25, <2>1, <2>4 DEF Forms
<1>30. Forms(g, m, v, n)
  <2>1. /\ g.last[m] = IF h.last[m] = Null THEN f ELSE h.last[m]
        /\ g.first[m] = p /\ g.count[m] = Len(r) + k
    BY <1>5, <1>12
  <2>2. h.last[m] = Null <=> Len(r) = 0
    BY <1>5, ListsAssumed DEF NodeAt
  <2>3. k # 0 /\ k \in Nat
    BY <1>7, <1>8
  <2>4. g.first[m] = NodeAt(v, 1) /\ g.last[m] = NodeAt(v, Len(v)) /\ g.count[m] = Len(v)
    BY <1>5, <1>7, <1>9, <1>15, <1>23, <2>1, <2>2, <2>3
  <2> QED BY <1>23, <1>28, <2>4 DEF Forms
<1>31. IsMoved(h, ns, l, m, t, u, v, g)
  <2>1. \A o \in Lists : o # l /\ o # m => /\ g.first[o] = h.first[o] /\ g.last[o] = h.last[o]
                                           /\ g.count[o] = h.count[o]
    BY <1>12
  <2>2. \A q \in Nodes : ~Inside(s, q) /\ ~Inside(r, q) => g.next[q] = h.next[q] /\ g.prev[q] = h.prev[q]
    BY <1>7, <1>10, <1>12, <1>15, <1>16, ListsAssumed
  <2> QED BY <1>1, <1>12, <1>15, <1>23, <2>1, <2>2 DEF IsMoved
<1>32. Standing(g, [c EXCEPT ![l] = d, ![m] = n], [ns EXCEPT ![l] = u, ![m] = v])
  BY <1>15, <1>23, <1>25, <1>28, <1>29, <1>30, <1>31, MovedKeeps
<1> QED BY <1>1, <1>13, <1>24, <1>32

-----------------------------------------------------------------------------
(* The operations. *)

\* The memory h is lists that stand for the sequences c: the inductive invariant.
StandsFor(h, c) == \E ns : Standing(h, c, ns)

\* One object, if there is memory for it.
LEMMA PutOne ==
    ASSUME NEW h, NEW c, NEW ns, Standing(h, c, ns), NEW l \in Lists, NEW x \in Data,
           NEW where, NEW p, NEW j, At(where, ns[l], p, j)
    PROVE  StandsFor(Listing!AddOne(h, l, where, p, x),
                     [c EXCEPT ![l] = Listing!Splice(c[l], j, Listing!FirstOf(<<x>>, Listing!Available(h, l)))])
<1>1. PICK A, s, n : A = Listing!Available(h, l) /\ s = c[l] /\ n = Listing!NewNode(h, l)
  OBVIOUS
<1>2. IsHeap(h) /\ c \in [Lists -> Seq(Data)] /\ s \in Seq(Data) /\ Len(s) = Len(ns[l])
  BY <1>1, StandingOf
<1>3. A \in Nat /\ (n = Null <=> A = 0)
  BY <1>1, <1>2, AvailableIs
<1>4. j \in 0..Len(ns[l]) /\ j \in 0..Len(s)
  BY <1>2 DEF At
<1>5. Listing!AddOne(h, l, where, p, x) = Listing!Link(h, l, x, NodeAt(ns[l], j), NodeAt(ns[l], j + 1))
  BY AddOneIs
<1>6. <<x>> \in Seq(Data) /\ Len(<<x>>) = 1 /\ <<>> \in Seq(Data)
  BY EmptySeq
<1>7. Listing!Splice(s, j, <<>>) = s
  BY <1>2, <1>4, SpliceNone
<1>8. CASE A = 0
  <2>1. Listing!FirstOf(<<x>>, A) = Listing!Prefix(<<x>>, 0)
    BY <1>6, <1>8 DEF Listing!FirstOf, Listing!Smaller
  <2>2. Listing!Prefix(<<x>>, 0) = <<>>
    BY <1>6, SubSeqEmpty DEF Listing!Prefix
  <2>3. Listing!Link(h, l, x, NodeAt(ns[l], j), NodeAt(ns[l], j + 1)) = h
    BY <1>1, <1>3, <1>8 DEF Listing!Link
  <2>4. [c EXCEPT ![l] = s] = c
    BY <1>1, <1>2
  <2> QED BY <1>1, <1>5, <1>7, <2>1, <2>2, <2>3, <2>4 DEF StandsFor
<1>9. CASE A # 0
  <2>1. Listing!Smaller(A, 1) = 1
    BY <1>3, <1>9 DEF Listing!Smaller
  <2>2. Listing!FirstOf(<<x>>, A) = Listing!Prefix(<<x>>, 1)
    BY <1>6, <2>1 DEF Listing!FirstOf
  <2>3. Listing!Prefix(<<x>>, 1) = <<x>>
    <3>1. SubSeq(<<x>>, 1, Len(<<x>>)) = <<x>>
      BY <1>6, SubSeqFull
    <3> QED BY <1>6, <3>1 DEF Listing!Prefix
  <2>4. Listing!Splice(s, j, <<x>>) = Insertion(s, j, x)
    <3>1. Insertion(Listing!Splice(s, j, <<>>), j, x) = Listing!Splice(s, j, <<x>> \o <<>>)
      BY <1>2, <1>4, <1>6, SpliceBefore
    <3>2. <<x>> \o <<>> = <<x>>
      BY <1>6, ConcatEmptySeq
    <3> QED BY <1>7, <3>1, <3>2
  <2>5. PICK g : g = Listing!Link(h, l, x, NodeAt(ns[l], j), NodeAt(ns[l], j + 1))
    OBVIOUS
  <2>6. IsAdded(h, c, ns, l, x, j, n, g)
    BY <1>1, <1>3, <1>4, <1>9, <2>5, LinkKeeps
  <2>7. StandsFor(g, [c EXCEPT ![l] = Insertion(s, j, x)])
    BY <1>1, <2>6 DEF IsAdded, StandsFor
  <2> QED BY <1>1, <1>5, <2>2, <2>3, <2>4, <2>5, <2>7
<1> QED BY <1>8, <1>9

\* The objects that an addition of the list s puts in.
PutIn(where, s, k) == IF Forward(where) THEN Listing!FirstOf(s, k) ELSE Listing!LastOf(s, k)

\* The nodes of m in the order in which an addition reads them.
Source(h, m, where) == IF Forward(where) THEN Listing!Chain(h, m) ELSE Listing!Walk(h.prev, h.last[m])

\* The objects of a whole list, as many as there is memory for.
LEMMA PutAll ==
    ASSUME NEW h, NEW c, NEW ns, Standing(h, c, ns), NEW l \in Lists, NEW m \in Lists \ {l},
           NEW where, NEW p, NEW j, At(where, ns[l], p, j)
    PROVE  StandsFor(Listing!AddEach(h, l, where, p, Source(h, m, where)),
                     [c EXCEPT ![l] = Listing!Splice(c[l], j, PutIn(where, c[m], Listing!Available(h, l)))])
<1>1. PICK A, s, src : A = Listing!Available(h, l) /\ s = ns[m] /\ src = Source(h, m, where)
  OBVIOUS
<1>2. IsHeap(h) /\ s \in Seq(Nodes) /\ c[m] \in Seq(Data) /\ Len(c[m]) = Len(s) /\ Len(s) \in Nat
  BY <1>1, StandingOf
<1>3. A \in Nat
  BY <1>1, <1>2, AvailableIs
<1>4. IsWalked(h, ns, m)
  BY ListIsWalked
<1>5. Listing!Chain(h, m) = s /\ Listing!Walk(h.prev, h.last[m]) = Listing!Reverse(s)
  BY <1>1, <1>4 DEF IsWalked
<1>6. Len(src) = Len(s) /\ \A k \in 1..Len(s) : src[k] = s[Nth(where, s, k)]
  <2>1. CASE Forward(where)
    BY <1>1, <1>5, <2>1 DEF Source, Nth
  <2>2. CASE ~Forward(where)
    <3>1. src = Listing!Reverse(s)
      BY <1>1, <1>5, <2>2 DEF Source
    <3>2. IsReverse(s, src)
      BY <1>2, <3>1, ReverseIs
    <3> QED BY <2>2, <3>2 DEF IsReverse, Nth
  <2> QED BY <2>1, <2>2
<1>7. PICK g : g = Listing!AddEach(h, l, where, p, src)
  OBVIOUS
<1>8. \E ns2 : Standing(g, [c EXCEPT ![l] = Listing!Splice(c[l], j, Piece(where, c[m],
                                Listing!Smaller(Len(c[m]), Listing!Available(h, l))))], ns2)
  <2>1. Len(src) = Len(ns[m]) /\ \A k \in 1..Len(ns[m]) : src[k] = ns[m][Nth(where, ns[m], k)]
    BY <1>1, <1>6
  <2> QED BY <1>7, <2>1, AddEachIs
<1>9. Piece(where, c[m], Listing!Smaller(Len(c[m]), A)) = PutIn(where, c[m], A)
  <2>1. Listing!Smaller(Len(c[m]), A) = Listing!Smaller(A, Len(c[m]))
    BY <1>2, <1>3 DEF Listing!Smaller
  <2> QED BY <2>1 DEF Piece, PutIn, Listing!FirstOf, Listing!LastOf
<1> QED BY <1>1, <1>7, <1>8, <1>9 DEF StandsFor

\* Where a node of a list is.
LEMMA PlaceOf ==
    ASSUME NEW h, NEW c, NEW ns, Standing(h, c, ns), NEW l \in Lists,
           NEW p \in Listing!Range(Listing!Chain(h, l))
    PROVE  \E k \in 1..Len(ns[l]) : ns[l][k] = p /\ p \in Nodes /\ Listing!Index(h, l, p) = k
<1>1. PICK s : s = ns[l]
  OBVIOUS
<1>2. s \in Seq(Nodes) /\ Once(s)
  BY <1>1, StandingOf
<1>3. Listing!Chain(h, l) = s
  BY <1>1, ListIsWalked DEF IsWalked
<1>4. Inside(s, p)
  BY <1>2, <1>3, RangeIs
<1>5. PICK k \in 1..Len(s) : s[k] = p
  BY <1>4 DEF Inside
<1>6. DOMAIN s = 1..Len(s)
  BY <1>2
<1>7. Listing!Index(h, l, p) = CHOOSE o \in 1..Len(s) : s[o] = p
  BY <1>3, <1>6 DEF Listing!Index
<1>8. \A o \in 1..Len(s) : s[o] = p => o = k
  BY <1>2, <1>5 DEF Once
<1>9. (CHOOSE o \in 1..Len(s) : s[o] = p) = k
  BY <1>5, <1>8
<1>10. p \in Nodes
  BY <1>2, <1>5
<1> QED BY <1>1, <1>5, <1>7, <1>9, <1>10

\* The positions of an addition.
LEMMA AfterWhere ==
    ASSUME NEW ns, Standing(heap, contents, ns), NEW l \in Lists,
           NEW p \in Listing!Range(Listing!Chain(heap, l)) \cup {Null}
    PROVE  At("after", ns[l], p, Listing!UpTo(l, p))
<1>1. ns[l] \in Seq(Nodes) /\ Len(ns[l]) \in Nat
  BY StandingOf
<1>2. CASE p = Null
  <2>1. Listing!UpTo(l, p) = 0 /\ NodeAt(ns[l], 0) = Null
    BY <1>2 DEF Listing!UpTo, NodeAt
  <2> QED BY <1>1, <1>2, <2>1 DEF At
<1>3. CASE p # Null
  <2>1. PICK k \in 1..Len(ns[l]) : ns[l][k] = p /\ Listing!Index(heap, l, p) = k
    BY <1>3, PlaceOf
  <2>2. Listing!UpTo(l, p) = k /\ NodeAt(ns[l], k) = p
    BY <1>3, <2>1 DEF Listing!UpTo, NodeAt
  <2> QED BY <1>1, <2>2 DEF At
<1> QED BY <1>2, <1>3

\* The same for an addition before one of them.
LEMMA BeforeWhere ==
    ASSUME NEW ns, Standing(heap, contents, ns), NEW l \in Lists,
           NEW p \in Listing!Range(Listing!Chain(heap, l)) \cup {Null}
    PROVE  At("before", ns[l], p, Listing!Before(l, p))
<1>1. ns[l] \in Seq(Nodes) /\ Len(ns[l]) \in Nat /\ Len(contents[l]) = Len(ns[l])
  BY StandingOf
<1>2. CASE p = Null
  <2>1. Listing!Before(l, p) = Len(ns[l]) /\ NodeAt(ns[l], Len(ns[l]) + 1) = Null
    BY <1>1, <1>2 DEF Listing!Before, NodeAt
  <2> QED BY <1>1, <1>2, <2>1 DEF At
<1>3. CASE p # Null
  <2>1. PICK k \in 1..Len(ns[l]) : ns[l][k] = p /\ Listing!Index(heap, l, p) = k
    BY <1>3, PlaceOf
  <2>2. Listing!Before(l, p) = k - 1 /\ NodeAt(ns[l], k) = p
    BY <1>3, <2>1 DEF Listing!Before, NodeAt
  <2>3. k - 1 \in 0..Len(ns[l]) /\ (k - 1) + 1 = k
    BY <1>1
  <2> QED BY <2>2, <2>3 DEF At
<1> QED BY <1>2, <1>3

\* The additions of one object.
LEMMA AddKeepsLists ==
    ASSUME StandsFor(heap, contents), NEW l \in Lists, Listing!Add(l)
    PROVE  StandsFor(heap', contents')
<1>1. PICK ns : Standing(heap, contents, ns)
  BY DEF StandsFor
<1>2. PICK s, A, d : s = ns[l] /\ A = Listing!Available(heap, l) /\ d = contents[l]
  OBVIOUS
<1>3. /\ s \in Seq(Nodes) /\ Len(s) \in Nat /\ d \in Seq(Data) /\ Len(d) = Len(s)
  BY <1>1, <1>2, StandingOf
<1>4. PICK x \in Data :
         LET one == Listing!FirstOf(<<x>>, Listing!Available(heap, l)) IN
         \/ heap' = Listing!AddTailI(heap, l, x) /\ Listing!Become(l, contents[l] \o one)
         \/ heap' = Listing!AddHeadI(heap, l, x) /\ Listing!Become(l, one \o contents[l])
         \/ \E p \in Listing!Range(Listing!Chain(heap, l)) \cup {Null} :
               \/ /\ heap' = Listing!AddAfterI(heap, l, p, x)
                  /\ Listing!Become(l, Listing!Splice(contents[l], Listing!UpTo(l, p), one))
               \/ /\ heap' = Listing!AddBeforeI(heap, l, p, x)
                  /\ Listing!Become(l, Listing!Splice(contents[l], Listing!Before(l, p), one))
  BY DEF Listing!Add
<1>5. PICK one : one = Listing!FirstOf(<<x>>, A)
  OBVIOUS
<1>6. ASSUME NEW where, NEW p, NEW j, At(where, s, p, j),
             heap' = Listing!AddOne(heap, l, where, p, x),
             contents' = [contents EXCEPT ![l] = Listing!Splice(d, j, one)]
      PROVE  StandsFor(heap', contents')
  <2>1. StandsFor(Listing!AddOne(heap, l, where, p, x),
                  [contents EXCEPT ![l] = Listing!Splice(contents[l], j,
                                              Listing!FirstOf(<<x>>, Listing!Available(heap, l)))])
    BY <1>1, <1>2, <1>6, PutOne
  <2> QED BY <1>2, <1>5, <1>6, <2>1
<1>7. one \in Seq(Data)
  <2>1. <<x>> \in Seq(Data) /\ Len(<<x>>) = 1
    OBVIOUS
  <2>2. A \in Nat
    BY <1>1, <1>2, StandingOf, AvailableIs
  <2>3. Listing!Smaller(A, 1) \in 0..1
    BY <2>2 DEF Listing!Smaller
  <2>4. PICK k, y : k = Listing!Smaller(A, 1) /\ y = <<x>>
    OBVIOUS
  <2>5. k \in 0..Len(y) /\ y \in Seq(Data) /\ one = Listing!Prefix(y, k)
    BY <1>5, <2>1, <2>3, <2>4 DEF Listing!FirstOf
  <2> QED BY <2>5, PrefixIs
<1>8. Listing!Splice(d, Len(s), one) = d \o one /\ Listing!Splice(d, 0, one) = one \o d
  BY <1>3, <1>7, SpliceAtEnds
<1>9. CASE heap' = Listing!AddTailI(heap, l, x) /\ Listing!Become(l, contents[l] \o one)
  <2>1. Listing!AddOne(heap, l, "tail", Null, x) = Listing!AddTailI(heap, l, x)
    BY DEF Listing!AddOne
  <2>2. At("tail", s, Null, Len(s))
    BY <1>3 DEF At
  <2>3. contents' = [contents EXCEPT ![l] = Listing!Splice(d, Len(s), one)]
    BY <1>2, <1>8, <1>9 DEF Listing!Become
  <2> QED BY <1>6, <1>9, <2>1, <2>2, <2>3
<1>10. CASE heap' = Listing!AddHeadI(heap, l, x) /\ Listing!Become(l, one \o contents[l])
  <2>1. Listing!AddOne(heap, l, "head", Null, x) = Listing!AddHeadI(heap, l, x)
    BY DEF Listing!AddOne
  <2>2. At("head", s, Null, 0)
    BY <1>3 DEF At
  <2>3. contents' = [contents EXCEPT ![l] = Listing!Splice(d, 0, one)]
    BY <1>2, <1>8, <1>10 DEF Listing!Become
  <2> QED BY <1>6, <1>10, <2>1, <2>2, <2>3
<1>11. ASSUME NEW p \in Listing!Range(Listing!Chain(heap, l)) \cup {Null},
              heap' = Listing!AddAfterI(heap, l, p, x),
              Listing!Become(l, Listing!Splice(contents[l], Listing!UpTo(l, p), one))
       PROVE  StandsFor(heap', contents')
  <2>1. Listing!AddOne(heap, l, "after", p, x) = Listing!AddAfterI(heap, l, p, x)
    BY DEF Listing!AddOne
  <2>2. At("after", s, p, Listing!UpTo(l, p))
    BY <1>1, <1>2, <1>11, AfterWhere
  <2>3. contents' = [contents EXCEPT ![l] = Listing!Splice(d, Listing!UpTo(l, p), one)]
    BY <1>2, <1>11 DEF Listing!Become
  <2> QED BY <1>6, <1>11, <2>1, <2>2, <2>3
<1>12. ASSUME NEW p \in Listing!Range(Listing!Chain(heap, l)) \cup {Null},
              heap' = Listing!AddBeforeI(heap, l, p, x),
              Listing!Become(l, Listing!Splice(contents[l], Listing!Before(l, p), one))
       PROVE  StandsFor(heap', contents')
  <2>1. Listing!AddOne(heap, l, "before", p, x) = Listing!AddBeforeI(heap, l, p, x)
    BY DEF Listing!AddOne
  <2>2. At("before", s, p, Listing!Before(l, p))
    BY <1>1, <1>2, <1>12, BeforeWhere
  <2>3. contents' = [contents EXCEPT ![l] = Listing!Splice(d, Listing!Before(l, p), one)]
    BY <1>2, <1>12 DEF Listing!Become
  <2> QED BY <1>6, <1>12, <2>1, <2>2, <2>3
<1> QED BY <1>2, <1>4, <1>5, <1>9, <1>10, <1>11, <1>12

\* The additions of a whole list.
LEMMA AddListKeepsLists ==
    ASSUME StandsFor(heap, contents), NEW l \in Lists, NEW m \in Lists \ {l}, Listing!AddList(l, m)
    PROVE  StandsFor(heap', contents')
<1>1. PICK ns : Standing(heap, contents, ns)
  BY DEF StandsFor
<1>2. PICK s, A, d, e : s = ns[l] /\ A = Listing!Available(heap, l) /\ d = contents[l] /\ e = contents[m]
  OBVIOUS
<1>3. /\ s \in Seq(Nodes) /\ Len(s) \in Nat /\ d \in Seq(Data) /\ Len(d) = Len(s) /\ IsHeap(heap)
  BY <1>1, <1>2, StandingOf
<1>4. e \in Seq(Data) /\ Len(e) \in Nat
  BY <1>1, <1>2, StandingOf
<1>5. A \in Nat
  BY <1>2, <1>3, AvailableIs
<1>6. ASSUME NEW where, NEW p, NEW j, At(where, s, p, j),
             heap' = Listing!AddEach(heap, l, where, p, Source(heap, m, where)),
             contents' = [contents EXCEPT ![l] = Listing!Splice(d, j, PutIn(where, e, A))]
      PROVE  StandsFor(heap', contents')
  <2>1. StandsFor(Listing!AddEach(heap, l, where, p, Source(heap, m, where)),
                  [contents EXCEPT ![l] = Listing!Splice(contents[l], j,
                                              PutIn(where, contents[m], Listing!Available(heap, l)))])
    BY <1>1, <1>2, <1>6, PutAll
  <2> QED BY <1>2, <1>6, <2>1
<1>7. Listing!FirstOf(e, A) \in Seq(Data) /\ Listing!LastOf(e, A) \in Seq(Data)
  <2>1. PICK k : k = Listing!Smaller(A, Len(e))
    OBVIOUS
  <2>2. k \in 0..Len(e) /\ Len(e) - k \in 0..Len(e)
    BY <1>4, <1>5, <2>1 DEF Listing!Smaller
  <2>3. Listing!Prefix(e, k) \in Seq(Data) /\ Listing!Suffix(e, Len(e) - k) \in Seq(Data)
    BY <1>4, <2>2, PrefixIs, SuffixIs
  <2> QED BY <2>1, <2>3 DEF Listing!FirstOf, Listing!LastOf
<1>8. /\ Listing!Splice(d, Len(s), Listing!FirstOf(e, A)) = d \o Listing!FirstOf(e, A)
      /\ Listing!Splice(d, 0, Listing!LastOf(e, A)) = Listing!LastOf(e, A) \o d
  BY <1>3, <1>7, SpliceAtEnds
<1>9. /\ Forward("tail") /\ Forward("after") /\ ~Forward("head") /\ ~Forward("before")
  BY DEF Forward
<1>10. /\ \A where : Forward(where) => PutIn(where, e, A) = Listing!FirstOf(e, A)
                                       /\ Source(heap, m, where) = Listing!Chain(heap, m)
       /\ \A where : ~Forward(where) => PutIn(where, e, A) = Listing!LastOf(e, A)
                                        /\ Source(heap, m, where) = Listing!Walk(heap.prev, heap.last[m])
  BY DEF PutIn, Source
<1>11. CASE heap' = Listing!AddTailList(heap, l, m) /\ Listing!Become(l, d \o Listing!FirstOf(e, A))
  <2>1. heap' = Listing!AddEach(heap, l, "tail", Null, Source(heap, m, "tail"))
    BY <1>9, <1>10, <1>11 DEF Listing!AddTailList
  <2>2. At("tail", s, Null, Len(s))
    BY <1>3 DEF At
  <2>3. contents' = [contents EXCEPT ![l] = Listing!Splice(d, Len(s), PutIn("tail", e, A))]
    BY <1>8, <1>9, <1>10, <1>11 DEF Listing!Become
  <2> QED BY <1>6, <2>1, <2>2, <2>3
<1>12. CASE heap' = Listing!AddHeadList(heap, l, m) /\ Listing!Become(l, Listing!LastOf(e, A) \o d)
  <2>1. heap' = Listing!AddEach(heap, l, "head", Null, Source(heap, m, "head"))
    BY <1>9, <1>10, <1>12 DEF Listing!AddHeadList
  <2>2. At("head", s, Null, 0)
    BY <1>3 DEF At
  <2>3. contents' = [contents EXCEPT ![l] = Listing!Splice(d, 0, PutIn("head", e, A))]
    BY <1>8, <1>9, <1>10, <1>12 DEF Listing!Become
  <2> QED BY <1>6, <2>1, <2>2, <2>3
<1>13. ASSUME NEW p \in Listing!Range(Listing!Chain(heap, l)) \cup {Null},
              heap' = Listing!AddAfterList(heap, l, p, m),
              Listing!Become(l, Listing!Splice(d, Listing!UpTo(l, p), Listing!FirstOf(e, A)))
       PROVE  StandsFor(heap', contents')
  <2>1. heap' = Listing!AddEach(heap, l, "after", p, Source(heap, m, "after"))
    BY <1>9, <1>10, <1>13 DEF Listing!AddAfterList
  <2>2. At("after", s, p, Listing!UpTo(l, p))
    BY <1>1, <1>2, <1>13, AfterWhere
  <2>3. contents' = [contents EXCEPT ![l] = Listing!Splice(d, Listing!UpTo(l, p), PutIn("after", e, A))]
    BY <1>9, <1>10, <1>13 DEF Listing!Become
  <2> QED BY <1>6, <2>1, <2>2, <2>3
<1>14. ASSUME NEW p \in Listing!Range(Listing!Chain(heap, l)) \cup {Null},
              heap' = Listing!AddBeforeList(heap, l, p, m),
              Listing!Become(l, Listing!Splice(d, Listing!Before(l, p), Listing!LastOf(e, A)))
       PROVE  StandsFor(heap', contents')
  <2>1. heap' = Listing!AddEach(heap, l, "before", p, Source(heap, m, "before"))
    BY <1>9, <1>10, <1>14 DEF Listing!AddBeforeList
  <2>2. At("before", s, p, Listing!Before(l, p))
    BY <1>1, <1>2, <1>14, BeforeWhere
  <2>3. contents' = [contents EXCEPT ![l] = Listing!Splice(d, Listing!Before(l, p), PutIn("before", e, A))]
    BY <1>9, <1>10, <1>14 DEF Listing!Become
  <2> QED BY <1>6, <2>1, <2>2, <2>3
<1> QED BY <1>2, <1>11, <1>12, <1>13, <1>14 DEF Listing!AddList

\* What RemoveAt returns.
LEMMA RemoveAtIs ==
    ASSUME NEW S, NEW s \in Seq(S), NEW j \in 1..Len(s)
    PROVE  Listing!RemoveAt(s, j) = Removal(s, j)
<1>1. PICK a, b : a = Listing!Prefix(s, j - 1) /\ b = Listing!Suffix(s, j)
  OBVIOUS
<1>2. PICK n, o : n = Len(s) /\ o = j - 1
  OBVIOUS
<1>3. n \in Nat /\ o \in 0..n /\ j \in 1..n /\ j = o + 1
  BY <1>2
<1>4. a \in Seq(S) /\ Len(a) = o /\ \A k \in 1..o : a[k] = s[k]
  <2>1. a \in Seq(S) /\ IsPrefixOf(s, o, a)
    BY <1>1, <1>2, <1>3, PrefixIs
  <2> QED BY <2>1 DEF IsPrefixOf
<1>5. b \in Seq(S) /\ Len(b) = n - j /\ \A k \in 1..n - j : b[k] = s[j + k]
  <2>1. b \in Seq(S) /\ IsSuffixOf(s, j, b)
    BY <1>1, <1>2, <1>3, SuffixIs
  <2> QED BY <1>2, <2>1 DEF IsSuffixOf
<1>6. PICK t : t = a \o b
  OBVIOUS
<1>7. t \in Seq(S) /\ Len(t) = Len(a) + Len(b)
      /\ \A k \in 1..Len(a) + Len(b) : t[k] = IF k <= Len(a) THEN a[k] ELSE b[k - Len(a)]
  BY <1>4, <1>5, <1>6, ConcatProperties
<1>8. Listing!RemoveAt(s, j) = t
  BY <1>1, <1>6 DEF Listing!RemoveAt, Listing!Prefix, Listing!Suffix
<1>9. PICK r : r = Removal(s, j)
  OBVIOUS
<1>10. r \in Seq(S) /\ Len(r) = n - 1 /\ \A k \in 1..n - 1 : r[k] = IF k < j THEN s[k] ELSE s[k + 1]
  BY <1>2, <1>9, RemovalIs
<1>11. Len(t) = n - 1
  BY <1>3, <1>4, <1>5, <1>7
<1>12. ASSUME NEW k \in 1..n - 1 PROVE t[k] = r[k]
  <2>1. k \in 1..Len(a) + Len(b)
    BY <1>7, <1>11
  <2>2. CASE k < j
    <3>1. k <= o /\ k \in 1..o
      BY <1>3, <2>2
    <3> QED BY <1>4, <1>7, <1>10, <2>1, <2>2, <3>1
  <2>3. CASE ~(k < j)
    <3>1. ~(k <= o) /\ k - o \in 1..n - j /\ j + (k - o) = k + 1
      BY <1>3, <2>3
    <3>2. t[k] = b[k - o]
      BY <1>4, <1>7, <2>1, <3>1
    <3>3. b[k - o] = s[j + (k - o)]
      BY <1>5, <3>1
    <3> QED BY <1>10, <2>3, <3>1, <3>2, <3>3
  <2> QED BY <2>2, <2>3
<1>13. t = r
  BY <1>7, <1>10, <1>11, <1>12, SeqEqual
<1> QED BY <1>8, <1>9, <1>13

\* Remove, RemoveHead and RemoveTail.
LEMMA DeleteKeepsLists ==
    ASSUME StandsFor(heap, contents), NEW l \in Lists, Listing!Delete(l)
    PROVE  StandsFor(heap', contents')
<1>1. PICK ns : Standing(heap, contents, ns)
  BY DEF StandsFor
<1>2. PICK p \in Listing!Range(Listing!Chain(heap, l)) :
         /\ heap' = Listing!RemoveI(heap, l, p)
         /\ Listing!Become(l, Listing!RemoveAt(contents[l], Listing!Index(heap, l, p)))
  BY DEF Listing!Delete
<1>3. PICK k \in 1..Len(ns[l]) : ns[l][k] = p /\ Listing!Index(heap, l, p) = k
  BY <1>1, PlaceOf
<1>4. Standing(heap', [contents EXCEPT ![l] = Removal(contents[l], k)], [ns EXCEPT ![l] = Removal(ns[l], k)])
  BY <1>1, <1>2, <1>3, RemoveKeeps
<1>5. contents[l] \in Seq(Data) /\ k \in 1..Len(contents[l])
  BY <1>1, StandingOf
<1>6. Listing!RemoveAt(contents[l], k) = Removal(contents[l], k)
  BY <1>5, RemoveAtIs
<1>7. contents' = [contents EXCEPT ![l] = Removal(contents[l], k)]
  BY <1>2, <1>3, <1>6 DEF Listing!Become
<1> QED BY <1>4, <1>7 DEF StandsFor

\* RemoveAll.
LEMMA ClearKeepsLists ==
    ASSUME StandsFor(heap, contents), NEW l \in Lists, Listing!Clear(l)
    PROVE  StandsFor(heap', contents')
<1>1. PICK ns : Standing(heap, contents, ns)
  BY DEF StandsFor
<1>2. heap' = Listing!RemoveAll(heap, l) /\ contents' = [contents EXCEPT ![l] = <<>>]
  BY DEF Listing!Clear, Listing!Become
<1>3. Standing(heap', [contents EXCEPT ![l] = <<>>], [ns EXCEPT ![l] = <<>>])
  BY <1>1, <1>2, RemoveAllKeeps
<1> QED BY <1>2, <1>3 DEF StandsFor

\* Reverse.
LEMMA TurnKeepsLists ==
    ASSUME StandsFor(heap, contents), NEW l \in Lists, Listing!Turn(l)
    PROVE  StandsFor(heap', contents')
<1>1. PICK ns : Standing(heap, contents, ns)
  BY DEF StandsFor
<1>2. heap' = Listing!ReverseList(heap, l) /\ contents' = [contents EXCEPT ![l] = Listing!Reverse(contents[l])]
  BY DEF Listing!Turn, Listing!Become
<1>3. Standing(heap', [contents EXCEPT ![l] = Listing!Reverse(contents[l])],
                      [ns EXCEPT ![l] = Listing!Reverse(ns[l])])
  BY <1>1, <1>2, ReverseKeeps
<1> QED BY <1>2, <1>3 DEF StandsFor

\* MoveToTail and MoveToHead.
LEMMA MoveKeepsLists ==
    ASSUME StandsFor(heap, contents), NEW l \in Lists, NEW m \in Lists \ {l}, Listing!Move(l, m)
    PROVE  StandsFor(heap', contents')
<1>1. PICK ns : Standing(heap, contents, ns)
  BY DEF StandsFor
<1>2. PICK s, d, e : s = ns[l] /\ d = contents[l] /\ e = contents[m]
  OBVIOUS
<1>3. s \in Seq(Nodes) /\ Len(s) \in Nat /\ contents \in [Lists -> Seq(Data)]
  BY <1>1, <1>2, StandingOf
<1>4. PICK p \in Listing!Range(Listing!Chain(heap, l)) :
         LET k == Listing!Index(heap, l, p) IN
         \/ /\ heap' = Listing!MoveToTail(heap, l, p, m)
            /\ contents' = [contents EXCEPT ![l] = Listing!Suffix(@, k),
                                            ![m] = @ \o Listing!Prefix(contents[l], k)]
         \/ /\ heap' = Listing!MoveToHead(heap, l, p, m)
            /\ contents' = [contents EXCEPT ![l] = Listing!Prefix(@, k - 1),
                                            ![m] = Listing!Suffix(contents[l], k - 1) \o @]
  BY DEF Listing!Move
<1>5. PICK k \in 1..Len(s) : s[k] = p /\ Listing!Index(heap, l, p) = k
  BY <1>1, <1>2, PlaceOf
<1>6. l # m /\ m \in Lists
  OBVIOUS
<1>7. CASE /\ heap' = Listing!MoveToTail(heap, l, p, m)
           /\ contents' = [contents EXCEPT ![l] = Listing!Suffix(@, k),
                                           ![m] = @ \o Listing!Prefix(contents[l], k)]
  <2>1. contents' = [contents EXCEPT ![l] = Listing!Suffix(d, k), ![m] = e \o Listing!Prefix(d, k)]
    BY <1>2, <1>3, <1>6, <1>7
  <2>2. Standing(heap', [contents EXCEPT ![l] = Listing!Suffix(contents[l], k),
                                         ![m] = contents[m] \o Listing!Prefix(contents[l], k)],
                        [ns EXCEPT ![l] = Listing!Suffix(ns[l], k), ![m] = ns[m] \o Listing!Prefix(ns[l], k)])
    <3>1. k \in 1..Len(ns[l]) /\ heap' = Listing!MoveToTail(heap, l, ns[l][k], m)
      BY <1>2, <1>5, <1>7
    <3> QED BY <1>1, <1>6, <3>1, MoveToTailKeeps
  <2> QED BY <1>2, <2>1, <2>2 DEF StandsFor
<1>8. CASE /\ heap' = Listing!MoveToHead(heap, l, p, m)
           /\ contents' = [contents EXCEPT ![l] = Listing!Prefix(@, k - 1),
                                           ![m] = Listing!Suffix(contents[l], k - 1) \o @]
  <2>1. PICK a : a = k - 1
    OBVIOUS
  <2>2. a \in 0..Len(ns[l]) /\ a # Len(ns[l]) /\ a + 1 = k
    BY <1>2, <1>3, <2>1
  <2>3. contents' = [contents EXCEPT ![l] = Listing!Prefix(d, a), ![m] = Listing!Suffix(d, a) \o e]
    BY <1>2, <1>3, <1>6, <1>8, <2>1
  <2>4. Standing(heap', [contents EXCEPT ![l] = Listing!Prefix(contents[l], a),
                                         ![m] = Listing!Suffix(contents[l], a) \o contents[m]],
                        [ns EXCEPT ![l] = Listing!Prefix(ns[l], a), ![m] = Listing!Suffix(ns[l], a) \o ns[m]])
    <3>1. heap' = Listing!MoveToHead(heap, l, ns[l][a + 1], m)
      BY <1>2, <1>5, <1>8, <2>2
    <3> QED BY <1>1, <1>6, <2>2, <3>1, MoveToHeadKeeps
  <2> QED BY <1>2, <2>3, <2>4 DEF StandsFor
<1> QED BY <1>4, <1>5, <1>7, <1>8

\* Every operation leaves the lists standing for what it promised.
LEMMA ListStep ==
    ASSUME StandsFor(heap, contents), Listing!Next
    PROVE  StandsFor(heap', contents')
<1>1. ASSUME NEW l \in Lists, Listing!Add(l) PROVE StandsFor(heap', contents')
  BY <1>1, AddKeepsLists
<1>2. ASSUME NEW l \in Lists, Listing!Delete(l) PROVE StandsFor(heap', contents')
  BY <1>2, DeleteKeepsLists
<1>3. ASSUME NEW l \in Lists, Listing!Clear(l) PROVE StandsFor(heap', contents')
  BY <1>3, ClearKeepsLists
<1>4. ASSUME NEW l \in Lists, Listing!Turn(l) PROVE StandsFor(heap', contents')
  BY <1>4, TurnKeepsLists
<1>5. ASSUME NEW l \in Lists, NEW m \in Lists \ {l}, Listing!AddList(l, m) PROVE StandsFor(heap', contents')
  BY <1>5, AddListKeepsLists
<1>6. ASSUME NEW l \in Lists, NEW m \in Lists \ {l}, Listing!Move(l, m) PROVE StandsFor(heap', contents')
  BY <1>6, MoveKeepsLists
<1> QED BY <1>1, <1>2, <1>3, <1>4, <1>5, <1>6 DEF Listing!Next

\* At first there are empty lists and free nodes.
LEMMA ListStart ==
    ASSUME Listing!Init
    PROVE  StandsFor(heap, contents)
<1>1. PICK ns, place, of : /\ ns = [l \in Lists |-> <<>>] /\ place = [q \in Nodes |-> "free"]
                           /\ of = [q \in Nodes |-> CHOOSE l \in Lists : TRUE]
  OBVIOUS
<1>2. <<>> \in Seq(Nodes) /\ <<>> \in Seq(Data) /\ Len(<<>>) = 0
  BY EmptySeq
<1>3. IsHeap(heap)
  BY <1>2 DEF Listing!Init, IsHeap
<1>4. /\ heap.first = [l \in Lists |-> Null] /\ heap.last = [l \in Lists |-> Null]
      /\ heap.count = [l \in Lists |-> 0] /\ heap.cache = [l \in Lists |-> <<>>] /\ heap.free = Nodes
      /\ contents = [l \in Lists |-> <<>>]
  BY DEF Listing!Init
<1>5. /\ contents \in [Lists -> Seq(Data)] /\ ns \in [Lists -> Seq(Nodes)]
      /\ place \in [Nodes -> {"free", "list", "cache"}] /\ of \in [Nodes -> Lists]
      /\ \A q \in Nodes : q \in heap.free <=> place[q] = "free"
  <2>1. (CHOOSE l \in Lists : TRUE) \in Lists
    BY ListsAssumed
  <2> QED BY <1>1, <1>2, <1>4, <2>1
<1>6. \A s : Len(s) = 0 => /\ Once(s) /\ NodeAt(s, 1) = Null /\ NodeAt(s, Len(s)) = Null
                           /\ Linked(heap.next, heap.prev, s) /\ \A q : ~Inside(s, q)
  BY DEF Once, NodeAt, Linked, Inside
<1>7. ASSUME NEW l \in Lists
      PROVE  /\ Once(ns[l]) /\ Linked(heap.next, heap.prev, ns[l]) /\ Shows(heap, ns[l], contents[l])
             /\ heap.first[l] = NodeAt(ns[l], 1) /\ heap.last[l] = NodeAt(ns[l], Len(ns[l]))
             /\ heap.count[l] = Len(ns[l])
             /\ Once(heap.cache[l]) /\ Len(heap.cache[l]) <= iCacheSize
             /\ \A q \in Nodes : Inside(ns[l], q) <=> place[q] = "list" /\ of[q] = l
             /\ \A q \in Nodes : Inside(heap.cache[l], q) <=> place[q] = "cache" /\ of[q] = l
  <2>1. /\ ns[l] = <<>> /\ contents[l] = <<>> /\ heap.cache[l] = <<>> /\ heap.first[l] = Null
        /\ heap.last[l] = Null /\ heap.count[l] = 0
    BY <1>1, <1>4
  <2>2. Shows(heap, <<>>, <<>>)
    BY <1>2 DEF Shows
  <2>3. \A q \in Nodes : place[q] = "free"
    BY <1>1
  <2>4. Once(<<>>) /\ NodeAt(<<>>, 1) = Null /\ NodeAt(<<>>, Len(<<>>)) = Null
        /\ Linked(heap.next, heap.prev, <<>>) /\ \A q : ~Inside(<<>>, q)
    BY <1>2, <1>6
  <2> QED BY <1>2, <2>1, <2>2, <2>3, <2>4, ListsAssumed
<1>8. Stands(heap, contents, ns, place, of)
  BY <1>3, <1>5, <1>7, StandsFrom
<1> QED BY <1>8 DEF Standing, StandsFor

\* Memory that stands for its contents has both properties.
LEMMA ListReads ==
    ASSUME StandsFor(heap, contents)
    PROVE  Listing!IsItsContents
<1>1. PICK ns : Standing(heap, contents, ns)
  BY DEF StandsFor
<1>2. ASSUME NEW s \in Seq(Nodes), NEW d \in Seq(Data), Shows(heap, s, d)
      PROVE  Listing!Objects(s) = d
  <2>1. DOMAIN s = 1..Len(s) /\ d = [k \in 1..Len(d) |-> d[k]]
    OBVIOUS
  <2>2. Len(d) = Len(s) /\ \A k \in 1..Len(s) : d[k] = heap.data[s[k]]
    BY <1>2 DEF Shows
  <2>3. Listing!Objects(s) = [k \in 1..Len(s) |-> heap.data[s[k]]]
    BY <2>1 DEF Listing!Objects
  <2> QED BY <2>1, <2>2, <2>3
<1> SUFFICES ASSUME NEW l \in Lists
             PROVE  /\ Listing!Objects(Listing!Chain(heap, l)) = contents[l]
                    /\ Listing!Objects(Listing!Walk(heap.prev, heap.last[l])) = Listing!Reverse(contents[l])
                    /\ heap.count[l] = Len(contents[l])
  BY DEF Listing!IsItsContents
<1>3. PICK s, d : s = ns[l] /\ d = contents[l]
  OBVIOUS
<1>4. /\ s \in Seq(Nodes) /\ d \in Seq(Data) /\ Len(d) = Len(s) /\ Shows(heap, s, d) /\ heap.count[l] = Len(s)
  BY <1>1, <1>3, StandingOf
<1>5. IsWalked(heap, ns, l)
  BY <1>1, ListIsWalked
<1>6. Listing!Chain(heap, l) = s /\ Listing!Walk(heap.prev, heap.last[l]) = Listing!Reverse(s)
  BY <1>3, <1>5 DEF IsWalked
<1>7. PICK t, e : t = Listing!Reverse(s) /\ e = Listing!Reverse(d)
  OBVIOUS
<1>8. Shows(heap, t, e) /\ e \in Seq(Data)
  BY <1>4, <1>7, ShowsTurned
<1>9. t \in Seq(Nodes)
  BY <1>4, <1>7, ReverseIs
<1>10. Listing!Objects(s) = d
  BY <1>2, <1>4
<1>11. Listing!Objects(t) = e
  BY <1>2, <1>8, <1>9
<1> QED BY <1>3, <1>4, <1>6, <1>7, <1>10, <1>11

\* The places of the nodes are what NodesAccounted asks for.
LEMMA NodesHavePlaces ==
    ASSUME StandsFor(heap, contents)
    PROVE  Listing!NodesAccounted
<1>1. PICK ns : Standing(heap, contents, ns)
  BY DEF StandsFor
<1>2. PICK place, of : Stands(heap, contents, ns, place, of)
  BY <1>1 DEF Standing
<1>3. /\ place \in [Nodes -> {"free", "list", "cache"}] /\ of \in [Nodes -> Lists]
      /\ \A q \in Nodes : q \in heap.free <=> place[q] = "free"
      /\ heap.free \subseteq Nodes
  <2>1. IsHeap(heap)
    BY <1>2, StandsAll
  <2>2. heap.free \subseteq Nodes
    BY <2>1 DEF IsHeap
  <2> QED BY <1>2, <2>2, StandsAll
<1>4. ASSUME NEW l \in Lists
      PROVE  /\ \A q : q \in Listing!Range(Listing!Chain(heap, l)) <=> q \in Nodes /\ place[q] = "list" /\ of[q] = l
             /\ \A q : q \in Listing!Range(heap.cache[l]) <=> q \in Nodes /\ place[q] = "cache" /\ of[q] = l
             /\ Listing!IsInjective(heap.cache[l]) /\ Len(heap.cache[l]) <= iCacheSize
  <2>1. /\ ns[l] \in Seq(Nodes) /\ heap.cache[l] \in Seq(Nodes)
        /\ Once(heap.cache[l]) /\ Len(heap.cache[l]) <= iCacheSize
        /\ \A q \in Nodes : Inside(ns[l], q) <=> place[q] = "list" /\ of[q] = l
        /\ \A q \in Nodes : Inside(heap.cache[l], q) <=> place[q] = "cache" /\ of[q] = l
    BY <1>2, StandsOf
  <2>2. Listing!Chain(heap, l) = ns[l]
    BY <1>1, ListIsWalked DEF IsWalked
  <2>3. \A s \in Seq(Nodes) : \A q : Inside(s, q) => q \in Nodes
    BY DEF Inside
  <2>4. \A q : q \in Listing!Range(ns[l]) <=> Inside(ns[l], q)
    BY <2>1, RangeIs
  <2>5. \A q : q \in Listing!Range(heap.cache[l]) <=> Inside(heap.cache[l], q)
    BY <2>1, RangeIs
  <2>6. Listing!IsInjective(heap.cache[l])
    <3>1. PICK s : s = heap.cache[l]
      OBVIOUS
    <3>2. DOMAIN s = 1..Len(s) /\ Once(s)
      BY <2>1, <3>1
    <3> QED BY <3>1, <3>2 DEF Once, Listing!IsInjective
  <2> QED BY <2>1, <2>2, <2>3, <2>4, <2>5, <2>6
<1>5. ASSUME NEW q \in Nodes
      PROVE  q \in heap.free \cup UNION {Listing!Range(Listing!Chain(heap, l)) \cup Listing!Range(heap.cache[l]) : l \in Lists}
  <2>1. of[q] \in Lists
    BY <1>3
  <2>2. CASE place[q] = "free"
    BY <1>3, <2>2
  <2>3. CASE place[q] # "free"
    <3>1. PICK l \in Lists : of[q] = l
      BY <2>1
    <3>2. place[q] = "list" \/ place[q] = "cache"
      BY <1>3, <2>3
    <3>3. q \in Listing!Range(Listing!Chain(heap, l)) \cup Listing!Range(heap.cache[l])
      BY <1>4, <3>1, <3>2
    <3> QED BY <3>3
  <2> QED BY <2>2, <2>3
<1>6. heap.free \cup UNION {Listing!Range(Listing!Chain(heap, l)) \cup Listing!Range(heap.cache[l]) : l \in Lists} = Nodes
  BY <1>3, <1>4, <1>5
<1>7. ASSUME NEW l \in Lists
      PROVE  /\ Listing!IsInjective(heap.cache[l]) /\ Len(heap.cache[l]) <= iCacheSize
             /\ heap.free \cap (Listing!Range(Listing!Chain(heap, l)) \cup Listing!Range(heap.cache[l])) = {}
             /\ \A m \in Lists :
                  /\ Listing!Range(Listing!Chain(heap, l)) \cap Listing!Range(heap.cache[m]) = {}
                  /\ l # m => /\ Listing!Range(Listing!Chain(heap, l)) \cap Listing!Range(Listing!Chain(heap, m)) = {}
                              /\ Listing!Range(heap.cache[l]) \cap Listing!Range(heap.cache[m]) = {}
  BY <1>3, <1>4
<1> QED BY <1>6, <1>7 DEF Listing!NodesAccounted

-----------------------------------------------------------------------------
(* The lists while other parts work. *)

ListsInv == StandsFor(heap, contents)

\* What the lists stand for does not change while another part works.
LEMMA ListsStep ==
    ASSUME ListsInv, [MCNext]_<< part, vars, pageVars, toolVars >>
    PROVE  ListsInv'
<1>1. CASE UNCHANGED listVars
  BY <1>1 DEF listVars, ListsInv
<1>2. CASE Listing!Next
  BY <1>2, ListStep DEF ListsInv
<1>3. CASE ToolNext
  BY <1>1, <1>2, <1>3, Zenon DEF ToolNext
<1>4. CASE UNCHANGED toolVars
  BY <1>1, <1>4 DEF toolVars
<1> QED BY <1>3, <1>4, Zenon DEF MCNext

\* For any lists, nodes, objects and size of the caches: every list reads, forwards and
\* backwards, as the sequence its operations promised, and every node is in one list, in
\* one cache or free, with no cache over its size.
THEOREM ListsHold == MCSpec => []ListsSound
<1>1. MCInit => ListsInv
  BY ListStart DEF MCInit, ListsInv
<1>2. ListsInv /\ [MCNext]_<< part, vars, pageVars, toolVars >> => ListsInv'
  BY ListsStep
<1>3. ListsInv => ListsSound
  BY ListReads, NodesHavePlaces DEF ListsInv, ListsSound
<1> QED BY <1>1, <1>2, <1>3, PTL DEF MCSpec
=============================================================================
