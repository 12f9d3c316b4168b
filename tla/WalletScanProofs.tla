------------------------- MODULE WalletScanProofs -------------------------
(***************************************************************************)
(* What a scan believes, for every chain, every answer of the RPC and      *)
(* every reorganisation no deeper than the finality depth.                 *)
(*                                                                         *)
(* The blocks below Stable are never replaced again.  The inductive        *)
(* invariant says that everything the wallet keeps, and everything a pass  *)
(* is about to apply, lies there; a log the RPC left out, or a pass that   *)
(* was broken off, takes nothing away from that.                           *)
(***************************************************************************)
EXTENDS WalletScan, DataProofs

-----------------------------------------------------------------------------
(***************************************************************************)
(* Sorting                                                                 *)
(***************************************************************************)

\* R is a strict total order of S.
Orders(R, S) ==
    /\ \A x \in S : <<x, x>> \notin R
    /\ \A x, y, z \in S : <<x, y>> \in R /\ <<y, z>> \in R => <<x, z>> \in R
    /\ \A x, y \in S : x = y \/ <<x, y>> \in R \/ <<y, x>> \in R

\* In a finite total order every number up to the size is the count of the
\* elements before some element.
LEMMA RankOnto ==
    ASSUME NEW S, IsFiniteSet(S), NEW R, Orders(R, S), NEW k \in 1 .. Cardinality(S)
    PROVE  \E x \in S : Cardinality({y \in S : <<y, x>> \in R}) = k - 1
<1> DEFINE Before(x) == {y \in S : <<y, x>> \in R}
           n == Cardinality(S)
           rank == [x \in S |-> Cardinality(Before(x))]
<1>1. n \in Nat
  BY FS_CardinalityType
<1>2. \A x \in S : IsFiniteSet(Before(x)) /\ Cardinality(Before(x)) \in Nat
  <2> SUFFICES ASSUME NEW x \in S PROVE IsFiniteSet(Before(x)) /\ Cardinality(Before(x)) \in Nat
    OBVIOUS
  <2>1. Before(x) \in SUBSET S
    OBVIOUS
  <2> HIDE DEF Before
  <2> QED BY <2>1, FS_Subset, FS_CardinalityType
<1>3. ASSUME NEW x \in S, NEW T \in SUBSET S, Before(x) \subseteq T, x \in T
      PROVE  Cardinality(Before(x)) < Cardinality(T)
  <2> DEFINE B == Before(x)
  <2>1. x \notin B /\ B \cup {x} \in SUBSET T
    BY <1>3 DEF Orders
  <2>2. IsFiniteSet(B) /\ Cardinality(B) \in Nat
    BY <1>2
  <2>3. IsFiniteSet(T)
    BY FS_Subset
  <2> HIDE DEF B
  <2>4. Cardinality(B \cup {x}) = Cardinality(B) + 1
    BY <2>1, <2>2, FS_AddElement
  <2>5. Cardinality(B \cup {x}) =< Cardinality(T) /\ Cardinality(T) \in Nat
    BY <2>1, <2>3, FS_Subset, FS_CardinalityType
  <2>6. Cardinality(B) < Cardinality(T)
    BY <2>2, <2>4, <2>5
  <2> QED BY <2>6 DEF B
<1>4. ASSUME NEW x \in S, NEW y \in S, <<x, y>> \in R
      PROVE  Cardinality(Before(x)) < Cardinality(Before(y))
  <2>1. Before(x) \subseteq Before(y) /\ x \in Before(y) /\ Before(y) \in SUBSET S
    BY <1>4 DEF Orders
  <2> HIDE DEF Before
  <2> QED BY <1>3, <2>1
<1>5. \A x \in S : rank[x] \in 0 .. n - 1
  <2> SUFFICES ASSUME NEW x \in S PROVE rank[x] \in 0 .. n - 1
    OBVIOUS
  <2>1. Before(x) \subseteq S
    OBVIOUS
  <2> HIDE DEF Before
  <2>2. Cardinality(Before(x)) < n
    BY <1>3, <2>1
  <2> QED BY <1>1, <1>2, <2>2
<1>6. \A x, y \in S : rank[x] = rank[y] => x = y
  <2> SUFFICES ASSUME NEW x \in S, NEW y \in S, x # y PROVE rank[x] # rank[y]
    OBVIOUS
  <2>1. <<x, y>> \in R \/ <<y, x>> \in R
    BY DEF Orders
  <2> HIDE DEF Before
  <2>2. /\ Cardinality(Before(x)) \in Nat /\ Cardinality(Before(y)) \in Nat
        /\ \/ Cardinality(Before(x)) < Cardinality(Before(y))
           \/ Cardinality(Before(y)) < Cardinality(Before(x))
    BY <1>2, <1>4, <2>1
  <2> QED BY <2>2
<1>7. rank \in Injection(S, 0 .. n - 1)
  <2>1. rank = [x \in S |-> rank[x]]
    OBVIOUS
  <2> HIDE DEF rank, n
  <2> QED BY <1>5, <1>6, <2>1 DEF Injection, IsInjective
<1>8. IsFiniteSet(0 .. n - 1) /\ Cardinality(0 .. n - 1) = n
  <2> HIDE DEF n
  <2>1. 0 \in Int /\ n - 1 \in Int
    BY <1>1
  <2>2. IsFiniteSet(0 .. n - 1) /\ Cardinality(0 .. n - 1) = IF 0 > n - 1 THEN 0 ELSE n - 1 - 0 + 1
    BY <2>1, FS_Interval
  <2> QED BY <1>1, <2>2
<1>9. rank \in Surjection(S, 0 .. n - 1)
  <2> HIDE DEF rank
  <2> QED BY <1>7, <1>8, FS_Injection
<1>10. k - 1 \in 0 .. n - 1
  BY <1>1
<1>11. \E x \in S : rank[x] = k - 1
  <2> HIDE DEF rank, n
  <2> QED BY <1>9, <1>10 DEF Surjection
<1> QED BY <1>11

\* A log is a leaf, the block that emitted it and its place in the tree.
Log == [leaf : Leaf, block : Nat, at : Nat]

\* Places tell the logs of S apart.
Apart(S) == \A a, b \in S : a.at = b.at => a = b

\* Places and kinds do.
ApartByKind(S) == \A a, b \in S : a.at = b.at /\ (IsMemo(a) <=> IsMemo(b)) => a = b

\* Sorting logs loses and invents none: by block, place and kind,
LEMMA SortedByBlock ==
    ASSUME NEW S \in SUBSET Log, IsFiniteSet(S), ApartByKind(S)
    PROVE  Sorted(S, LogBefore) \in Seq(S)
<1> DEFINE R == {p \in S \X S : LogBefore(p[1], p[2])}
           n == Cardinality(S)
           s == Sorted(S, LogBefore)
<1>1. n \in Nat
  BY FS_CardinalityType
<1>2. /\ \A a \in S : a.block \in Nat /\ a.at \in Nat
      /\ \A a, b \in S : <<a, b>> \in R <=> LogBefore(a, b)
  BY DEF Log
<1>3. Orders(R, S)
  <2> HIDE DEF R
  <2>1. \A x \in S : <<x, x>> \notin R
    BY <1>2 DEF LogBefore
  <2>2. \A x, y, z \in S : <<x, y>> \in R /\ <<y, z>> \in R => <<x, z>> \in R
    <3> SUFFICES ASSUME NEW x \in S, NEW y \in S, NEW z \in S, <<x, y>> \in R, <<y, z>> \in R
                 PROVE  <<x, z>> \in R
      OBVIOUS
    <3> QED BY <1>2 DEF LogBefore
  <2>3. \A x, y \in S : x = y \/ <<x, y>> \in R \/ <<y, x>> \in R
    <3> SUFFICES ASSUME NEW x \in S, NEW y \in S, x # y PROVE <<x, y>> \in R \/ <<y, x>> \in R
      OBVIOUS
    <3>1. x.at = y.at => (~IsMemo(x) /\ IsMemo(y)) \/ (~IsMemo(y) /\ IsMemo(x))
      BY DEF ApartByKind
    <3> QED BY <1>2, <3>1 DEF LogBefore
  <2> QED BY <2>1, <2>2, <2>3 DEF Orders
<1>4. \A k \in 1 .. n : \E l \in S : Cardinality({m \in S : LogBefore(m, l)}) = k - 1
  <2> SUFFICES ASSUME NEW k \in 1 .. n
               PROVE  \E l \in S : Cardinality({m \in S : LogBefore(m, l)}) = k - 1
    OBVIOUS
  <2>1. \A l \in S : {m \in S : <<m, l>> \in R} = {m \in S : LogBefore(m, l)}
    <3> HIDE DEF R
    <3> QED BY <1>2
  <2> HIDE DEF R
  <2>2. k \in 1 .. Cardinality(S)
    OBVIOUS
  <2>3. \E l \in S : Cardinality({m \in S : <<m, l>> \in R}) = k - 1
    BY ONLY IsFiniteSet(S), <1>3, <2>2, RankOnto
  <2> QED BY <2>1, <2>3
<1>5. s = [k \in 1 .. n |-> CHOOSE l \in S : Cardinality({m \in S : LogBefore(m, l)}) = k - 1]
  BY DEF Sorted
<1>6. \A k \in 1 .. n : s[k] \in S
  BY <1>4, <1>5
<1> HIDE DEF s, n
<1>7. s \in [1 .. n -> S]
  BY <1>5, <1>6
<1> QED BY <1>1, <1>7 DEF s

\* or by place alone.
LEMMA SortedByPlace ==
    ASSUME NEW S \in SUBSET Log, IsFiniteSet(S), Apart(S)
    PROVE  Sorted(S, LeafBefore) \in Seq(S)
<1> DEFINE R == {p \in S \X S : LeafBefore(p[1], p[2])}
           n == Cardinality(S)
           s == Sorted(S, LeafBefore)
<1>1. n \in Nat
  BY FS_CardinalityType
<1>2. /\ \A a \in S : a.at \in Nat
      /\ \A a, b \in S : <<a, b>> \in R <=> a.at < b.at
  BY DEF Log, LeafBefore
<1>3. Orders(R, S)
  <2> HIDE DEF R
  <2>1. \A x \in S : <<x, x>> \notin R
    BY <1>2
  <2>2. \A x, y, z \in S : <<x, y>> \in R /\ <<y, z>> \in R => <<x, z>> \in R
    <3> SUFFICES ASSUME NEW x \in S, NEW y \in S, NEW z \in S, <<x, y>> \in R, <<y, z>> \in R
                 PROVE  <<x, z>> \in R
      OBVIOUS
    <3> QED BY <1>2
  <2>3. \A x, y \in S : x = y \/ <<x, y>> \in R \/ <<y, x>> \in R
    <3> SUFFICES ASSUME NEW x \in S, NEW y \in S, x # y PROVE <<x, y>> \in R \/ <<y, x>> \in R
      OBVIOUS
    <3>1. x.at # y.at
      BY DEF Apart
    <3> QED BY <1>2, <3>1
  <2> QED BY <2>1, <2>2, <2>3 DEF Orders
<1>4. \A k \in 1 .. n : \E l \in S : Cardinality({m \in S : LeafBefore(m, l)}) = k - 1
  <2> SUFFICES ASSUME NEW k \in 1 .. n
               PROVE  \E l \in S : Cardinality({m \in S : LeafBefore(m, l)}) = k - 1
    OBVIOUS
  <2>1. \A l \in S : {m \in S : <<m, l>> \in R} = {m \in S : LeafBefore(m, l)}
    OBVIOUS
  <2> HIDE DEF R
  <2>2. k \in 1 .. Cardinality(S)
    OBVIOUS
  <2>3. \E l \in S : Cardinality({m \in S : <<m, l>> \in R}) = k - 1
    BY ONLY IsFiniteSet(S), <1>3, <2>2, RankOnto
  <2> QED BY <2>1, <2>3
<1>5. s = [k \in 1 .. n |-> CHOOSE l \in S : Cardinality({m \in S : LeafBefore(m, l)}) = k - 1]
  BY DEF Sorted
<1>6. \A k \in 1 .. n : s[k] \in S
  BY <1>4, <1>5
<1> HIDE DEF s, n
<1>7. s \in [1 .. n -> S]
  BY <1>5, <1>6
<1> QED BY <1>1, <1>7 DEF s

-----------------------------------------------------------------------------
(***************************************************************************)
(* The leaves of a chain                                                   *)
(***************************************************************************)

\* The leaves of the first b blocks of c, and its leaf events.
LeavesIn(c, b) == FlattenSeq([n \in 1 .. b |-> c[n].leaves])
LogsIn(c) ==
    UNION {{[leaf |-> c[b].leaves[n], block |-> b,
             at |-> Len(LeavesIn(c, b - 1)) + n - 1] : n \in DOMAIN c[b].leaves}
           : b \in DOMAIN c}

\* A chain's blocks and their leaves.
LEMMA Blocks ==
    ASSUME NEW c \in Seq(Block)
    PROVE  /\ Len(c) \in Nat /\ DOMAIN c = 1 .. Len(c)
           /\ \A b \in 1 .. Len(c) : c[b] \in Block /\ c[b].leaves \in Seq(Leaf)
<1>1. \A x \in Block : x.leaves \in Seq(Leaf)
  BY DEF Block
<1>2. Len(c) \in Nat /\ DOMAIN c = 1 .. Len(c) /\ \A b \in 1 .. Len(c) : c[b] \in Block
  OBVIOUS
<1> QED BY <1>1, <1>2

\* g counts the leaves off block by block.
Counts(g, c) ==
    /\ g[0] = << >>
    /\ \A b \in 0 .. Len(c) : g[b] \in Seq(Leaf)
    /\ \A b \in 1 .. Len(c) : g[b] = g[b - 1] \o c[b].leaves

\* There is such a g:
LEMMA CountsExists ==
    ASSUME NEW c \in Seq(Block)
    PROVE  \E g : Counts(g, c)
<1> DEFINE n == Len(c)
           P == 1 .. n
           take == [s \in SUBSET P |-> Max(s)]
           step == [xr \in P \X Seq(Leaf) |-> xr[2] \o c[xr[1]].leaves]
           g(f) == [b \in 0 .. n |-> f[1 .. b]]
<1>1. /\ n \in Nat /\ DOMAIN c = P /\ \A b \in P : c[b] \in Block /\ c[b].leaves \in Seq(Leaf)
  BY Blocks
<1> HIDE DEF n
<1>2. IsFiniteSet(P) /\ Takes(take, P)
  BY <1>1, Positions
<1>3. PICK f : FoldFn(f, << >>, step, take, P)
  <2> HIDE DEF P, take, step
  <2> QED BY <1>2, FoldFnExists
<1>4. \A s \in SUBSET P : f[s] = IF s = {} THEN << >> ELSE step[<<take[s], f[s \ {take[s]}]>>]
  <2> HIDE DEF P, take, step
  <2> QED BY <1>3 DEF FoldFn
<1>5. \A b \in P : (1 .. b) \in SUBSET P /\ take[1 .. b] = b /\ (1 .. b) \ {b} = 1 .. b - 1
                   /\ (1 .. b) # {}
  <2> SUFFICES ASSUME NEW b \in P
               PROVE  (1 .. b) \in SUBSET P /\ take[1 .. b] = b /\ (1 .. b) \ {b} = 1 .. b - 1
                      /\ (1 .. b) # {}
    OBVIOUS
  <2>1. (1 .. b) \in SUBSET P /\ b \in 1 .. b /\ \A k \in 1 .. b : b >= k
    BY <1>1
  <2>2. Max(1 .. b) = b
    <3>1. \A x \in 1 .. b : x >= b => x = b
      BY <1>1, <2>1
    <3> QED BY <2>1, <3>1 DEF Max
  <2>3. (1 .. b) \ {b} = 1 .. b - 1
    BY <1>1
  <2> QED BY <2>1, <2>2, <2>3
<1>6. \A x \in P, r \in Seq(Leaf) : step[<<x, r>>] = r \o c[x].leaves /\ step[<<x, r>>] \in Seq(Leaf)
  <2> SUFFICES ASSUME NEW x \in P, NEW r \in Seq(Leaf)
               PROVE  step[<<x, r>>] = r \o c[x].leaves /\ step[<<x, r>>] \in Seq(Leaf)
    OBVIOUS
  <2>1. step[<<x, r>>] = r \o c[x].leaves
    <3>1. <<x, r>> \in P \X Seq(Leaf)
      OBVIOUS
    <3> HIDE DEF P
    <3> QED BY <3>1
  <2>2. c[x].leaves \in Seq(Leaf)
    BY <1>1
  <2> HIDE DEF step, P
  <2> QED BY <2>1, <2>2
<1>7. f[{}] = << >> /\ f[1 .. 0] = << >>
  <2>1. (1 .. 0) = {} /\ {} \in SUBSET P
    OBVIOUS
  <2> HIDE DEF P, take, step
  <2> QED BY <1>4, <2>1
<1>8. \A b \in 0 .. n : f[1 .. b] \in Seq(Leaf)
  <2> DEFINE Bad == {b \in 0 .. n : f[1 .. b] \notin Seq(Leaf)}
  <2> SUFFICES ASSUME Bad # {} PROVE FALSE
    OBVIOUS
  <2> DEFINE b == Min(Bad)
  <2>1. b \in Bad /\ \A m \in Bad : b =< m
    <3>1. Bad \subseteq Nat
      BY <1>1
    <3> HIDE DEF Bad
    <3> QED BY <3>1, LeastIsMin
  <2>2. b \in 0 .. n /\ f[1 .. b] \notin Seq(Leaf)
    BY <2>1
  <2> HIDE DEF b
  <2>3. b # 0 /\ b \in P
    <3>1. f[1 .. 0] \in Seq(Leaf)
      <4>1. << >> \in Seq(Leaf)
        OBVIOUS
      <4> QED BY <1>7, <4>1
    <3>2. b # 0
      BY <2>2, <3>1
    <3> QED BY <1>1, <2>2, <3>2
  <2>4. b - 1 \in 0 .. n /\ b - 1 \notin Bad
    <3>1. b - 1 \in 0 .. n /\ ~(b =< b - 1)
      BY <1>1, <2>3
    <3> HIDE DEF Bad
    <3> QED BY <2>1, <3>1
  <2>5. f[1 .. b - 1] \in Seq(Leaf)
    BY <2>4
  <2>6. f[1 .. b] = step[<<b, f[1 .. b - 1]>>]
    <3> HIDE DEF P, take, step
    <3> QED BY <1>4, <1>5, <2>3, ZenonT(60)
  <2> HIDE DEF step, take
  <2> QED BY <1>6, <2>2, <2>3, <2>5, <2>6
<1>9. \A b \in P : f[1 .. b] = f[1 .. b - 1] \o c[b].leaves
  <2> SUFFICES ASSUME NEW b \in P PROVE f[1 .. b] = f[1 .. b - 1] \o c[b].leaves
    OBVIOUS
  <2>1. f[1 .. b] = step[<<b, f[1 .. b - 1]>>]
    <3> HIDE DEF P, take, step
    <3> QED BY <1>4, <1>5, ZenonT(60)
  <2>2. b - 1 \in 0 .. n
    BY <1>1
  <2> HIDE DEF step, take, P
  <2> QED BY <1>6, <1>8, <2>1, <2>2
<1>10. Counts(g(f), c)
  <2>1. \A b \in P : b \in 0 .. n /\ b - 1 \in 0 .. n
    BY <1>1
  <2>2. 0 \in 0 .. n
    BY <1>1
  <2> QED BY <1>7, <1>8, <1>9, <2>1, <2>2 DEF Counts, n
<1> HIDE DEF g
<1> QED BY <1>10

\* and it is what LeavesIn computes.
LEMMA LeavesCounted ==
    ASSUME NEW c \in Seq(Block), NEW g, Counts(g, c), NEW b \in 0 .. Len(c)
    PROVE  LeavesIn(c, b) = g[b]
<1> DEFINE seqs == [n \in 1 .. b |-> c[n].leaves]
           F(f) == f = [i \in 1 .. b |-> IF i = 1 THEN seqs[i] ELSE f[i - 1] \o seqs[i]]
<1>1. /\ Len(c) \in Nat /\ DOMAIN c = 1 .. Len(c)
      /\ \A k \in 1 .. Len(c) : c[k] \in Block /\ c[k].leaves \in Seq(Leaf)
  BY Blocks
<1>2. seqs \in Seq(Seq(Leaf)) /\ Len(seqs) = b
  BY <1>1
<1>3. CASE b = 0
  <2>1. LeavesIn(c, b) = seqs
    BY <1>2, <1>3 DEF LeavesIn, FlattenSeq
  <2>2. seqs = << >>
    BY <1>3
  <2> QED BY <1>3, <2>1, <2>2 DEF Counts
<1>4. CASE b # 0
  <2>1. LeavesIn(c, b) = (CHOOSE f : F(f))[b]
    <3>1. FlattenSeq(seqs) = (CHOOSE f : F(f))[b]
      BY <1>2, <1>4 DEF FlattenSeq
    <3> QED BY <3>1 DEF LeavesIn
  <2> DEFINE G == [i \in 1 .. b |-> g[i]]
  <2>2. \A i \in 1 .. b : seqs[i] = c[i].leaves /\ i \in 1 .. Len(c)
    BY <1>1
  <2>3. g[1] = c[1].leaves
    <3>1. g[1] = g[0] \o c[1].leaves /\ g[0] = << >> /\ c[1].leaves \in Seq(Leaf)
      <4>1. 1 \in 1 .. Len(c) /\ 1 - 1 = 0
        BY <1>1, <1>4
      <4> QED BY <1>1, <4>1 DEF Counts
    <3> QED BY <3>1
  <2>4. \A i \in 1 .. b : i # 1 => i - 1 \in 1 .. b /\ g[i] = g[i - 1] \o c[i].leaves
    <3>1. \A i \in 1 .. b : g[i] = g[i - 1] \o c[i].leaves
      BY <2>2 DEF Counts
    <3>2. \A i \in 1 .. b : i # 1 => i - 1 \in 1 .. b
      OBVIOUS
    <3> QED BY <3>1, <3>2
  <2>5. F(G)
    <3>1. \A i \in 1 .. b : g[i] = IF i = 1 THEN seqs[i] ELSE G[i - 1] \o seqs[i]
      <4> HIDE DEF seqs
      <4> QED BY <2>2, <2>3, <2>4
    <3> HIDE DEF seqs
    <3> QED BY <3>1
  <2>6. F(CHOOSE f : F(f))
    <3> HIDE DEF F
    <3> QED BY <2>5
  <2> DEFINE h == CHOOSE f : F(f)
             Bad == {i \in 1 .. b : h[i] # g[i]}
  <2>7. Bad = {}
    <3> SUFFICES ASSUME Bad # {} PROVE FALSE
      OBVIOUS
    <3> DEFINE m == Min(Bad)
    <3>1. m \in Bad /\ \A k \in Bad : m =< k
      <4>1. Bad \subseteq Nat
        <5> HIDE DEF h
        <5> QED OBVIOUS
      <4> HIDE DEF Bad
      <4> QED BY <4>1, LeastIsMin
    <3>2. m \in 1 .. b /\ h[m] # g[m]
      BY <3>1
    <3>3. h[m] = IF m = 1 THEN seqs[m] ELSE h[m - 1] \o seqs[m]
      <4> HIDE DEF h, m, seqs
      <4> QED BY <2>6, <3>2 DEF h
    <3> HIDE DEF h, m, seqs
    <3>4. m # 1
      BY <2>2, <2>3, <3>2, <3>3
    <3>5. m - 1 \in 1 .. b /\ ~(m =< m - 1)
      BY <3>2, <3>4
    <3>6. h[m - 1] = g[m - 1]
      BY <3>1, <3>5
    <3> QED BY <2>2, <2>4, <3>2, <3>3, <3>4, <3>6
  <2>8. b \in 1 .. b
    BY <1>4
  <2> HIDE DEF h, F
  <2>9. h[b] = g[b]
    BY <2>7, <2>8
  <2> QED BY <2>1, <2>9 DEF h
<1> QED BY <1>3, <1>4

\* Every block adds its leaves at the end.
LEMMA LeavesStep ==
    ASSUME NEW c \in Seq(Block)
    PROVE  /\ LeavesIn(c, 0) = << >>
           /\ \A b \in 0 .. Len(c) : LeavesIn(c, b) \in Seq(Leaf)
           /\ \A b \in 1 .. Len(c) : LeavesIn(c, b) = LeavesIn(c, b - 1) \o c[b].leaves
<1>1. PICK g : Counts(g, c)
  BY CountsExists
<1>2. Len(c) \in Nat
  OBVIOUS
<1>3. \A b \in 0 .. Len(c) : LeavesIn(c, b) = g[b]
  BY <1>1, LeavesCounted
<1>4. 0 \in 0 .. Len(c) /\ \A b \in 1 .. Len(c) : b \in 0 .. Len(c) /\ b - 1 \in 0 .. Len(c)
  BY <1>2
<1> QED BY <1>1, <1>3, <1>4 DEF Counts

\* The leaves of fewer blocks are the first leaves of more.
LEMMA LeavesGrow ==
    ASSUME NEW c \in Seq(Block), NEW a \in 0 .. Len(c), NEW b \in a .. Len(c)
    PROVE  /\ LeavesIn(c, a) \in Seq(Leaf) /\ LeavesIn(c, b) \in Seq(Leaf)
           /\ Len(LeavesIn(c, a)) =< Len(LeavesIn(c, b))
           /\ \A k \in 1 .. Len(LeavesIn(c, a)) : LeavesIn(c, b)[k] = LeavesIn(c, a)[k]
<1> DEFINE n == Len(c)
           t == LeavesIn(c, a)
           Starts(s) == Len(t) =< Len(s) /\ \A k \in 1 .. Len(t) : s[k] = t[k]
           Bad == {m \in a .. n : ~Starts(LeavesIn(c, m))}
<1>1. /\ n \in Nat /\ DOMAIN c = 1 .. n /\ a \in 0 .. n /\ a \in Nat
      /\ \A k \in 1 .. n : c[k].leaves \in Seq(Leaf)
  BY Blocks
<1>2. /\ \A m \in 0 .. n : LeavesIn(c, m) \in Seq(Leaf)
      /\ \A m \in 1 .. n : LeavesIn(c, m) = LeavesIn(c, m - 1) \o c[m].leaves
  BY LeavesStep
<1>3. t \in Seq(Leaf) /\ Len(t) \in Nat
  BY <1>1, <1>2
<1> HIDE DEF n
<1>4. Bad = {}
  <2> SUFFICES ASSUME Bad # {} PROVE FALSE
    OBVIOUS
  <2> DEFINE m == Min(Bad)
  <2>1. m \in Bad /\ \A k \in Bad : m =< k
    <3>1. Bad \subseteq Nat
      BY <1>1
    <3> HIDE DEF Bad
    <3> QED BY <3>1, LeastIsMin
  <2>2. m \in a .. n /\ ~Starts(LeavesIn(c, m))
    <3> HIDE DEF m, Starts
    <3> QED BY <2>1
  <2> HIDE DEF m
  <2>3. m # a
    BY <1>3, <2>2
  <2>4. m - 1 \in a .. n /\ m \in 1 .. n /\ m - 1 \in 0 .. n /\ ~(m =< m - 1)
    BY <1>1, <2>2, <2>3
  <2>5. Starts(LeavesIn(c, m - 1))
    <3> HIDE DEF Starts
    <3> QED BY <2>1, <2>4
  <2> DEFINE s == LeavesIn(c, m - 1)
             u == c[m].leaves
  <2>6. s \in Seq(Leaf) /\ u \in Seq(Leaf) /\ LeavesIn(c, m) = s \o u
    BY <1>1, <1>2, <2>4
  <2> HIDE DEF t, s, u
  <2>7. Len(s \o u) = Len(s) + Len(u) /\ Len(s) \in Nat /\ Len(u) \in Nat
        /\ \A k \in 1 .. Len(s) : (s \o u)[k] = s[k]
    BY <2>6
  <2>8. Starts(s)
    BY <2>5 DEF s
  <2>9. Starts(s \o u)
    BY <1>3, <2>7, <2>8
  <2> QED BY <2>2, <2>6, <2>9
<1>5. b \in a .. n /\ b \in 0 .. n
  BY <1>1 DEF n
<1> HIDE DEF t, Starts
<1>6. Starts(LeavesIn(c, b))
  BY <1>4, <1>5
<1> QED BY <1>2, <1>3, <1>5, <1>6 DEF Starts, t

\* A leaf event tells the leaf at its place, which its block holds.
LEMMA LogTells ==
    ASSUME NEW c \in Seq(Block), NEW l \in LogsIn(c)
    PROVE  /\ l \in Log /\ l.block \in 1 .. Len(c)
           /\ LeavesIn(c, l.block - 1) \in Seq(Leaf) /\ LeavesIn(c, l.block) \in Seq(Leaf)
           /\ Len(LeavesIn(c, l.block - 1)) =< l.at /\ l.at < Len(LeavesIn(c, l.block))
           /\ LeavesIn(c, l.block)[l.at + 1] = l.leaf
<1>0. PICK b \in DOMAIN c : \E n \in DOMAIN c[b].leaves :
        l = [leaf |-> c[b].leaves[n], block |-> b, at |-> Len(LeavesIn(c, b - 1)) + n - 1]
  BY DEF LogsIn
<1>1. PICK n \in DOMAIN c[b].leaves :
        l = [leaf |-> c[b].leaves[n], block |-> b, at |-> Len(LeavesIn(c, b - 1)) + n - 1]
  BY <1>0
<1> DEFINE s == LeavesIn(c, b - 1)
           u == c[b].leaves
<1>2. b \in 1 .. Len(c) /\ b - 1 \in 0 .. Len(c) /\ b \in 0 .. Len(c) /\ b \in Nat /\ u \in Seq(Leaf)
  <2>1. Len(c) \in Nat /\ b \in 1 .. Len(c) /\ u \in Seq(Leaf)
    BY Blocks
  <2> QED BY <2>1
<1>3. s \in Seq(Leaf) /\ LeavesIn(c, b) = s \o u /\ LeavesIn(c, b) \in Seq(Leaf)
  BY <1>2, LeavesStep
<1> HIDE DEF s, u
<1>4. n \in 1 .. Len(u) /\ Len(u) \in Nat /\ Len(s) \in Nat /\ u[n] \in Leaf
  BY <1>2, <1>3 DEF u
<1>5. /\ Len(s \o u) = Len(s) + Len(u)
      /\ (s \o u)[Len(s) + n] = u[n]
  BY <1>2, <1>3, <1>4, SMTT(30)
<1> DEFINE at == Len(s) + n - 1
<1>6. at \in Nat /\ at + 1 = Len(s) + n /\ Len(s) =< at /\ at < Len(s) + Len(u)
  BY <1>4
<1>7. l = [leaf |-> u[n], block |-> b, at |-> at]
  BY <1>1 DEF s, u
<1> HIDE DEF at
<1>8. l.leaf = u[n] /\ l.block = b /\ l.at = at
  BY <1>7
<1>9. l \in Log
  BY <1>2, <1>4, <1>6, <1>7 DEF Log
<1> QED BY <1>2, <1>3, <1>5, <1>6, <1>8, <1>9 DEF s

\* No two leaf events have one place.
LEMMA LogsApart ==
    ASSUME NEW c \in Seq(Block)
    PROVE  LogsIn(c) \in SUBSET Log /\ Apart(LogsIn(c)) /\ IsFiniteSet(LogsIn(c))
<1>1. ASSUME NEW l \in LogsIn(c), NEW m \in LogsIn(c), l.block < m.block
      PROVE  l.at < m.at
  <2>1. /\ l.block \in 1 .. Len(c) /\ m.block \in 1 .. Len(c) /\ Len(c) \in Nat
        /\ l.at < Len(LeavesIn(c, l.block)) /\ Len(LeavesIn(c, m.block - 1)) =< m.at
        /\ l.at \in Nat /\ m.at \in Nat
    BY LogTells, Blocks DEF Log
  <2>2. l.block \in 0 .. Len(c) /\ m.block - 1 \in l.block .. Len(c)
    BY <1>1, <2>1
  <2>3. /\ LeavesIn(c, l.block) \in Seq(Leaf) /\ LeavesIn(c, m.block - 1) \in Seq(Leaf)
        /\ Len(LeavesIn(c, l.block)) =< Len(LeavesIn(c, m.block - 1))
    BY <2>2, LeavesGrow
  <2>4. Len(LeavesIn(c, l.block)) \in Nat /\ Len(LeavesIn(c, m.block - 1)) \in Nat
    BY <2>3
  <2> QED BY <2>1, <2>3, <2>4
<1>2. ASSUME NEW l \in LogsIn(c), NEW m \in LogsIn(c), l.at = m.at
      PROVE  l = m
  <2>1. /\ l \in Log /\ m \in Log /\ l.at \in Nat /\ l.block \in Nat /\ m.block \in Nat
        /\ LeavesIn(c, l.block)[l.at + 1] = l.leaf /\ LeavesIn(c, m.block)[m.at + 1] = m.leaf
    BY LogTells DEF Log
  <2>2. ~(l.block < m.block) /\ ~(m.block < l.block)
    BY <1>1, <1>2, <2>1
  <2>3. l.block = m.block
    BY <2>1, <2>2
  <2>4. l.leaf = m.leaf
    BY <1>2, <2>1, <2>3
  <2> QED BY <1>2, <2>1, <2>3, <2>4 DEF Log
<1>3. LogsIn(c) \in SUBSET Log
  BY LogTells
<1> DEFINE n == Len(LeavesIn(c, Len(c)))
           place == [l \in LogsIn(c) |-> l.at]
<1>4. n \in Nat /\ \A l \in LogsIn(c) : l.at \in 0 .. n
  <2> SUFFICES ASSUME NEW l \in LogsIn(c) PROVE n \in Nat /\ l.at \in 0 .. n
    <3>1. Len(c) \in 0 .. Len(c)
      BY Blocks
    <3>2. LeavesIn(c, Len(c)) \in Seq(Leaf)
      BY <3>1, LeavesStep
    <3> QED BY <3>2
  <2>1. /\ l.block \in 1 .. Len(c) /\ l.at < Len(LeavesIn(c, l.block)) /\ l.at \in Nat
        /\ Len(c) \in Nat
    BY LogTells, Blocks DEF Log
  <2>2. l.block \in 0 .. Len(c) /\ Len(c) \in l.block .. Len(c)
    BY <2>1
  <2>3. /\ LeavesIn(c, l.block) \in Seq(Leaf) /\ LeavesIn(c, Len(c)) \in Seq(Leaf)
        /\ Len(LeavesIn(c, l.block)) =< n
    BY <2>2, LeavesGrow
  <2>4. Len(LeavesIn(c, l.block)) \in Nat /\ n \in Nat
    BY <2>3
  <2> QED BY <2>1, <2>3, <2>4
<1>5. place \in Injection(LogsIn(c), 0 .. n)
  <2> HIDE DEF n
  <2> QED BY <1>2, <1>4 DEF Injection, IsInjective
<1>6. IsFiniteSet(0 .. n)
  <2> HIDE DEF n
  <2>1. 0 \in Int /\ n \in Int
    BY <1>4
  <2> QED BY <2>1, FS_Interval
<1>7. IsFiniteSet(LogsIn(c))
  <2> HIDE DEF n, place
  <2> QED BY <1>5, <1>6, FS_Injection
<1> QED BY <1>2, <1>3, <1>7 DEF Apart

\* Some of the logs are apart and finitely many too.
LEMMA SomeLogs ==
    ASSUME NEW c \in Seq(Block), NEW S, S \subseteq LogsIn(c)
    PROVE  S \in SUBSET Log /\ Apart(S) /\ IsFiniteSet(S)
BY LogsApart, FS_Subset DEF Apart

-----------------------------------------------------------------------------
(***************************************************************************)
(* Opening one log                                                         *)
(***************************************************************************)

\* The wallet's notes; and wallets whose keys are records over the fields D,
\* with numbers or values of V in them, and whose ring is of R.
Notebook == UNION {[N -> BOOLEAN] : N \in SUBSET (Leaf \X Nat)}
Wallets(D, V, R) == [keys : [D -> V \cup Int], tree : Seq(Leaf), notes : Notebook, ring : R]

\* T has this leaf at this place.
Known(T, leaf, at) == at \in Nat /\ at < Len(T) /\ T[at + 1] = leaf

\* Tree and notes of w are of T, and what w holds spent is in spent.
Believes(w, T, spent) ==
    /\ \A k \in DOMAIN w.tree : Known(T, w.tree[k], k - 1)
    /\ \A n \in DOMAIN w.notes :
         /\ Known(T, n[1], n[2]) /\ n[1].owner \in {"self", "incoming"}
         /\ w.notes[n] => n \in spent

\* What v holds spent, w holds spent.
KeepsSpent(v, w) == \A n \in DOMAIN v.notes : v.notes[n] => n \in DOMAIN w.notes /\ w.notes[n]

\* A notebook is a function that says of some notes whether they are spent.
LEMMA NotebookIs ==
    ASSUME NEW f
    PROVE  f \in Notebook <=> f \in [DOMAIN f -> BOOLEAN] /\ DOMAIN f \in SUBSET (Leaf \X Nat)
<1>1. ASSUME f \in Notebook
      PROVE  f \in [DOMAIN f -> BOOLEAN] /\ DOMAIN f \in SUBSET (Leaf \X Nat)
  <2>1. PICK N \in SUBSET (Leaf \X Nat) : f \in [N -> BOOLEAN]
    BY <1>1 DEF Notebook
  <2>2. DOMAIN f = N
    BY <2>1
  <2> QED BY <2>1, <2>2
<1>2. ASSUME f \in [DOMAIN f -> BOOLEAN], DOMAIN f \in SUBSET (Leaf \X Nat)
      PROVE  f \in Notebook
  <2> DEFINE N == DOMAIN f
  <2>1. N \in SUBSET (Leaf \X Nat) /\ f \in [N -> BOOLEAN]
    BY <1>2
  <2> HIDE DEF N
  <2> QED BY <2>1 DEF Notebook
<1> QED BY <1>1, <1>2

\* A note added is unspent if it is new; the others are as they were.
LEMMA NoteAdded ==
    ASSUME NEW notes \in Notebook, NEW n \in Leaf \X Nat
    PROVE  /\ addNote(notes, n) \in Notebook
           /\ DOMAIN addNote(notes, n) = DOMAIN notes \cup {n}
           /\ \A m \in DOMAIN notes : addNote(notes, n)[m] = notes[m]
           /\ n \notin DOMAIN notes => addNote(notes, n)[n] = FALSE
<1>1. notes \in [DOMAIN notes -> BOOLEAN] /\ DOMAIN notes \in SUBSET (Leaf \X Nat)
  BY NotebookIs
<1> DEFINE more == addNote(notes, n)
<1>2. /\ more = [m \in DOMAIN notes \cup {n} |-> m \in DOMAIN notes /\ notes[m]]
      /\ DOMAIN more = DOMAIN notes \cup {n}
  BY DEF addNote
<1>3. \A m \in DOMAIN notes : notes[m] \in BOOLEAN
  BY <1>1
<1> HIDE DEF more
<1>4. \A m \in DOMAIN notes : more[m] = notes[m]
  BY <1>2, <1>3
<1>5. n \notin DOMAIN notes => more[n] = FALSE
  BY <1>2
<1>6. \A m \in DOMAIN more : more[m] \in BOOLEAN
  BY <1>2
<1>7. more \in [DOMAIN more -> BOOLEAN]
  BY <1>2, <1>6
<1>8. DOMAIN more \in SUBSET (Leaf \X Nat)
  BY <1>1, <1>2
<1>9. more \in Notebook
  BY <1>7, <1>8, NotebookIs
<1> QED BY <1>2, <1>4, <1>5, <1>9 DEF more

\* The tree takes a leaf when it is the next one.
LEMMA LeafInserted ==
    ASSUME NEW D, NEW V, NEW R, NEW w \in Wallets(D, V, R), NEW log \in Log
    PROVE  /\ insertLeaf(w, log) \in Wallets(D, V, R)
           /\ insertLeaf(w, log).notes = w.notes
           /\ \/ insertLeaf(w, log).tree = w.tree
              \/ log.at = Len(w.tree) /\ insertLeaf(w, log).tree = Append(w.tree, log.leaf)
<1>1. log.leaf \in Leaf /\ w.tree \in Seq(Leaf)
  BY DEF Log, Wallets
<1>2. Append(w.tree, log.leaf) \in Seq(Leaf)
  BY <1>1
<1> QED BY <1>1, <1>2 DEF insertLeaf, Wallets

\* Opening a log adds its note, if it is the wallet's, and nothing else.
LEMMA LogProcessed ==
    ASSUME NEW D, NEW V, NEW R, NEW w \in Wallets(D, V, R), NEW log \in Log
    PROVE  /\ processLog(w, log) \in Wallets(D, V, R)
           /\ processLog(w, log).tree = w.tree
           /\ \/ processLog(w, log).notes = w.notes
              \/ /\ log.leaf.owner \in {"self", "incoming"}
                 /\ processLog(w, log).notes = addNote(w.notes, <<log.leaf, log.at>>)
<1> DEFINE i == log.leaf.index
           n == <<log.leaf, log.at>>
           Fine(x) == /\ x \in Wallets(D, V, R) /\ x.tree = w.tree
                      /\ \/ x.notes = w.notes
                         \/ log.leaf.owner \in {"self", "incoming"} /\ x.notes = addNote(w.notes, n)
<1>1. log.leaf \in Leaf /\ log.at \in Nat /\ n \in Leaf \X Nat
  BY DEF Log
<1>2. i \in Int
  <2>1. \A x \in Leaf : x.index \in Int
    BY DEF Leaf
  <2> QED BY <1>1, <2>1
<1>3. /\ w.keys \in [D -> V \cup Int] /\ w.tree \in Seq(Leaf) /\ w.notes \in Notebook /\ w.ring \in R
      /\ w = [keys |-> w.keys, tree |-> w.tree, notes |-> w.notes, ring |-> w.ring]
  BY DEF Wallets
<1>4. addNote(w.notes, n) \in Notebook
  BY <1>1, <1>3, NoteAdded
<1> HIDE DEF i, n
<1>5. matchSelfTag(w.keys, i) \in [D -> V \cup Int] /\ matchIncomingTag(w.keys, i) \in [D -> V \cup Int]
  BY <1>2, <1>3 DEF matchSelfTag, matchIncomingTag, Bigger
<1>6. ASSUME NEW k \in [D -> V \cup Int]
      PROVE  /\ [w EXCEPT !.keys = k] \in Wallets(D, V, R)
             /\ [w EXCEPT !.keys = k].tree = w.tree /\ [w EXCEPT !.keys = k].notes = w.notes
  BY <1>3 DEF Wallets
<1>7. ASSUME NEW x \in Wallets(D, V, R), x.tree = w.tree, x.notes = w.notes
      PROVE  /\ recover(x, log) \in Wallets(D, V, R)
             /\ recover(x, log).tree = w.tree /\ recover(x, log).notes = addNote(w.notes, n)
  BY <1>4, <1>7 DEF recover, Wallets, n
<1>8. Fine(w)
  BY <1>3
<1> DEFINE self == [w EXCEPT !.keys = matchSelfTag(@, i)]
           inc == [w EXCEPT !.keys = matchIncomingTag(@, i)]
<1>9. /\ self \in Wallets(D, V, R) /\ self.tree = w.tree /\ self.notes = w.notes
      /\ inc \in Wallets(D, V, R) /\ inc.tree = w.tree /\ inc.notes = w.notes
  BY <1>5, <1>6
<1> HIDE DEF self, inc
<1>10. Fine(self) /\ Fine(inc)
  BY <1>9
<1>11. log.leaf.owner = "self" => Fine(recover(self, log))
  BY <1>7, <1>9
<1>12. log.leaf.owner = "incoming" => Fine(recover(inc, log))
  BY <1>7, <1>9
<1> HIDE DEF Fine
<1>13. Fine(processNewNote(w, log))
  BY <1>8, <1>10, <1>11 DEF processNewNote, self, i
<1>14. Fine(processMemo(w, log))
  BY <1>8, <1>10, <1>12 DEF processMemo, inc, i
<1>15. Fine(processLog(w, log))
  BY <1>13, <1>14 DEF processLog
<1> QED BY <1>15 DEF Fine, n

\* Opening a log forgets no spend.
LEMMA OpenedSpent ==
    ASSUME NEW D, NEW V, NEW R, NEW w \in Wallets(D, V, R), NEW log \in Log
    PROVE  /\ processLog(insertLeaf(w, log), log) \in Wallets(D, V, R)
           /\ KeepsSpent(w, processLog(insertLeaf(w, log), log))
<1> DEFINE w1 == insertLeaf(w, log)
           w2 == processLog(w1, log)
           n == <<log.leaf, log.at>>
           notes == w.notes
           more == addNote(notes, n)
<1>1. w1 \in Wallets(D, V, R) /\ w1.notes = notes
  BY LeafInserted
<1> HIDE DEF w1
<1>2. w2 \in Wallets(D, V, R) /\ (w2.notes = notes \/ w2.notes = more)
  BY <1>1, LogProcessed
<1>3. n \in Leaf \X Nat /\ notes \in Notebook
  BY DEF Log, Wallets
<1> HIDE DEF w2, n, notes
<1>4. DOMAIN more = DOMAIN notes \cup {n} /\ \A m \in DOMAIN notes : more[m] = notes[m]
  BY <1>3, NoteAdded
<1> HIDE DEF more
<1>5. \A m \in DOMAIN notes : notes[m] => m \in DOMAIN w2.notes /\ w2.notes[m]
  BY <1>2, <1>4
<1> QED BY <1>2, <1>5 DEF KeepsSpent, w2, w1, notes

\* Opening a log that T has leaves the wallet believing T.
LEMMA OpenedKeeps ==
    ASSUME NEW D, NEW V, NEW R, NEW w \in Wallets(D, V, R), NEW log \in Log,
           NEW T \in Seq(Leaf), NEW spent, Known(T, log.leaf, log.at), Believes(w, T, spent)
    PROVE  Believes(processLog(insertLeaf(w, log), log), T, spent)
<1> DEFINE w1 == insertLeaf(w, log)
           w2 == processLog(w1, log)
           n == <<log.leaf, log.at>>
<1>1. /\ w1 \in Wallets(D, V, R) /\ w1.notes = w.notes
      /\ w1.tree = w.tree \/ (log.at = Len(w.tree) /\ w1.tree = Append(w.tree, log.leaf))
  BY LeafInserted
<1> HIDE DEF w1
<1>2. /\ w2 \in Wallets(D, V, R) /\ w2.tree = w1.tree
      /\ w2.notes = w.notes
           \/ (log.leaf.owner \in {"self", "incoming"} /\ w2.notes = addNote(w.notes, n))
  BY <1>1, LogProcessed
<1> HIDE DEF w2
<1>3. n \in Leaf \X Nat /\ n[1] = log.leaf /\ n[2] = log.at /\ log.leaf \in Leaf
  BY DEF Log
<1> HIDE DEF n
<1>4. w.tree \in Seq(Leaf) /\ w.notes \in Notebook /\ w.notes \in [DOMAIN w.notes -> BOOLEAN]
  BY NotebookIs DEF Wallets
<1>5. \A k \in DOMAIN w2.tree : Known(T, w2.tree[k], k - 1)
  <2>1. CASE w1.tree = w.tree
    BY <1>2, <2>1 DEF Believes
  <2>2. CASE log.at = Len(w.tree) /\ w1.tree = Append(w.tree, log.leaf)
    <3> SUFFICES ASSUME NEW k \in DOMAIN Append(w.tree, log.leaf)
                 PROVE  Known(T, Append(w.tree, log.leaf)[k], k - 1)
      BY <1>2, <2>2
    <3>1. \/ k \in DOMAIN w.tree /\ Append(w.tree, log.leaf)[k] = w.tree[k]
          \/ k = Len(w.tree) + 1 /\ Append(w.tree, log.leaf)[k] = log.leaf
      BY <1>3, <1>4
    <3>2. Len(w.tree) + 1 - 1 = Len(w.tree)
      BY <1>4
    <3> QED BY <2>2, <3>1, <3>2 DEF Believes
  <2> QED BY <1>1, <2>1, <2>2
<1>6. \A m \in DOMAIN w2.notes :
        /\ Known(T, m[1], m[2]) /\ m[1].owner \in {"self", "incoming"}
        /\ w2.notes[m] => m \in spent
  <2>1. CASE w2.notes = w.notes
    BY <2>1 DEF Believes
  <2>2. CASE log.leaf.owner \in {"self", "incoming"} /\ w2.notes = addNote(w.notes, n)
    <3>1. /\ DOMAIN w2.notes = DOMAIN w.notes \cup {n}
          /\ \A m \in DOMAIN w.notes : w2.notes[m] = w.notes[m]
          /\ n \notin DOMAIN w.notes => w2.notes[n] = FALSE
      <4> DEFINE notes == w.notes
                 more == addNote(notes, n)
      <4>1. notes \in Notebook
        BY <1>4
      <4> HIDE DEF notes
      <4>2. /\ DOMAIN more = DOMAIN notes \cup {n}
            /\ \A m \in DOMAIN notes : more[m] = notes[m]
            /\ n \notin DOMAIN notes => more[n] = FALSE
        BY <1>3, <4>1, NoteAdded
      <4>3. w2.notes = more
        BY <2>2 DEF notes
      <4> HIDE DEF more
      <4> QED BY <4>2, <4>3 DEF notes
    <3>2. ASSUME NEW m \in DOMAIN w2.notes
          PROVE  /\ Known(T, m[1], m[2]) /\ m[1].owner \in {"self", "incoming"}
                 /\ w2.notes[m] => m \in spent
      <4>1. CASE m \in DOMAIN w.notes
        BY <3>1, <4>1 DEF Believes
      <4>2. CASE m = n /\ n \notin DOMAIN w.notes
        BY <1>3, <2>2, <3>1, <4>2
      <4> QED BY <3>1, <3>2, <4>1, <4>2
    <3> QED BY <3>2
  <2> QED BY <1>2, <2>1, <2>2
<1>7. Believes(w2, T, spent)
  BY <1>5, <1>6 DEF Believes
<1> QED BY <1>7 DEF w2, w1

-----------------------------------------------------------------------------
(***************************************************************************)
(* Walking over logs                                                       *)
(***************************************************************************)

\* What is spent stays spent along a chain of wallets.
LEMMA SpentStays ==
    ASSUME NEW u, NEW v, NEW w, KeepsSpent(u, v), KeepsSpent(v, w)
    PROVE  KeepsSpent(u, w)
BY DEF KeepsSpent

\* The wallets over D, V and R that hold spent what w held spent and, when the
\* logs are sure, believe T; the logs, which T has when they are sure.
Believers(D, V, R, sure, T, spent, w) ==
    {x \in Wallets(D, V, R) : (sure => Believes(x, T, spent)) /\ KeepsSpent(w, x)}
LogsOf(sure, T) == {l \in Log : sure => Known(T, l.leaf, l.at)}

\* Opening a log leaves a believer one.
LEMMA StillBeliever ==
    ASSUME NEW D, NEW V, NEW R, NEW sure \in BOOLEAN, NEW T \in Seq(Leaf), NEW spent, NEW w,
           NEW x \in Believers(D, V, R, sure, T, spent, w), NEW l \in LogsOf(sure, T)
    PROVE  processLog(insertLeaf(x, l), l) \in Believers(D, V, R, sure, T, spent, w)
<1> DEFINE y == processLog(insertLeaf(x, l), l)
<1>1. /\ x \in Wallets(D, V, R) /\ (sure => Believes(x, T, spent)) /\ KeepsSpent(w, x)
      /\ l \in Log /\ (sure => Known(T, l.leaf, l.at))
  BY DEF Believers, LogsOf
<1>2. y \in Wallets(D, V, R) /\ KeepsSpent(x, y)
  BY <1>1, OpenedSpent
<1>3. sure => Believes(y, T, spent)
  BY <1>1, OpenedKeeps
<1> HIDE DEF y
<1>4. KeepsSpent(w, y)
  BY <1>1, <1>2, SpentStays
<1>5. y \in Believers(D, V, R, sure, T, spent, w)
  BY <1>2, <1>3, <1>4 DEF Believers
<1> QED BY <1>5 DEF y

\* Opening logs, one after the other.
LEMMA OpenedInTurn ==
    ASSUME NEW D, NEW V, NEW R, NEW w \in Wallets(D, V, R), NEW sure \in BOOLEAN,
           NEW T \in Seq(Leaf), NEW spent, sure => Believes(w, T, spent), NEW seq \in Seq(LogsOf(sure, T))
    PROVE  FoldLeft(LAMBDA acc, l : processLog(insertLeaf(acc, l), l), w, seq)
             \in Believers(D, V, R, sure, T, spent, w)
<1> DEFINE W == Believers(D, V, R, sure, T, spent, w)
           L == LogsOf(sure, T)
           n == Len(seq)
           P == 1 .. n
           next(acc, l) == processLog(insertLeaf(acc, l), l)
           step == [lx \in L \X W |-> next(lx[2], lx[1])]
           F(f) == f = [s \in SUBSET P |->
                          IF s = {} THEN w ELSE next(f[s \ {Max(s)}], seq[Max(s)])]
           all == FoldLeft(LAMBDA acc, l : processLog(insertLeaf(acc, l), l), w, seq)
<1>1. n \in Nat /\ DOMAIN seq = P /\ \A k \in P : seq[k] \in L
  OBVIOUS
<1>2. all = (CHOOSE f : F(f))[P]
  BY <1>1 DEF FoldLeft, MapThenFoldSet
<1> HIDE DEF all, n
<1>3. \A l \in L, x \in W : next(x, l) \in W
  BY StillBeliever
<1>4. w \in W
  BY DEF Believers, KeepsSpent
<1> HIDE DEF W, L, next
<1>5. \A l \in L, x \in W : <<l, x>> \in L \X W /\ step[<<l, x>>] = next(x, l)
  OBVIOUS
<1>6. step \in [L \X W -> W]
  BY <1>3
<1>7. \E f : F(f)
  <2> HIDE DEF step
  <2>1. PICK f : FoldsTo(f, step, w, seq, W)
    <3>1. seq \in Seq(L)
      BY DEF L
    <3> QED BY <1>4, <1>6, <3>1, FoldOver
  <2>2. \A s \in SUBSET P : f[s] = IF s = {} THEN w ELSE next(f[s \ {Max(s)}], seq[Max(s)])
    <3> SUFFICES ASSUME NEW s \in SUBSET P, s # {}
                 PROVE  f[s] = next(f[s \ {Max(s)}], seq[Max(s)])
      BY <2>1 DEF n, FoldsTo
    <3>1. /\ Max(s) \in s /\ s \ {Max(s)} \in SUBSET P
          /\ f[s] = step[<<seq[Max(s)], f[s \ {Max(s)}]>>]
      BY <2>1 DEF n, FoldsTo
    <3>2. f[s \ {Max(s)}] \in W /\ seq[Max(s)] \in L
      BY <1>1, <2>1, <3>1 DEF n, FoldsTo
    <3> QED BY <1>5, <3>1, <3>2
  <2>3. F(f)
    BY <2>1, <2>2 DEF n, FoldsTo
  <2> QED BY <2>3
<1> DEFINE g == CHOOSE f : F(f)
<1>8. F(g)
  <2> HIDE DEF F
  <2> QED BY <1>7
<1> HIDE DEF g
<1>9. g[{}] \in W
  BY <1>4, <1>8
<1>10. \A s \in SUBSET P : s # {} /\ Max(s) \in s /\ g[s \ {Max(s)}] \in W => g[s] \in W
  <2> SUFFICES ASSUME NEW s \in SUBSET P, s # {}, Max(s) \in s, g[s \ {Max(s)}] \in W
               PROVE  g[s] \in W
    OBVIOUS
  <2>1. g[s] = next(g[s \ {Max(s)}], seq[Max(s)])
    BY <1>8
  <2>2. seq[Max(s)] \in L
    BY <1>1
  <2> QED BY <1>3, <2>1, <2>2
<1>11. g[P] \in W
  BY <1>1, <1>9, <1>10, FoldHolds
<1>12. all \in W
  <2> HIDE DEF F
  <2> QED BY <1>2, <1>11 DEF g
<1> QED BY <1>12 DEF all, W

\* A pass walks over its logs, up to the first gap.
LEMMA WalkedInTurn ==
    ASSUME NEW D, NEW V, NEW R, NEW w \in Wallets(D, V, R), NEW sure \in BOOLEAN,
           NEW T \in Seq(Leaf), NEW spent, sure => Believes(w, T, spent),
           NEW seq \in Seq(LogsOf(sure, T)), NEW from \in Nat \ {0}
    PROVE  FoldLeft(LAMBDA acc, log :
                      IF acc.gap \/ log.at > Len(acc.w.tree) THEN [acc EXCEPT !.gap = TRUE]
                      ELSE [acc EXCEPT !.w = processLog(insertLeaf(@, log), log), !.n = @ + 1],
                    [w |-> w, n |-> from, gap |-> FALSE], seq)
             \in [w : Believers(D, V, R, sure, T, spent, w), n : Nat \ {0}, gap : BOOLEAN]
<1> DEFINE B == Believers(D, V, R, sure, T, spent, w)
           W == [w : B, n : Nat \ {0}, gap : BOOLEAN]
           L == LogsOf(sure, T)
           n == Len(seq)
           P == 1 .. n
           base == [w |-> w, n |-> from, gap |-> FALSE]
           opened(x, l) == processLog(insertLeaf(x, l), l)
           next(acc, log) ==
             IF acc.gap \/ log.at > Len(acc.w.tree) THEN [acc EXCEPT !.gap = TRUE]
             ELSE [acc EXCEPT !.w = opened(@, log), !.n = @ + 1]
           step == [lx \in L \X W |-> next(lx[2], lx[1])]
           F(f) == f = [s \in SUBSET P |->
                          IF s = {} THEN base ELSE next(f[s \ {Max(s)}], seq[Max(s)])]
           all == FoldLeft(LAMBDA acc, log :
                             IF acc.gap \/ log.at > Len(acc.w.tree) THEN [acc EXCEPT !.gap = TRUE]
                             ELSE [acc EXCEPT !.w = processLog(insertLeaf(@, log), log), !.n = @ + 1],
                           base, seq)
<1>1. n \in Nat /\ DOMAIN seq = P /\ \A k \in P : seq[k] \in L
  OBVIOUS
<1>2. all = (CHOOSE f : F(f))[P]
  BY <1>1 DEF FoldLeft, MapThenFoldSet
<1> HIDE DEF all, n
<1>3. \A l \in L, x \in B : opened(x, l) \in B
  BY StillBeliever
<1>4. base \in W
  <2>1. w \in B
    BY DEF Believers, KeepsSpent
  <2> HIDE DEF B
  <2> QED BY <2>1
<1> HIDE DEF B, L, opened, base
<1>5. \A l \in L, x \in W : next(x, l) \in W
  <2> SUFFICES ASSUME NEW l \in L, NEW x \in W PROVE next(x, l) \in W
    OBVIOUS
  <2>1. x.w \in B /\ x.n \in Nat \ {0} /\ x.n + 1 \in Nat \ {0} /\ opened(x.w, l) \in B
    BY <1>3
  <2>2. [x EXCEPT !.gap = TRUE] \in W
    OBVIOUS
  <2>3. [x EXCEPT !.w = opened(@, l), !.n = @ + 1] \in W
    BY <2>1
  <2> HIDE DEF W
  <2> QED BY <2>2, <2>3
<1> HIDE DEF W, next
<1>6. \A l \in L, x \in W : <<l, x>> \in L \X W /\ step[<<l, x>>] = next(x, l)
  OBVIOUS
<1>7. step \in [L \X W -> W]
  BY <1>5
<1>8. \E f : F(f)
  <2> HIDE DEF step
  <2>1. PICK f : FoldsTo(f, step, base, seq, W)
    <3>1. seq \in Seq(L)
      BY DEF L
    <3> QED BY <1>4, <1>7, <3>1, FoldOver
  <2>2. \A s \in SUBSET P : f[s] = IF s = {} THEN base ELSE next(f[s \ {Max(s)}], seq[Max(s)])
    <3> SUFFICES ASSUME NEW s \in SUBSET P, s # {}
                 PROVE  f[s] = next(f[s \ {Max(s)}], seq[Max(s)])
      BY <2>1 DEF n, FoldsTo
    <3>1. /\ Max(s) \in s /\ s \ {Max(s)} \in SUBSET P
          /\ f[s] = step[<<seq[Max(s)], f[s \ {Max(s)}]>>]
      BY <2>1 DEF n, FoldsTo
    <3>2. f[s \ {Max(s)}] \in W /\ seq[Max(s)] \in L
      BY <1>1, <2>1, <3>1 DEF n, FoldsTo
    <3> QED BY <1>6, <3>1, <3>2
  <2>3. F(f)
    BY <2>1, <2>2 DEF n, FoldsTo
  <2> QED BY <2>3
<1> DEFINE g == CHOOSE f : F(f)
<1>9. F(g)
  <2> HIDE DEF F
  <2> QED BY <1>8
<1> HIDE DEF g
<1>10. g[{}] \in W
  BY <1>4, <1>9
<1>11. \A s \in SUBSET P : s # {} /\ Max(s) \in s /\ g[s \ {Max(s)}] \in W => g[s] \in W
  <2> SUFFICES ASSUME NEW s \in SUBSET P, s # {}, Max(s) \in s, g[s \ {Max(s)}] \in W
               PROVE  g[s] \in W
    OBVIOUS
  <2>1. g[s] = next(g[s \ {Max(s)}], seq[Max(s)])
    BY <1>9
  <2>2. seq[Max(s)] \in L
    BY <1>1
  <2> QED BY <1>5, <2>1, <2>2
<1>12. g[P] \in W
  BY <1>1, <1>10, <1>11, FoldHolds
<1>13. all \in W
  <2> HIDE DEF F
  <2> QED BY <1>2, <1>12 DEF g
<1> QED BY <1>13 DEF all, base, W, B

\* A repair opens logs of the answer, those before the first leaf still missing.
LEMMA Filled ==
    ASSUME NEW D, NEW V, NEW R, NEW w \in Wallets(D, V, R), NEW sure \in BOOLEAN,
           NEW T \in Seq(Leaf), NEW spent, sure => Believes(w, T, spent),
           NEW logs, logs \subseteq LogsOf(sure, T), IsFiniteSet(logs), Apart(logs)
    PROVE  fill(w, logs) \in Believers(D, V, R, sure, T, spent, w)
<1> DEFINE known == {n \in 0 .. Cardinality(logs) :
                       \A at \in Len(w.tree) .. Len(w.tree) + n - 1 : \E l \in logs : l.at = at}
           S == {l \in logs : l.at < Len(w.tree) + Max(known)}
           seq == Sorted(S, LeafBefore)
<1>1. fill(w, logs) = FoldLeft(LAMBDA acc, l : processLog(insertLeaf(acc, l), l), w, seq)
  BY DEF fill
<1>2. S \subseteq logs
  OBVIOUS
<1> HIDE DEF S, known
<1>3. S \in SUBSET Log /\ IsFiniteSet(S) /\ Apart(S) /\ S \subseteq LogsOf(sure, T)
  BY <1>2, FS_Subset DEF Apart, LogsOf
<1>4. seq \in Seq(S)
  BY <1>3, SortedByPlace
<1> HIDE DEF seq
<1>5. seq \in Seq(LogsOf(sure, T))
  BY <1>3, <1>4
<1> QED BY <1>1, <1>5, OpenedInTurn

-----------------------------------------------------------------------------
(***************************************************************************)
(* The invariants                                                          *)
(***************************************************************************)

NullLog == [nullifier : Leaf \X Nat, block : Nat]
ScanType ==
    [at : {"idle", "notes", "memos", "nulls", "head", "pass"}, window : Nat, from : Nat,
     notes : SUBSET Log, memos : SUBSET Log, nulls : SUBSET NullLog,
     logs : Seq(Log), n : Nat \ {0}, attempt : Nat]

\* The chain is never longer than the longest there was, nor shorter by more
\* than a reorganisation takes away.
ChainOk ==
    /\ chain \in Seq(Block) /\ mined \in Nat /\ longest \in Nat
    /\ Len(chain) =< longest /\ longest - ReorgDepth =< Len(chain)

\* Keys are a record, and a wallet is one.
IsRecord(k) == k = [f \in DOMAIN k |-> k[f]]
IsWallet(w) ==
    /\ w = [keys |-> w.keys, tree |-> w.tree, notes |-> w.notes, ring |-> w.ring]
    /\ IsRecord(w.keys)
    /\ w.tree \in Seq(Leaf) /\ w.notes \in Notebook

\* The logs fetched are finitely many, and a query's tell places apart.
IsScan(s) ==
    /\ s \in ScanType
    /\ IsFiniteSet(s.notes) /\ Apart(s.notes) /\ \A l \in s.notes : ~IsMemo(l)
    /\ IsFiniteSet(s.memos) /\ Apart(s.memos) /\ \A l \in s.memos : IsMemo(l)

\* What holds whatever is reorganised.
TypeInv == ChainOk /\ IsWallet(wallet) /\ IsScan(scan) /\ raced \in BOOLEAN

\* Blocks that are never replaced again.
Stable == Bigger(0, longest - ReorgDepth)

\* What was read and not yet cut off is on the chain.
ReadOk ==
    /\ scan.at \in {"memos", "nulls", "head"} => scan.notes \subseteq LeafLogs
    /\ scan.at \in {"nulls", "head"} => scan.memos \subseteq LeafLogs
    /\ scan.at = "head" => scan.nulls \subseteq NullLogs

\* What a pass applies is in the blocks that stay.
PassOk ==
    scan.at = "pass" =>
      /\ \A k \in DOMAIN scan.logs :
           Known(LeavesUpTo(Stable), scan.logs[k].leaf, scan.logs[k].at)
      /\ \A l \in scan.nulls : l.nullifier \in SpentUpTo(Stable)

\* What holds of a process none of whose scans was outrun.
SoundInv ==
    /\ TypeInv /\ ReadOk /\ PassOk
    /\ Believes(wallet, LeavesUpTo(Stable), SpentUpTo(Stable))

\* The inductive invariant.
ScanInv == TypeInv /\ (raced \/ SoundInv)

\* A wallet is one over the fields and values of its keys;
LEMMA WalletOver ==
    ASSUME NEW w, IsWallet(w)
    PROVE  w \in Wallets(DOMAIN w.keys, {w.keys[f] : f \in DOMAIN w.keys}, {w.ring})
<1> DEFINE D == DOMAIN w.keys
           V == {w.keys[f] : f \in D}
<1>1. w.keys \in [D -> V \cup Int]
  <2>1. \A f \in D : w.keys[f] \in V
    OBVIOUS
  <2>2. w.keys = [f \in D |-> w.keys[f]]
    BY DEF IsWallet, IsRecord
  <2> HIDE DEF D, V
  <2> QED BY <2>1, <2>2
<1> HIDE DEF D, V
<1>2. w \in Wallets(D, V, {w.ring})
  BY <1>1 DEF IsWallet, Wallets
<1> QED BY <1>2 DEF D, V

\* and one over any fields and values is a wallet.
LEMMA WalletsAre ==
    ASSUME NEW D, NEW V, NEW R, NEW w \in Wallets(D, V, R)
    PROVE  IsWallet(w)
<1>1. /\ w.keys \in [D -> V \cup Int] /\ w.tree \in Seq(Leaf) /\ w.notes \in Notebook
      /\ w = [keys |-> w.keys, tree |-> w.tree, notes |-> w.notes, ring |-> w.ring]
  BY DEF Wallets
<1>2. w.keys = [f \in DOMAIN w.keys |-> w.keys[f]]
  BY <1>1
<1> QED BY <1>1, <1>2 DEF IsWallet, IsRecord

\* Nobody's notes are a notebook.
LEMMA NoNotes == << >> \in Notebook
<1>1. << >> \in [{} -> BOOLEAN] /\ {} \in SUBSET (Leaf \X Nat)
  OBVIOUS
<1> QED BY <1>1 DEF Notebook

\* New keys leave the rest of a wallet.
LEMMA Rekeyed ==
    ASSUME NEW w, IsWallet(w), NEW k, IsRecord(k)
    PROVE  /\ IsWallet([w EXCEPT !.keys = k])
           /\ [w EXCEPT !.keys = k].tree = w.tree /\ [w EXCEPT !.keys = k].notes = w.notes
<1> DEFINE v == [w EXCEPT !.keys = k]
<1>1. w = [keys |-> w.keys, tree |-> w.tree, notes |-> w.notes, ring |-> w.ring]
  BY DEF IsWallet
<1>2. v = [keys |-> k, tree |-> w.tree, notes |-> w.notes, ring |-> w.ring]
  BY <1>1
<1> HIDE DEF v
<1>3. v.keys = k /\ v.tree = w.tree /\ v.notes = w.notes /\ v.ring = w.ring
  BY <1>2
<1>4. IsWallet(v)
  BY <1>2, <1>3 DEF IsWallet
<1> QED BY <1>3, <1>4 DEF v

\* However keys are made they are a record.
LEMMA KeysMade ==
    /\ IsRecord(NewRepository)
    /\ \A k : IsRecord(k) =>
         /\ \A window : IsRecord(ensureIncomingLookahead(ensureSelfLookahead(k, window), window))
         /\ \A i : IsRecord(nextSelfEphemeral(k, i))
         /\ IsRecord(nextIncomingAddress(k))
    /\ \A st, high : IsRecord(restore(st, high))
<1>1. IsRecord(NewRepository)
  BY DEF IsRecord, NewRepository
<1>2. \A k, target : IsRecord(k) => IsRecord(registerSelf(k, target)) /\ IsRecord(registerIncoming(k, target))
  BY ZenonT(60) DEF IsRecord, registerSelf, registerIncoming
<1>3. \A k, window : IsRecord(k) =>
        IsRecord(ensureIncomingLookahead(ensureSelfLookahead(k, window), window))
  BY <1>2 DEF ensureIncomingLookahead, ensureSelfLookahead
<1>4. \A k, i : IsRecord(k) => IsRecord(nextSelfEphemeral(k, i))
  BY ZenonT(60) DEF IsRecord, nextSelfEphemeral
<1>5. \A k : IsRecord(k) => IsRecord(nextIncomingAddress(k))
  BY DEF IsRecord, nextIncomingAddress
<1>6. \A st, high : IsRecord(restore(st, high))
  <2> SUFFICES ASSUME NEW st, NEW high PROVE IsRecord(restore(st, high))
    OBVIOUS
  <2> DEFINE mint == Bigger(st.selfMintCounter, high)
             k == [NewRepository EXCEPT
                     !.selfMintCounter = mint,
                     !.incomingIssueCounter = st.incomingIssueCounter,
                     !.highestMatchedSelf = st.highestMatchedSelf,
                     !.highestMatchedIncoming = st.highestMatchedIncoming]
  <2>1. IsRecord(k)
    BY <1>1 DEF IsRecord
  <2>2. restore(st, high) =
          ensureIncomingLookahead(
            ensureSelfLookahead(
              registerIncoming(registerSelf(k, Bigger(st.selfScanIndex, mint + Window)),
                               Bigger(st.incomingScanIndex, k.incomingIssueCounter)),
              Window), Window)
    BY DEF restore
  <2> HIDE DEF k, mint
  <2> QED BY <1>2, <1>3, <2>1, <2>2
<1> QED BY <1>1, <1>3, <1>4, <1>5, <1>6

-----------------------------------------------------------------------------
(***************************************************************************)
(* The chain moves                                                         *)
(***************************************************************************)

\* The current compliance key is a number.
LEMMA KeyIsNat == ASSUME NEW c \in Seq(Block) PROVE CurrentKey(c) \in Nat
<1> DEFINE rot == [b \in DOMAIN c |-> c[b].rotates]
           K == {c[b].rotates : b \in DOMAIN c}
           S == {0} \cup K
<1>1. Len(c) \in Nat /\ DOMAIN c = 1 .. Len(c) /\ \A b \in DOMAIN c : c[b] \in Block
  BY Blocks
<1>2. \A b \in DOMAIN c : c[b].rotates \in Nat
  BY <1>1 DEF Block
<1>3. IsFiniteSet(DOMAIN c)
  <2>1. 1 \in Int /\ Len(c) \in Int
    BY <1>1
  <2> QED BY <1>1, <2>1, FS_Interval
<1>4. rot \in Surjection(DOMAIN c, K)
  BY DEF Surjection
<1>5. IsFiniteSet(K)
  <2> HIDE DEF K, rot
  <2> QED BY <1>3, <1>4, FS_Surjection
<1>6. S \subseteq Int /\ S \subseteq Nat /\ S # {}
  BY <1>2
<1>7. IsFiniteSet(S)
  <2> HIDE DEF K
  <2> QED BY <1>5, FS_Union, FS_Singleton
<1>8. CurrentKey(c) = Max(S)
  BY DEF CurrentKey
<1> HIDE DEF S
<1> QED BY <1>6, <1>7, <1>8, FiniteMax

\* Whatever is mined is a block.
LEMMA MinesBlock ==
    ASSUME ChainOk, mineDeposit \/ minePayment \/ mineEmpty \/ mineSpend \/ mineRotation
    PROVE  \E block \in Block : Mine(block)
<1>1. chain \in Seq(Block) /\ mined + 1 \in Nat /\ MaxIndex \in Nat /\ CurrentKey(chain) \in Nat
  BY KeyIsNat, ScanConstants DEF ChainOk
<1>2. \A i \in 0 .. MaxIndex : Self(i, CurrentKey(chain)) \in Leaf
  BY <1>1 DEF Self, Leaf
<1>3. \A j \in 0 .. MaxIndex : Incoming(j, mined + 1) \in Leaf /\ Other(mined + 1) \in Leaf
  BY <1>1 DEF Incoming, Other, Leaf
<1>4. \A s \in Seq(Leaf) : Plain(s) \in Block
  BY DEF Plain, Empty, Block
<1>5. CASE mineDeposit
  <2>1. PICK i \in 0 .. MaxIndex : Mine(Plain(<<Self(i, CurrentKey(chain))>>))
    BY <1>5 DEF mineDeposit
  <2>2. <<Self(i, CurrentKey(chain))>> \in Seq(Leaf)
    BY <1>2
  <2> QED BY <1>4, <2>1, <2>2
<1>6. CASE minePayment
  <2>1. PICK j \in 0 .. MaxIndex : Mine(Plain(<<Incoming(j, mined + 1), Other(mined + 1)>>))
    BY <1>6 DEF minePayment
  <2>2. <<Incoming(j, mined + 1), Other(mined + 1)>> \in Seq(Leaf)
    BY <1>3
  <2> QED BY <1>4, <2>1, <2>2
<1>7. CASE mineEmpty
  <2>1. Empty \in Block
    BY DEF Empty, Block
  <2> QED BY <1>7, <2>1 DEF mineEmpty
<1>8. CASE mineSpend
  <2>1. PICK log \in LeafLogs, i \in 0 .. MaxIndex :
          Mine([leaves |-> <<Self(i, CurrentKey(chain))>>, spent |-> {<<log.leaf, log.at>>},
                rotates |-> 0])
    BY <1>8 DEF mineSpend
  <2>2. <<Self(i, CurrentKey(chain))>> \in Seq(Leaf)
    BY <1>2
  <2>3. log \in Log
    <3>1. log \in LogsIn(chain)
      BY DEF LeafLogs, LogsIn, LeavesUpTo, LeavesIn
    <3> QED BY <1>1, <3>1, LogTells
  <2>4. <<log.leaf, log.at>> \in Leaf \X Nat
    BY <2>3 DEF Log
  <2>5. [leaves |-> <<Self(i, CurrentKey(chain))>>, spent |-> {<<log.leaf, log.at>>},
         rotates |-> 0] \in Block
    BY <2>2, <2>4 DEF Block
  <2> QED BY <2>1, <2>5
<1>9. CASE mineRotation
  <2>1. Mine([leaves |-> << >>, spent |-> {}, rotates |-> mined + 1])
    BY <1>9 DEF mineRotation
  <2>2. [leaves |-> << >>, spent |-> {}, rotates |-> mined + 1] \in Block
    BY <1>1 DEF Block
  <2> QED BY <2>1, <2>2
<1> QED BY <1>5, <1>6, <1>7, <1>8, <1>9

\* The leaves of chains that agree.
LEMMA LeavesAgree ==
    ASSUME NEW c, NEW d, NEW b \in Int, \A k \in 1 .. b : c[k] = d[k]
    PROVE  LeavesIn(c, b) = LeavesIn(d, b)
<1>1. [n \in 1 .. b |-> c[n].leaves] = [n \in 1 .. b |-> d[n].leaves]
  OBVIOUS
<1> QED BY <1>1 DEF LeavesIn

\* Mining adds one block at the end.
LEMMA Mined ==
    ASSUME ChainOk, NEW block \in Block, Mine(block)
    PROVE  /\ ChainOk' /\ wallet' = wallet /\ scan' = scan /\ raced' = raced
           /\ Len(chain') = Len(chain) + 1 /\ longest =< longest'
           /\ \A k \in 1 .. Len(chain) : chain'[k] = chain[k]
<1>1. /\ chain \in Seq(Block) /\ mined \in Nat /\ longest \in Nat /\ ReorgDepth \in Nat
      /\ Len(chain) =< longest /\ longest - ReorgDepth =< Len(chain)
  BY ScanConstants DEF ChainOk
<1>2. /\ chain' = Append(chain, block) /\ mined' = mined + 1
      /\ longest' = Bigger(longest, Len(chain')) /\ wallet' = wallet /\ scan' = scan
      /\ raced' = raced
  BY DEF Mine
<1>3. /\ chain' \in Seq(Block) /\ Len(chain') = Len(chain) + 1 /\ Len(chain) \in Nat
      /\ \A k \in 1 .. Len(chain) : chain'[k] = chain[k]
  BY <1>1, <1>2
<1>4. /\ longest' \in Nat /\ longest =< longest' /\ Len(chain') =< longest'
      /\ longest' - ReorgDepth =< Len(chain')
  BY <1>1, <1>2, <1>3 DEF Bigger
<1> QED BY <1>1, <1>2, <1>3, <1>4 DEF ChainOk

\* A reorganisation takes blocks from the end, none of the stable ones.
LEMMA Reorganised ==
    ASSUME ChainOk, reorg
    PROVE  /\ ChainOk' /\ wallet' = wallet /\ scan' = scan /\ longest' = longest
           /\ raced' = (raced \/ outruns(chain'))
           /\ Len(chain') =< Len(chain) /\ longest - ReorgDepth =< Len(chain')
           /\ \A k \in 1 .. Len(chain') : chain'[k] = chain[k]
<1>1. /\ chain \in Seq(Block) /\ mined \in Nat /\ longest \in Nat /\ ReorgDepth \in Nat
      /\ Len(chain) =< longest /\ longest - ReorgDepth =< Len(chain) /\ Len(chain) \in Nat
  BY ScanConstants DEF ChainOk
<1>2. PICK depth \in 1 .. ReorgDepth :
        /\ Len(chain) - depth >= longest - ReorgDepth
        /\ chain' = SubSeq(chain, 1, Len(chain) - depth) /\ raced' = (raced \/ outruns(chain'))
        /\ mined' = mined /\ longest' = longest /\ wallet' = wallet /\ scan' = scan
  BY DEF reorg
<1> DEFINE m == Len(chain) - depth
<1>3. m \in Int /\ m =< Len(chain) /\ m >= longest - ReorgDepth
  BY <1>1, <1>2
<1>4. chain' = SubSeq(chain, 1, m)
  BY <1>2
<1> HIDE DEF m
<1>5. /\ chain' \in Seq(Block) /\ Len(chain') = (IF 1 =< m THEN m ELSE 0)
      /\ \A k \in 1 .. Len(chain') : chain'[k] = chain[k]
  BY <1>1, <1>3, <1>4
<1>6. Len(chain') =< Len(chain) /\ longest - ReorgDepth =< Len(chain') /\ Len(chain') =< longest
  BY <1>1, <1>3, <1>5
<1> QED BY <1>1, <1>2, <1>5, <1>6 DEF ChainOk

-----------------------------------------------------------------------------
(***************************************************************************)
(* The scan moves                                                          *)
(***************************************************************************)

\* What leaves the chain's length and blocks alone leaves ChainOk.
LEMMA ChainStays == ASSUME ChainOk, UNCHANGED scanning PROVE ChainOk' /\ raced' = raced
BY DEF ChainOk, scanning

\* A scan that has not begun.
LEMMA IdleScan == IsScan(NoScan)
<1>1. NoScan \in ScanType
  BY DEF NoScan, ScanType
<1> QED BY <1>1, FS_EmptySet DEF IsScan, NoScan, Apart

\* The leaf events of the chain, as the lemmas name them.
LEMMA LeafLogsAre == LeafLogs = LogsIn(chain) /\ \A b : LeavesUpTo(b) = LeavesIn(chain, b)
BY DEF LeafLogs, LogsIn, LeavesUpTo, LeavesIn

\* Every nullifier event is one.
LEMMA NullLogsAre == ASSUME ChainOk PROVE NullLogs \subseteq NullLog
<1>1. /\ Len(chain) \in Nat /\ DOMAIN chain = 1 .. Len(chain)
      /\ \A b \in DOMAIN chain : chain[b] \in Block
  BY Blocks DEF ChainOk
<1>2. \A b \in DOMAIN chain : b \in Nat /\ chain[b].spent \in SUBSET (Leaf \X Nat)
  BY <1>1 DEF Block
<1> QED BY <1>2 DEF NullLogs, NullLog

\* sync and probe begin a scan.
LEMMA PassesBegin ==
    ASSUME TypeInv, NEW from \in Nat, NEW window \in Nat, scanPasses(from, window)
    PROVE  /\ TypeInv' /\ scan'.at = "notes"
           /\ wallet'.tree = wallet.tree /\ wallet'.notes = wallet.notes
           /\ UNCHANGED scanning
<1> DEFINE keys == ensureIncomingLookahead(ensureSelfLookahead(wallet.keys, window), window)
<1>1. /\ scan' = [NoScan EXCEPT !.at = "notes", !.window = window, !.from = scanFloor(from)]
      /\ wallet' = [wallet EXCEPT !.keys = keys] /\ UNCHANGED scanning
  BY DEF scanPasses
<1>2. IsRecord(keys)
  BY KeysMade DEF TypeInv, IsWallet
<1> HIDE DEF keys
<1>3. IsWallet(wallet') /\ wallet'.tree = wallet.tree /\ wallet'.notes = wallet.notes
  BY <1>1, <1>2, Rekeyed DEF TypeInv
<1>4. scanFloor(from) \in Nat
  <2>1. {from, 1} \subseteq Nat /\ {from, 1} # {}
    OBVIOUS
  <2> QED BY <2>1, LeastIsMin DEF scanFloor
<1>5. IsScan(scan') /\ scan'.at = "notes"
  <2>1. scan' \in ScanType
    <3>1. scan' = [at |-> "notes", window |-> window, from |-> scanFloor(from), notes |-> {},
                   memos |-> {}, nulls |-> {}, logs |-> << >>, n |-> 1, attempt |-> 0]
      BY <1>1 DEF NoScan
    <3> QED BY <1>4, <3>1 DEF ScanType
  <2>2. scan'.notes = {} /\ scan'.memos = {} /\ scan'.at = "notes"
    BY <1>1 DEF NoScan
  <2> QED BY <2>1, <2>2, FS_EmptySet DEF IsScan, Apart
<1> QED BY <1>1, <1>3, <1>5, ChainStays DEF TypeInv

\* A query answers with some of the logs asked for.
LEMMA Asked == \A S : \A answer \in Answers(Since(S)) : answer \in SUBSET S
BY DEF Answers, Since

\* The three queries.
LEMMA FetchedNotes ==
    ASSUME TypeInv, fetchNotes
    PROVE  /\ TypeInv' /\ wallet' = wallet /\ UNCHANGED scanning
           /\ scan'.at = "memos" /\ scan'.notes \subseteq LeafLogs
<1> DEFINE logs == {l \in LeafLogs : ~IsMemo(l)}
<1>1. /\ scan.at = "notes" /\ wallet' = wallet /\ UNCHANGED scanning
      /\ \E answer \in SUBSET logs : scan' = [[scan EXCEPT !["notes"] = answer] EXCEPT !.at = "memos"]
  <2>1. queryFilter("notes", logs, "memos", "notes")
    BY DEF fetchNotes
  <2> HIDE DEF logs
  <2> QED BY <2>1, Asked DEF queryFilter
<1>2. PICK answer \in SUBSET logs : scan' = [[scan EXCEPT !["notes"] = answer] EXCEPT !.at = "memos"]
  BY <1>1
<1>3. answer \subseteq LeafLogs /\ \A l \in answer : ~IsMemo(l)
  BY <1>2
<1>4. answer \in SUBSET Log /\ Apart(answer) /\ IsFiniteSet(answer)
  BY <1>3, LeafLogsAre, SomeLogs DEF TypeInv, ChainOk
<1> HIDE DEF logs
<1>5. scan' = [scan EXCEPT !.notes = answer, !.at = "memos"]
  BY <1>2
<1>6. scan' \in ScanType /\ scan'.notes = answer /\ scan'.memos = scan.memos /\ scan'.at = "memos"
  BY <1>4, <1>5 DEF TypeInv, IsScan, ScanType
<1>7. IsScan(scan')
  BY <1>3, <1>4, <1>6 DEF TypeInv, IsScan
<1> QED BY <1>1, <1>3, <1>6, <1>7, ChainStays DEF TypeInv

LEMMA FetchedMemos ==
    ASSUME TypeInv, fetchMemos
    PROVE  /\ TypeInv' /\ wallet' = wallet /\ UNCHANGED scanning /\ scan.at = "memos"
           /\ scan'.at = "nulls" /\ scan'.memos \subseteq LeafLogs /\ scan'.notes = scan.notes
<1> DEFINE logs == {l \in LeafLogs : IsMemo(l)}
<1>1. /\ scan.at = "memos" /\ wallet' = wallet /\ UNCHANGED scanning
      /\ \E answer \in SUBSET logs : scan' = [[scan EXCEPT !["memos"] = answer] EXCEPT !.at = "nulls"]
  <2>1. queryFilter("memos", logs, "nulls", "memos")
    BY DEF fetchMemos
  <2> HIDE DEF logs
  <2> QED BY <2>1, Asked DEF queryFilter
<1>2. PICK answer \in SUBSET logs : scan' = [[scan EXCEPT !["memos"] = answer] EXCEPT !.at = "nulls"]
  BY <1>1
<1>3. answer \subseteq LeafLogs /\ \A l \in answer : IsMemo(l)
  BY <1>2
<1>4. answer \in SUBSET Log /\ Apart(answer) /\ IsFiniteSet(answer)
  BY <1>3, LeafLogsAre, SomeLogs DEF TypeInv, ChainOk
<1> HIDE DEF logs
<1>5. scan' = [scan EXCEPT !.memos = answer, !.at = "nulls"]
  BY <1>2
<1>6. scan' \in ScanType /\ scan'.memos = answer /\ scan'.notes = scan.notes /\ scan'.at = "nulls"
  BY <1>4, <1>5 DEF TypeInv, IsScan, ScanType
<1>7. IsScan(scan')
  BY <1>3, <1>4, <1>6 DEF TypeInv, IsScan
<1> QED BY <1>1, <1>3, <1>6, <1>7, ChainStays DEF TypeInv

LEMMA FetchedNulls ==
    ASSUME TypeInv, fetchNulls
    PROVE  /\ TypeInv' /\ wallet' = wallet /\ UNCHANGED scanning /\ scan.at = "nulls"
           /\ scan'.at = "head" /\ scan'.nulls \subseteq NullLogs
           /\ scan'.notes = scan.notes /\ scan'.memos = scan.memos
<1>1. /\ scan.at = "nulls" /\ wallet' = wallet /\ UNCHANGED scanning
      /\ \E answer \in SUBSET NullLogs : scan' = [[scan EXCEPT !["nulls"] = answer] EXCEPT !.at = "head"]
  BY Asked DEF fetchNulls, queryFilter
<1>2. PICK answer \in SUBSET NullLogs : scan' = [[scan EXCEPT !["nulls"] = answer] EXCEPT !.at = "head"]
  BY <1>1
<1>3. answer \in SUBSET NullLog
  BY NullLogsAre DEF TypeInv
<1>4. scan' = [scan EXCEPT !.nulls = answer, !.at = "head"]
  BY <1>2
<1>5. /\ scan' \in ScanType /\ scan'.nulls = answer /\ scan'.at = "head"
      /\ scan'.notes = scan.notes /\ scan'.memos = scan.memos
  BY <1>3, <1>4 DEF TypeInv, IsScan, ScanType
<1>6. IsScan(scan')
  BY <1>5 DEF TypeInv, IsScan
<1> QED BY <1>1, <1>2, <1>5, <1>6, ChainStays DEF TypeInv

\* The head cuts off what is not final.
LEMMA CutOff ==
    ASSUME TypeInv, readHead
    PROVE  /\ TypeInv' /\ wallet' = wallet /\ UNCHANGED scanning
           /\ scan.at = "head" /\ scan'.at = "pass"
           /\ scan'.nulls = {l \in scan.nulls : l.block =< Len(chain) - FinalityDepth}
           /\ scan'.logs \in Seq({l \in scan.notes \cup scan.memos : l.block =< Len(chain) - FinalityDepth})
<1> DEFINE S == {l \in scan.notes \cup scan.memos : l.block =< Len(chain) - FinalityDepth}
           N == {l \in scan.nulls : l.block =< Len(chain) - FinalityDepth}
<1>1. /\ scan.at = "head" /\ wallet' = wallet /\ UNCHANGED scanning
      /\ scan' = [scan EXCEPT !.at = "pass", !.notes = {}, !.memos = {}, !.nulls = N,
                              !.logs = Sorted(S, LogBefore)]
  BY DEF readHead, finalizedBlock
<1>2. scan \in ScanType /\ IsScan(scan)
  BY DEF TypeInv, IsScan
<1>3. S \in SUBSET Log /\ S \subseteq scan.notes \cup scan.memos
  BY <1>2 DEF ScanType
<1>4. N \in SUBSET NullLog
  BY <1>2 DEF ScanType
<1> HIDE DEF S, N
<1>5. IsFiniteSet(S)
  <2>1. IsFiniteSet(scan.notes \cup scan.memos)
    BY <1>2, FS_Union DEF IsScan
  <2> QED BY <1>3, <2>1, FS_Subset
<1>6. ApartByKind(S)
  <2> SUFFICES ASSUME NEW a \in S, NEW b \in S, a.at = b.at, IsMemo(a) <=> IsMemo(b) PROVE a = b
    BY DEF ApartByKind
  <2>1. CASE IsMemo(a)
    <3>1. a \in scan.memos /\ b \in scan.memos
      BY <1>2, <1>3, <2>1 DEF IsScan
    <3> QED BY <1>2, <3>1 DEF IsScan, Apart
  <2>2. CASE ~IsMemo(a)
    <3>1. a \in scan.notes /\ b \in scan.notes
      BY <1>2, <1>3, <2>2 DEF IsScan
    <3> QED BY <1>2, <3>1 DEF IsScan, Apart
  <2> QED BY <2>1, <2>2
<1> DEFINE logs == Sorted(S, LogBefore)
<1>7. logs \in Seq(S)
  BY <1>3, <1>5, <1>6, SortedByBlock
<1> HIDE DEF logs
<1>8. logs \in Seq(Log)
  BY <1>3, <1>7
<1>9. scan' = [scan EXCEPT !.at = "pass", !.notes = {}, !.memos = {}, !.nulls = N, !.logs = logs]
  BY <1>1 DEF logs
<1>10. /\ scan' \in ScanType /\ scan'.at = "pass" /\ scan'.notes = {} /\ scan'.memos = {}
       /\ scan'.nulls = N /\ scan'.logs = logs
  BY <1>2, <1>4, <1>8, <1>9 DEF ScanType
<1>11. IsScan(scan')
  BY <1>10, FS_EmptySet DEF IsScan, Apart
<1> QED BY <1>1, <1>7, <1>10, <1>11, ChainStays DEF TypeInv, S, N

\* The fields and values of the wallet's keys.
Fields == DOMAIN wallet.keys
Values == {wallet.keys[f] : f \in Fields}

\* The wallets that believe T after the wallet did, when the logs are sure.
Successors(sure, T, spent) == Believers(Fields, Values, {wallet.ring}, sure, T, spent, wallet)

\* Such a wallet is one, and forgot no spend.
LEMMA Followed ==
    ASSUME NEW sure, NEW T, NEW spent, NEW w \in Successors(sure, T, spent)
    PROVE  IsWallet(w) /\ KeepsSpent(wallet, w) /\ (sure => Believes(w, T, spent))
BY WalletsAre DEF Successors, Believers

\* A walk over the logs of the pass.
LEMMA Walked ==
    ASSUME TypeInv, scanOnce, NEW sure \in BOOLEAN, NEW T \in Seq(Leaf), NEW spent,
           sure => Believes(wallet, T, spent),
           sure => \A k \in DOMAIN scan.logs : Known(T, scan.logs[k].leaf, scan.logs[k].at)
    PROVE  /\ wallet' \in Successors(sure, T, spent) /\ TypeInv' /\ UNCHANGED scanning
           /\ scan'.at = scan.at /\ scan'.logs = scan.logs /\ scan'.nulls = scan.nulls
<1> DEFINE seq == SubSeq(scan.logs, scan.n, Len(scan.logs))
           walk == FoldLeft(LAMBDA acc, log :
                              IF acc.gap \/ log.at > Len(acc.w.tree) THEN [acc EXCEPT !.gap = TRUE]
                              ELSE [acc EXCEPT !.w = processLog(insertLeaf(@, log), log), !.n = @ + 1],
                            [w |-> wallet, n |-> scan.n, gap |-> FALSE], seq)
<1>1. /\ wallet' = walk.w /\ scan' = [scan EXCEPT !.n = walk.n, !.attempt = 0]
      /\ UNCHANGED scanning /\ scan.n =< Len(scan.logs)
  BY DEF scanOnce
<1>2. scan \in ScanType /\ scan.logs \in Seq(Log) /\ scan.n \in Nat \ {0} /\ Len(scan.logs) \in Nat
  BY DEF TypeInv, IsScan, ScanType
<1>3. seq \in Seq(LogsOf(sure, T))
  <2>1. \A k \in 1 .. Len(scan.logs) : scan.logs[k] \in LogsOf(sure, T)
    <3>1. \A k \in 1 .. Len(scan.logs) : scan.logs[k] \in Log /\ k \in DOMAIN scan.logs
      BY <1>2
    <3> QED BY <3>1 DEF LogsOf
  <2>2. scan.logs \in Seq(LogsOf(sure, T))
    <3>1. scan.logs \in [1 .. Len(scan.logs) -> LogsOf(sure, T)]
      BY <1>2, <2>1
    <3> QED BY <1>2, <3>1
  <2>3. \A n \in Nat \ {0}, m \in Nat : n =< m => n \in 1 .. m + 1
    OBVIOUS
  <2>4. scan.n \in 1 .. Len(scan.logs) + 1
    BY <1>1, <1>2, <2>3, Zenon
  <2> QED BY <2>2, <2>4, Dropped
<1>4. wallet \in Wallets(Fields, Values, {wallet.ring})
  BY WalletOver DEF TypeInv, Fields, Values
<1> HIDE DEF seq
<1>5. walk \in [w : Believers(Fields, Values, {wallet.ring}, sure, T, spent, wallet),
                n : Nat \ {0}, gap : BOOLEAN]
  BY <1>2, <1>3, <1>4, WalkedInTurn, ZenonT(60)
<1> HIDE DEF walk
<1>6. wallet' \in Successors(sure, T, spent) /\ walk.n \in Nat \ {0}
  BY <1>1, <1>5 DEF Successors
<1>7. /\ scan' \in ScanType /\ scan'.at = scan.at /\ scan'.logs = scan.logs
      /\ scan'.nulls = scan.nulls /\ scan'.notes = scan.notes /\ scan'.memos = scan.memos
  BY <1>1, <1>2, <1>6 DEF ScanType
<1>8. IsScan(scan')
  BY <1>7 DEF TypeInv, IsScan
<1>9. IsWallet(wallet')
  BY <1>6, Followed
<1> QED BY <1>1, <1>6, <1>7, <1>8, <1>9, ChainStays DEF TypeInv

\* A repair.
LEMMA Repaired ==
    ASSUME TypeInv, repairTreeGap, NEW sure \in BOOLEAN, NEW T \in Seq(Leaf), NEW spent,
           sure => Believes(wallet, T, spent),
           sure => \A l \in LeafLogs : l.at < scan.logs[scan.n].at => Known(T, l.leaf, l.at)
    PROVE  /\ wallet' \in Successors(sure, T, spent) /\ TypeInv' /\ UNCHANGED scanning
           /\ \/ scan' = NoScan
              \/ scan'.at = scan.at /\ scan'.logs = scan.logs /\ scan'.nulls = scan.nulls
<1> DEFINE missing == {l \in LeafLogs : l.at \in Len(wallet.tree) .. scan.logs[scan.n].at - 1}
<1>1. PICK answer \in Answers(missing) : wallet' = fill(wallet, answer)
  BY DEF repairTreeGap
<1>2. /\ UNCHANGED scanning /\ scan.n =< Len(scan.logs)
      /\ scan' = NoScan \/ scan' = [scan EXCEPT !.attempt = @ + 1]
  BY DEF repairTreeGap, Gap
<1>3. scan \in ScanType /\ scan.logs \in Seq(Log) /\ scan.n \in Nat \ {0} /\ Len(scan.logs) \in Nat
  BY DEF TypeInv, IsScan, ScanType
<1>4. scan.logs[scan.n] \in Log /\ scan.logs[scan.n].at \in Nat
  <2>1. scan.n \in 1 .. Len(scan.logs)
    BY <1>2, <1>3
  <2>2. \A k \in 1 .. Len(scan.logs) : scan.logs[k] \in Log
    BY <1>3
  <2>3. \A l \in Log : l.at \in Nat
    BY DEF Log
  <2> QED BY <2>1, <2>2, <2>3
<1>5. answer \subseteq missing
  BY DEF Answers
<1>6. answer \subseteq LeafLogs /\ \A l \in answer : l.at < scan.logs[scan.n].at
  <2>1. IsWallet(wallet) /\ wallet.tree \in Seq(Leaf) /\ Len(wallet.tree) \in Nat
    BY DEF TypeInv, IsWallet
  <2> QED BY <1>4, <1>5, <2>1
<1> HIDE DEF missing
<1>7. answer \in SUBSET Log /\ Apart(answer) /\ IsFiniteSet(answer)
  BY <1>6, LeafLogsAre, SomeLogs DEF TypeInv, ChainOk
<1>8. answer \subseteq LogsOf(sure, T)
  BY <1>6, <1>7 DEF LogsOf
<1>9. wallet \in Wallets(Fields, Values, {wallet.ring})
  BY WalletOver DEF TypeInv, Fields, Values
<1>10. fill(wallet, answer) \in Believers(Fields, Values, {wallet.ring}, sure, T, spent, wallet)
  BY <1>7, <1>8, <1>9, Filled
<1>11. wallet' \in Successors(sure, T, spent)
  BY <1>1, <1>10 DEF Successors
<1>12. /\ IsScan(scan')
       /\ scan' = NoScan \/ (scan'.at = scan.at /\ scan'.logs = scan.logs /\ scan'.nulls = scan.nulls)
  <2>1. CASE scan' = NoScan
    BY <2>1, IdleScan
  <2>2. CASE scan' = [scan EXCEPT !.attempt = @ + 1]
    <3>1. scan.attempt + 1 \in Nat
      BY <1>3 DEF ScanType
    <3>2. /\ scan' \in ScanType /\ scan'.at = scan.at /\ scan'.logs = scan.logs
          /\ scan'.nulls = scan.nulls /\ scan'.notes = scan.notes /\ scan'.memos = scan.memos
      BY <1>3, <2>2, <3>1 DEF ScanType
    <3> QED BY <3>2 DEF TypeInv, IsScan
  <2> QED BY <1>2, <2>1, <2>2
<1>13. IsWallet(wallet')
  BY <1>11, Followed
<1> QED BY <1>2, <1>11, <1>12, <1>13, ChainStays DEF TypeInv

\* The end of a pass marks what the chain says is spent.
LEMMA PassEnded ==
    ASSUME TypeInv, endPass, NEW sure \in BOOLEAN, NEW T \in Seq(Leaf), NEW spent,
           sure => Believes(wallet, T, spent),
           sure => \A l \in scan.nulls : l.nullifier \in spent
    PROVE  /\ sure => Believes(wallet', T, spent)
           /\ KeepsSpent(wallet, wallet') /\ TypeInv' /\ UNCHANGED scanning
           /\ \/ scan' = NoScan
              \/ scan'.at = scan.at /\ scan'.logs = scan.logs /\ scan'.nulls = scan.nulls
<1> DEFINE keys == ensureIncomingLookahead(ensureSelfLookahead(wallet.keys, scan.window), scan.window)
           gone == {l.nullifier : l \in scan.nulls}
           notes == markSpent(wallet.notes, gone)
<1>1. /\ wallet' = [wallet EXCEPT !.notes = notes, !.keys = keys] /\ UNCHANGED scanning
      /\ scan' = NoScan \/ scan' = [scan EXCEPT !.n = 1]
  BY DEF endPass
<1>2. IsRecord(keys)
  BY KeysMade DEF TypeInv, IsWallet
<1>3. /\ wallet = [keys |-> wallet.keys, tree |-> wallet.tree, notes |-> wallet.notes, ring |-> wallet.ring]
      /\ wallet.tree \in Seq(Leaf) /\ wallet.notes \in Notebook
  BY DEF TypeInv, IsWallet
<1>4. wallet.notes \in [DOMAIN wallet.notes -> BOOLEAN] /\ DOMAIN wallet.notes \in SUBSET (Leaf \X Nat)
  BY <1>3, NotebookIs
<1>5. /\ DOMAIN notes = DOMAIN wallet.notes
      /\ notes = [n \in DOMAIN wallet.notes |-> wallet.notes[n] \/ n \in gone]
  BY DEF markSpent
<1> HIDE DEF keys, gone, notes
<1>6. /\ notes \in [DOMAIN notes -> BOOLEAN]
      /\ \A n \in DOMAIN wallet.notes : notes[n] <=> wallet.notes[n] \/ n \in gone
  BY <1>5
<1>7. notes \in Notebook
  BY <1>4, <1>5, <1>6, NotebookIs
<1>8. wallet' = [keys |-> keys, tree |-> wallet.tree, notes |-> notes, ring |-> wallet.ring]
  BY <1>1, <1>3
<1>9. wallet'.keys = keys /\ wallet'.tree = wallet.tree /\ wallet'.notes = notes /\ wallet'.ring = wallet.ring
  BY <1>8
<1>10. IsWallet(wallet')
  BY <1>2, <1>3, <1>7, <1>8, <1>9 DEF IsWallet
<1>11. KeepsSpent(wallet, wallet')
  BY <1>5, <1>6, <1>9 DEF KeepsSpent
<1>12. ASSUME sure PROVE Believes(wallet', T, spent)
  <2>1. \A n \in gone : n \in spent
    BY <1>12 DEF gone
  <2>2. Believes(wallet, T, spent)
    BY <1>12
  <2> QED BY <1>5, <1>6, <1>9, <2>1, <2>2 DEF Believes
<1>13. /\ IsScan(scan')
       /\ scan' = NoScan \/ (scan'.at = scan.at /\ scan'.logs = scan.logs /\ scan'.nulls = scan.nulls)
  <2>1. CASE scan' = NoScan
    BY <2>1, IdleScan
  <2>2. CASE scan' = [scan EXCEPT !.n = 1]
    <3>1. scan \in ScanType /\ 1 \in Nat \ {0}
      BY DEF TypeInv, IsScan
    <3>2. /\ scan' \in ScanType /\ scan'.at = scan.at /\ scan'.logs = scan.logs
          /\ scan'.nulls = scan.nulls /\ scan'.notes = scan.notes /\ scan'.memos = scan.memos
      BY <2>2, <3>1 DEF ScanType
    <3> QED BY <3>2 DEF TypeInv, IsScan
  <2> QED BY <1>1, <2>1, <2>2
<1> QED BY <1>1, <1>10, <1>11, <1>12, <1>13, ChainStays DEF TypeInv

\* Handing out keys, and making the ring anew, leave tree and notes.
LEMMA KeysHandedOut ==
    ASSUME TypeInv, mintSelf \/ issueAddress \/ fromRotations
    PROVE  /\ TypeInv' /\ scan' = scan /\ chain' = chain /\ longest' = longest /\ raced' = raced
           /\ wallet'.tree = wallet.tree /\ wallet'.notes = wallet.notes
<1>1. IsWallet(wallet) /\ IsRecord(wallet.keys)
  BY DEF TypeInv, IsWallet
<1>2. ASSUME NEW k, IsRecord(k), wallet' = [wallet EXCEPT !.keys = k]
      PROVE  IsWallet(wallet') /\ wallet'.tree = wallet.tree /\ wallet'.notes = wallet.notes
  BY <1>1, <1>2, Rekeyed
<1>3. CASE mintSelf
  <2>1. /\ wallet' = [wallet EXCEPT !.keys = nextSelfEphemeral(wallet.keys, nextEvenY(counter))]
        /\ UNCHANGED <<chain, mined, longest, scan, raced>>
    BY <1>3 DEF mintSelf
  <2>2. IsRecord(nextSelfEphemeral(wallet.keys, nextEvenY(counter)))
    BY <1>1, KeysMade
  <2> DEFINE k == nextSelfEphemeral(wallet.keys, nextEvenY(counter))
  <2>3. IsWallet(wallet') /\ wallet'.tree = wallet.tree /\ wallet'.notes = wallet.notes
    <3>1. IsRecord(k) /\ wallet' = [wallet EXCEPT !.keys = k]
      BY <2>1, <2>2
    <3> HIDE DEF k
    <3> QED BY <1>1, <3>1, Rekeyed
  <2> QED BY <2>1, <2>3 DEF TypeInv, ChainOk, IsScan
<1>4. CASE issueAddress
  <2>1. /\ wallet' = [wallet EXCEPT !.keys = nextIncomingAddress(wallet.keys)]
        /\ UNCHANGED <<chain, mined, longest, scan, raced>>
    BY <1>4 DEF issueAddress
  <2> DEFINE k == nextIncomingAddress(wallet.keys)
  <2>2. IsWallet(wallet') /\ wallet'.tree = wallet.tree /\ wallet'.notes = wallet.notes
    <3>1. IsRecord(k) /\ wallet' = [wallet EXCEPT !.keys = k]
      BY <1>1, <2>1, KeysMade
    <3> HIDE DEF k
    <3> QED BY <1>1, <3>1, Rekeyed
  <2> QED BY <2>1, <2>2 DEF TypeInv, ChainOk, IsScan
<1>5. CASE fromRotations
  <2>1. /\ wallet' = [wallet EXCEPT !.ring = KeysOnChain]
        /\ UNCHANGED <<chain, mined, longest, scan, raced>>
    BY <1>5 DEF fromRotations, scanning
  <2>2. wallet' = [keys |-> wallet.keys, tree |-> wallet.tree, notes |-> wallet.notes, ring |-> KeysOnChain]
    BY <1>1, <2>1 DEF IsWallet
  <2>3. IsWallet(wallet') /\ wallet'.tree = wallet.tree /\ wallet'.notes = wallet.notes
    BY <1>1, <2>2 DEF IsWallet
  <2> QED BY <2>1, <2>3 DEF TypeInv, ChainOk, IsScan
<1> QED BY <1>3, <1>4, <1>5

\* A wallet with no leaves and no notes.
LEMMA FreshWallet ==
    ASSUME NEW k, IsRecord(k)
    PROVE  LET w == [NewWallet EXCEPT !.keys = k]
           IN  IsWallet(w) /\ w.tree = << >> /\ w.notes = << >>
<1> DEFINE w == [NewWallet EXCEPT !.keys = k]
<1>1. w = [keys |-> k, tree |-> << >>, notes |-> << >>, ring |-> {0}]
  BY SMTT(30) DEF NewWallet
<1>2. w.keys = k /\ w.tree = << >> /\ w.notes = << >> /\ w.ring = {0} /\ << >> \in Seq(Leaf)
  BY <1>1
<1> HIDE DEF w
<1>3. IsWallet(w)
  BY <1>1, <1>2, NoNotes DEF IsWallet
<1> QED BY <1>2, <1>3 DEF w

\* After a restart there are none.
LEMMA Restarted ==
    ASSUME TypeInv, restart
    PROVE  /\ TypeInv' /\ scan' = NoScan
           /\ wallet'.tree = << >> /\ wallet'.notes = << >>
<1>1. PICK keys \in {NewRepository, restore(saved, counter)} : wallet' = [NewWallet EXCEPT !.keys = keys]
  BY DEF restart
<1>2. scan' = NoScan /\ raced' = FALSE /\ UNCHANGED <<chain, mined, longest>>
  BY DEF restart
<1>3. IsRecord(keys)
  BY KeysMade
<1>4. IsWallet(wallet') /\ wallet'.tree = << >> /\ wallet'.notes = << >>
  BY <1>1, <1>3, FreshWallet
<1>5. ChainOk'
  BY <1>2 DEF TypeInv, ChainOk
<1> QED BY <1>2, <1>4, <1>5, IdleScan DEF TypeInv

-----------------------------------------------------------------------------
(***************************************************************************)
(* Whatever is reorganised                                                 *)
(***************************************************************************)

\* Unless it restarts, a wallet with these notes holds spent what it held.
LEMMA SameNotes ==
    ASSUME wallet'.notes = wallet.notes
    PROVE  KeepsSpent(wallet, wallet')
BY DEF KeepsSpent

\* What a sync or a probe passes to scanPasses.
LEMMA Begins ==
    ASSUME TypeInv, sync \/ probe
    PROVE  \E from, window \in Nat : scanPasses(from, window)
<1>1. Window \in Nat /\ ExtraWindow \in Nat /\ Len(chain) \in Nat /\ Window + ExtraWindow \in Nat
  BY ScanConstants, KeyConstants DEF TypeInv, ChainOk
<1>2. CASE sync
  BY <1>1, <1>2 DEF sync
<1>3. CASE probe
  BY <1>1, <1>3 DEF probe
<1> QED BY <1>2, <1>3

\* Every step keeps the types, and what is spent until the process dies.
LEMMA TypeStep ==
    ASSUME TypeInv, [Next]_vars
    PROVE  TypeInv' /\ (wallet'.notes = << >> \/ KeepsSpent(wallet, wallet'))
<1>0. << >> \in Seq(Leaf) /\ FALSE \in BOOLEAN
  OBVIOUS
<1>1. CASE mineDeposit \/ minePayment \/ mineEmpty \/ mineSpend \/ mineRotation
  <2>1. PICK block \in Block : Mine(block)
    BY <1>1, MinesBlock DEF TypeInv
  <2>2. ChainOk' /\ wallet' = wallet /\ scan' = scan /\ raced' = raced
    BY <2>1, Mined DEF TypeInv
  <2> QED BY <2>2, SameNotes DEF TypeInv, IsWallet, IsScan
<1>2. CASE reorg
  <2>1. ChainOk' /\ wallet' = wallet /\ scan' = scan
    BY <1>2, Reorganised DEF TypeInv
  <2>2. raced' \in BOOLEAN
    BY <1>2, Reorganised DEF TypeInv
  <2> QED BY <2>1, <2>2, SameNotes DEF TypeInv, IsWallet, IsScan
<1>3. CASE sync \/ probe
  <2>1. PICK from \in Nat, window \in Nat : scanPasses(from, window)
    BY <1>3, Begins
  <2> QED BY <2>1, PassesBegin, SameNotes
<1>4. CASE fetchNotes
  BY <1>4, FetchedNotes, SameNotes
<1>5. CASE fetchMemos
  BY <1>5, FetchedMemos, SameNotes
<1>6. CASE fetchNulls
  BY <1>6, FetchedNulls, SameNotes
<1>7. CASE readHead
  BY <1>7, CutOff, SameNotes
<1>8. CASE scanOnce
  <2>1. wallet' \in Successors(FALSE, << >>, {}) /\ TypeInv'
    BY <1>0, <1>8, Walked
  <2> QED BY <2>1, Followed
<1>9. CASE repairTreeGap
  <2>1. wallet' \in Successors(FALSE, << >>, {}) /\ TypeInv'
    BY <1>0, <1>9, Repaired
  <2> QED BY <2>1, Followed
<1>10. CASE endPass
  BY <1>0, <1>10, PassEnded
<1>11. CASE mintSelf \/ issueAddress \/ fromRotations
  BY <1>11, KeysHandedOut, SameNotes
<1>12. CASE restart
  BY <1>12, Restarted
<1>13. CASE UNCHANGED vars
  <2>1. UNCHANGED <<chain, mined, longest, wallet, scan, raced>>
    BY <1>13 DEF vars
  <2> QED BY <2>1, SameNotes DEF TypeInv, ChainOk, IsWallet, IsScan
<1> QED BY <1>1, <1>2, <1>3, <1>4, <1>5, <1>6, <1>7, <1>8, <1>9, <1>10, <1>11, <1>12, <1>13
        DEF Next, Pool, ScanStep

\* The first state.
LEMMA TypeFirst == ASSUME Init PROVE TypeInv
<1>1. /\ chain \in Seq(Block) /\ mined = Len(chain) /\ longest = Len(chain) /\ Len(chain) \in Nat
      /\ ReorgDepth \in Nat
  BY ScanConstants DEF Init
<1>2. ChainOk
  BY <1>1 DEF ChainOk
<1>3. IsRecord(NewRepository)
  BY KeysMade
<1>4. /\ NewWallet = [keys |-> NewRepository, tree |-> << >>, notes |-> << >>, ring |-> {0}]
      /\ << >> \in Seq(Leaf)
  BY DEF NewWallet
<1>5. IsWallet(NewWallet)
  <2> DEFINE w == NewWallet
             k == NewRepository
  <2>1. w = [keys |-> k, tree |-> << >>, notes |-> << >>, ring |-> {0}]
    BY <1>4
  <2> HIDE DEF w, k
  <2>2. w.keys = k /\ w.tree = << >> /\ w.notes = << >> /\ w.ring = {0}
    BY <2>1
  <2>3. IsRecord(k)
    BY <1>3 DEF k
  <2>4. IsWallet(w)
    BY <1>4, <2>1, <2>2, <2>3, NoNotes DEF IsWallet
  <2> QED BY <2>4 DEF w
<1> QED BY <1>2, <1>5, IdleScan DEF Init, TypeInv

\* Chain, wallet and scan keep their shape, for every chain, every answer the
\* RPC gives and every reorganisation, outrunning reads or not: in particular no
\* scan ever holds two logs of one place from one query.
THEOREM ScanTyped == Spec => []TypeInv
<1>1. Init => TypeInv
  BY TypeFirst
<1>2. TypeInv /\ [Next]_vars => TypeInv'
  BY TypeStep
<1> QED BY <1>1, <1>2, PTL DEF Spec

\* However deep the chain is reorganised and whatever the RPC leaves out, a
\* note the wallet holds spent is spent until the process dies: UtxoRepository
\* never lets a scan, a repair or a re-scan bring it back (addNote, markSpent).
THEOREM ScanNeverResurrects == Spec => NeverResurrected
<1> DEFINE Keeps ==
      \A n \in DOMAIN wallet.notes :
        wallet.notes[n] => wallet'.notes = << >> \/ (n \in DOMAIN wallet'.notes /\ wallet'.notes[n])
<1>1. TypeInv /\ [Next]_vars => [Keeps]_vars
  BY TypeStep DEF KeepsSpent
<1> QED BY <1>1, ScanTyped, PTL DEF Spec, NeverResurrected

-----------------------------------------------------------------------------
(***************************************************************************)
(* Reads that no reorganisation outran                                     *)
(***************************************************************************)

\* The nullifiers of the first b blocks, and the nullifier events.
SpentIn(c, b) == UNION {c[n].spent : n \in 1 .. b}
NullsIn(c) == UNION {{[nullifier |-> n, block |-> b] : n \in c[b].spent} : b \in DOMAIN c}

LEMMA NullsAre == NullLogs = NullsIn(chain) /\ \A b : SpentUpTo(b) = SpentIn(chain, b)
BY DEF NullLogs, NullsIn, SpentUpTo, SpentIn

\* What c has in its first a blocks, d has in its first b, if it has these a.
LEMMA KnownStays ==
    ASSUME NEW c \in Seq(Block), NEW d \in Seq(Block), NEW a \in 0 .. Len(d), NEW b \in a .. Len(d),
           \A k \in 1 .. a : c[k] = d[k]
    PROVE  /\ \A leaf, at : Known(LeavesIn(c, a), leaf, at) => Known(LeavesIn(d, b), leaf, at)
           /\ SpentIn(c, a) \subseteq SpentIn(d, b)
<1>1. LeavesIn(c, a) = LeavesIn(d, a)
  BY LeavesAgree
<1> DEFINE t == LeavesIn(d, a)
           u == LeavesIn(d, b)
<1>2. t \in Seq(Leaf) /\ u \in Seq(Leaf) /\ Len(t) =< Len(u) /\ \A k \in 1 .. Len(t) : u[k] = t[k]
  BY LeavesGrow
<1>3. SpentIn(c, a) \subseteq SpentIn(d, b)
  <2>1. \A k \in 1 .. a : k \in 1 .. b
    OBVIOUS
  <2> QED BY <2>1 DEF SpentIn
<1> HIDE DEF t, u
<1>4. ASSUME NEW leaf, NEW at, Known(t, leaf, at) PROVE Known(u, leaf, at)
  <2>1. at \in Nat /\ at < Len(t) /\ t[at + 1] = leaf
    BY <1>4 DEF Known
  <2>2. Len(t) \in Nat /\ Len(u) \in Nat
    BY <1>2
  <2>3. at < Len(u) /\ at + 1 \in 1 .. Len(t)
    BY <1>2, <2>1, <2>2
  <2> QED BY <1>2, <2>1, <2>3 DEF Known
<1> QED BY <1>1, <1>3, <1>4 DEF t, u

\* Who believes less believes more.
LEMMA BelievesMore ==
    ASSUME NEW w, NEW T, NEW S, NEW U, NEW R, Believes(w, T, S), S \subseteq R,
           \A leaf, at : Known(T, leaf, at) => Known(U, leaf, at)
    PROVE  Believes(w, U, R)
BY DEF Believes

\* The logs of the first n blocks of a chain are logs of one that has these.
LEMMA LogsStay ==
    ASSUME NEW c \in Seq(Block), NEW d \in Seq(Block), NEW n \in Nat, n =< Len(c), n =< Len(d),
           \A k \in 1 .. n : d[k] = c[k]
    PROVE  /\ \A l \in LogsIn(c) : l.block =< n => l \in LogsIn(d)
           /\ \A l \in NullsIn(c) : l.block =< n => l \in NullsIn(d)
<1>1. /\ Len(c) \in Nat /\ DOMAIN c = 1 .. Len(c) /\ Len(d) \in Nat /\ DOMAIN d = 1 .. Len(d)
  OBVIOUS
<1>2. \A b \in DOMAIN c : b =< n => b \in DOMAIN d /\ d[b] = c[b]
  BY <1>1
<1>3. ASSUME NEW b \in DOMAIN c, b =< n PROVE LeavesIn(c, b - 1) = LeavesIn(d, b - 1)
  <2>1. b - 1 \in Int /\ \A k \in 1 .. b - 1 : c[k] = d[k]
    BY <1>1, <1>3
  <2> QED BY <2>1, LeavesAgree
<1>4. ASSUME NEW l \in LogsIn(c), l.block =< n PROVE l \in LogsIn(d)
  <2>1. PICK b \in DOMAIN c : l \in {[leaf |-> c[b].leaves[i], block |-> b,
               at |-> Len(LeavesIn(c, b - 1)) + i - 1] : i \in DOMAIN c[b].leaves}
    BY DEF LogsIn
  <2>2. b \in DOMAIN d /\ d[b] = c[b] /\ LeavesIn(c, b - 1) = LeavesIn(d, b - 1)
    <3>1. b =< n
      BY <1>4, <2>1
    <3> QED BY <1>2, <1>3, <3>1
  <2>3. l \in {[leaf |-> d[b].leaves[i], block |-> b,
               at |-> Len(LeavesIn(d, b - 1)) + i - 1] : i \in DOMAIN d[b].leaves}
    BY <2>1, <2>2
  <2> QED BY <2>2, <2>3 DEF LogsIn
<1>5. ASSUME NEW l \in NullsIn(c), l.block =< n PROVE l \in NullsIn(d)
  <2>1. PICK b \in DOMAIN c : l \in {[nullifier |-> x, block |-> b] : x \in c[b].spent}
    BY DEF NullsIn
  <2>2. l.block = b
    BY <2>1
  <2>3. b \in DOMAIN d /\ d[b] = c[b]
    BY <1>2, <1>5, <2>2
  <2> QED BY <2>1, <2>3 DEF NullsIn
<1> QED BY <1>4, <1>5

\* Stable blocks are on the chain.
LEMMA StableIs ==
    ASSUME ChainOk
    PROVE  /\ Stable \in Nat /\ Len(chain) \in Nat /\ Stable \in 0 .. Len(chain)
           /\ longest \in Nat /\ ReorgDepth \in Nat /\ longest - ReorgDepth =< Stable
           /\ chain \in Seq(Block) /\ LeavesUpTo(Stable) \in Seq(Leaf)
<1>1. /\ chain \in Seq(Block) /\ Len(chain) \in Nat /\ longest \in Nat /\ ReorgDepth \in Nat
      /\ longest - ReorgDepth =< Len(chain)
  BY ScanConstants DEF ChainOk
<1>2. Stable \in 0 .. Len(chain) /\ longest - ReorgDepth =< Stable
  BY <1>1 DEF Stable, Bigger
<1>3. LeavesIn(chain, Stable) \in Seq(Leaf)
  BY <1>1, <1>2, LeavesStep
<1> QED BY <1>1, <1>2, <1>3, LeafLogsAre

\* When the pool moves, what is stable stays.
LEMMA PoolMoves ==
    ASSUME ChainOk, ChainOk', longest =< longest', Stable =< Len(chain'),
           \A k \in 1 .. Stable : chain'[k] = chain[k]
    PROVE  /\ \A leaf, at : Known(LeavesUpTo(Stable), leaf, at) => Known(LeavesUpTo(Stable)', leaf, at)
           /\ SpentUpTo(Stable) \subseteq SpentUpTo(Stable)'
<1>1. PICK c, d, a, b : c = chain /\ d = chain' /\ a = Stable /\ b = Stable'
  OBVIOUS
<1>2. c \in Seq(Block) /\ d \in Seq(Block) /\ Len(d) \in Nat /\ a \in Nat /\ b \in 0 .. Len(d)
  <2>1. Stable' \in 0 .. Len(chain') /\ chain' \in Seq(Block) /\ Len(chain') \in Nat
    <3>1. /\ chain' \in Seq(Block) /\ Len(chain') \in Nat /\ longest' \in Nat /\ ReorgDepth \in Nat
          /\ longest' - ReorgDepth =< Len(chain')
      BY ScanConstants DEF ChainOk
    <3>2. Stable' = Bigger(0, longest' - ReorgDepth)
      BY DEF Stable
    <3>3. \A x \in Int, n \in Nat : x =< n => Bigger(0, x) \in 0 .. n
      BY DEF Bigger
    <3> QED BY <3>1, <3>2, <3>3
  <2> QED BY <1>1, <2>1, StableIs
<1>3. a =< b
  <2>1. longest \in Nat /\ longest' \in Nat /\ ReorgDepth \in Nat
    BY ScanConstants DEF ChainOk
  <2>2. a = Bigger(0, longest - ReorgDepth) /\ b = Bigger(0, longest' - ReorgDepth)
    BY <1>1 DEF Stable
  <2>3. \A x, y \in Int : x =< y => Bigger(0, x) =< Bigger(0, y)
    BY DEF Bigger
  <2> QED BY <2>1, <2>2, <2>3
<1>4. a \in 0 .. Len(d) /\ b \in a .. Len(d)
  BY <1>1, <1>2, <1>3
<1>5. \A k \in 1 .. a : c[k] = d[k]
  BY <1>1
<1>6. /\ \A leaf, at : Known(LeavesIn(c, a), leaf, at) => Known(LeavesIn(d, b), leaf, at)
      /\ SpentIn(c, a) \subseteq SpentIn(d, b)
  BY <1>2, <1>4, <1>5, KnownStays
<1>7. /\ LeavesUpTo(Stable) = LeavesIn(c, a) /\ LeavesUpTo(Stable)' = LeavesIn(d, b)
      /\ SpentUpTo(Stable) = SpentIn(c, a) /\ SpentUpTo(Stable)' = SpentIn(d, b)
  BY <1>1 DEF LeavesUpTo, LeavesIn, SpentUpTo, SpentIn
<1> QED BY <1>6, <1>7

\* and, when the scan and the wallet are as they were, PassOk and what the
\* wallet believes.
LEMMA StableMoves ==
    ASSUME SoundInv, ChainOk', longest =< longest', Stable =< Len(chain'),
           \A k \in 1 .. Stable : chain'[k] = chain[k], wallet' = wallet, scan' = scan
    PROVE  PassOk' /\ Believes(wallet, LeavesUpTo(Stable), SpentUpTo(Stable))'
<1>1. /\ \A leaf, at : Known(LeavesUpTo(Stable), leaf, at) => Known(LeavesUpTo(Stable)', leaf, at)
      /\ SpentUpTo(Stable) \subseteq SpentUpTo(Stable)'
  BY PoolMoves DEF SoundInv, TypeInv
<1>2. PICK w, T, S, U, R : /\ w = wallet /\ T = LeavesUpTo(Stable) /\ S = SpentUpTo(Stable)
                           /\ U = LeavesUpTo(Stable)' /\ R = SpentUpTo(Stable)'
  OBVIOUS
<1>3. Believes(w, T, S)
  BY <1>2 DEF SoundInv
<1>4. Believes(w, U, R)
  BY <1>1, <1>2, <1>3, BelievesMore
<1>5. Believes(wallet, LeavesUpTo(Stable), SpentUpTo(Stable))'
  BY <1>2, <1>4 DEF Believes, Known
<1>6. PassOk'
  BY <1>1 DEF SoundInv, PassOk, Known
<1> QED BY <1>5, <1>6

\* A log of the chain before a place that T has is T's own.
LEMMA EarlierKnown ==
    ASSUME NEW c \in Seq(Block), NEW a \in 0 .. Len(c), NEW l \in LogsIn(c),
           NEW place, NEW leaf, Known(LeavesIn(c, a), leaf, place), l.at =< place
    PROVE  Known(LeavesIn(c, a), l.leaf, l.at)
<1> DEFINE n == Len(c)
           t == LeavesIn(c, a)
           u == LeavesIn(c, l.block)
           v == LeavesIn(c, n)
<1>1. n \in Nat /\ a \in 0 .. n /\ n \in 0 .. n /\ n \in a .. n
  BY Blocks
<1>2. /\ l \in Log /\ l.block \in 1 .. n /\ u \in Seq(Leaf) /\ l.at < Len(u) /\ u[l.at + 1] = l.leaf
  BY LogTells
<1>3. l.at \in Nat
  BY <1>2 DEF Log
<1>4. t \in Seq(Leaf) /\ v \in Seq(Leaf) /\ Len(t) =< Len(v) /\ \A k \in 1 .. Len(t) : v[k] = t[k]
  BY <1>1, LeavesGrow
<1>5. Len(u) =< Len(v) /\ \A k \in 1 .. Len(u) : v[k] = u[k]
  <2>1. l.block \in 0 .. n /\ n \in l.block .. n
    BY <1>1, <1>2
  <2> QED BY <2>1, LeavesGrow
<1>6. place \in Nat /\ place < Len(t)
  BY DEF Known
<1> HIDE DEF n, t, u, v
<1>7. Len(t) \in Nat /\ Len(u) \in Nat
  BY <1>2, <1>4
<1>8. l.at < Len(t) /\ l.at + 1 \in 1 .. Len(t) /\ l.at + 1 \in 1 .. Len(u)
  BY <1>2, <1>3, <1>6, <1>7
<1>9. t[l.at + 1] = l.leaf
  BY <1>2, <1>4, <1>5, <1>8
<1>10. Known(t, l.leaf, l.at)
  BY <1>3, <1>8, <1>9 DEF Known
<1> QED BY <1>10 DEF t

\* A log of the first a blocks is theirs.
LEMMA FinalKnown ==
    ASSUME NEW c \in Seq(Block), NEW a \in 0 .. Len(c), NEW l \in LogsIn(c), l.block =< a
    PROVE  Known(LeavesIn(c, a), l.leaf, l.at)
<1> DEFINE t == LeavesIn(c, a)
           u == LeavesIn(c, l.block)
<1>1. /\ Len(c) \in Nat /\ l \in Log /\ l.block \in 1 .. Len(c)
      /\ u \in Seq(Leaf) /\ l.at < Len(u) /\ u[l.at + 1] = l.leaf
  BY LogTells, Blocks
<1>2. l.at \in Nat
  BY <1>1 DEF Log
<1>3. Len(u) =< Len(t) /\ (\A k \in 1 .. Len(u) : t[k] = u[k]) /\ t \in Seq(Leaf)
  <2>1. l.block \in 0 .. Len(c) /\ a \in l.block .. Len(c)
    BY <1>1
  <2> QED BY <2>1, LeavesGrow
<1> HIDE DEF t, u
<1>4. Len(t) \in Nat /\ Len(u) \in Nat
  BY <1>1, <1>3
<1>5. l.at < Len(t) /\ l.at + 1 \in 1 .. Len(u)
  BY <1>1, <1>2, <1>3, <1>4
<1>6. Known(t, l.leaf, l.at)
  BY <1>1, <1>2, <1>3, <1>5 DEF Known
<1> QED BY <1>6 DEF t

\* The finality depth cuts off what may still be replaced.
LEMMA CutOffStable ==
    ASSUME SoundInv, readHead, ReorgDepth =< FinalityDepth
    PROVE  PassOk'
<1>1. /\ wallet' = wallet /\ UNCHANGED scanning /\ scan.at = "head" /\ scan'.at = "pass"
      /\ scan'.nulls = {l \in scan.nulls : l.block =< Len(chain) - FinalityDepth}
      /\ scan'.logs \in Seq({l \in scan.notes \cup scan.memos : l.block =< Len(chain) - FinalityDepth})
  BY CutOff DEF SoundInv
<1>2. /\ Stable \in 0 .. Len(chain) /\ Len(chain) \in Nat /\ chain \in Seq(Block) /\ longest \in Nat
      /\ ReorgDepth \in Nat /\ longest - ReorgDepth =< Stable /\ Stable \in Nat
  BY StableIs DEF SoundInv, TypeInv
<1>3. Len(chain) - FinalityDepth =< Stable /\ FinalityDepth \in Nat
  <2>1. Len(chain) =< longest /\ FinalityDepth \in Nat
    BY ScanConstants DEF SoundInv, TypeInv, ChainOk
  <2> QED BY <1>2, <2>1
<1>4. scan.notes \subseteq LeafLogs /\ scan.memos \subseteq LeafLogs /\ scan.nulls \subseteq NullLogs
  BY <1>1 DEF SoundInv, ReadOk
<1>5. ASSUME NEW k \in DOMAIN scan'.logs
      PROVE  Known(LeavesUpTo(Stable), scan'.logs[k].leaf, scan'.logs[k].at)
  <2>1. scan'.logs[k] \in {l \in scan.notes \cup scan.memos : l.block =< Len(chain) - FinalityDepth}
    BY <1>1
  <2>2. PICK l : l = scan'.logs[k]
    OBVIOUS
  <2>3. l \in LogsIn(chain) /\ l.block =< Len(chain) - FinalityDepth
    BY <1>4, <2>1, <2>2, LeafLogsAre
  <2>4. l.block =< Stable
    <3>1. l.block \in 1 .. Len(chain)
      BY <1>2, <2>3, LogTells
    <3> QED BY <1>2, <1>3, <2>3, <3>1
  <2>5. Known(LeavesIn(chain, Stable), l.leaf, l.at)
    BY <1>2, <2>3, <2>4, FinalKnown
  <2> QED BY <2>2, <2>5, LeafLogsAre
<1>6. ASSUME NEW l \in scan'.nulls
      PROVE  l.nullifier \in SpentUpTo(Stable)
  <2>1. l \in NullLogs /\ l.block =< Len(chain) - FinalityDepth
    BY <1>1, <1>4
  <2>2. PICK b \in DOMAIN chain : \E n \in chain[b].spent : l = [nullifier |-> n, block |-> b]
    BY <2>1 DEF NullLogs
  <2>3. l.block = b /\ l.nullifier \in chain[b].spent /\ b \in 1 .. Len(chain)
    BY <1>2, <2>2
  <2>4. b \in 1 .. Stable
    BY <1>2, <1>3, <2>1, <2>3
  <2> QED BY <2>3, <2>4 DEF SpentUpTo
<1>7. chain' = chain /\ longest' = longest
  BY <1>1 DEF scanning
<1>8. LeavesUpTo(Stable)' = LeavesUpTo(Stable) /\ SpentUpTo(Stable)' = SpentUpTo(Stable)
  BY <1>7 DEF LeavesUpTo, SpentUpTo, Stable
<1> QED BY <1>5, <1>6, <1>8 DEF PassOk

\* What the pass and the wallet are worth while the chain stands still.
LEMMA StandsStill ==
    ASSUME UNCHANGED scanning
    PROVE  /\ chain' = chain /\ longest' = longest /\ LeafLogs' = LeafLogs /\ NullLogs' = NullLogs
           /\ LeavesUpTo(Stable)' = LeavesUpTo(Stable) /\ SpentUpTo(Stable)' = SpentUpTo(Stable)
BY DEF scanning, LeafLogs, NullLogs, LeavesUpTo, SpentUpTo, Stable

\* Tree and notes are all that is believed.
LEMMA SameBelief ==
    ASSUME wallet'.tree = wallet.tree, wallet'.notes = wallet.notes,
           Believes(wallet, LeavesUpTo(Stable), SpentUpTo(Stable)),
           LeavesUpTo(Stable)' = LeavesUpTo(Stable), SpentUpTo(Stable)' = SpentUpTo(Stable)
    PROVE  Believes(wallet, LeavesUpTo(Stable), SpentUpTo(Stable))'
BY DEF Believes, Known

\* The logs that were read and lie in the first n blocks are on the new chain.
LEMMA ReadStays ==
    ASSUME ChainOk, ChainOk', NEW n \in Nat, n =< Len(chain), n =< Len(chain'),
           \A k \in 1 .. n : chain'[k] = chain[k]
    PROVE  /\ \A l \in LeafLogs : l.block =< n => l \in LeafLogs'
           /\ \A l \in NullLogs : l.block =< n => l \in NullLogs'
<1>1. PICK c, d : c = chain /\ d = chain'
  OBVIOUS
<1>2. /\ c \in Seq(Block) /\ d \in Seq(Block) /\ n =< Len(c) /\ n =< Len(d)
      /\ \A k \in 1 .. n : d[k] = c[k]
  BY <1>1 DEF ChainOk
<1>3. /\ \A l \in LogsIn(c) : l.block =< n => l \in LogsIn(d)
      /\ \A l \in NullsIn(c) : l.block =< n => l \in NullsIn(d)
  BY <1>2, LogsStay
<1>4. LeafLogs = LogsIn(c) /\ LeafLogs' = LogsIn(d) /\ NullLogs = NullsIn(c) /\ NullLogs' = NullsIn(d)
  BY <1>1 DEF LeafLogs, LogsIn, NullLogs, NullsIn, LeavesUpTo, LeavesIn
<1> QED BY <1>3, <1>4

\* A log that was read is in a block.
LEMMA LogBlocks ==
    ASSUME ChainOk
    PROVE  /\ \A l \in LeafLogs : l.block \in 1 .. Len(chain)
           /\ \A l \in NullLogs : l.block \in 1 .. Len(chain)
<1>1. chain \in Seq(Block) /\ DOMAIN chain = 1 .. Len(chain)
  BY DEF ChainOk
<1> QED BY <1>1 DEF LeafLogs, NullLogs

\* A step of the pool: should it outrun the scan, this process is not heard of again.
LEMMA PoolKeeps ==
    ASSUME SoundInv, Pool
    PROVE  raced' \/ SoundInv'
<1>0. TypeInv /\ ChainOk
  BY DEF SoundInv, TypeInv
<1>1. /\ Stable \in 0 .. Len(chain) /\ Len(chain) \in Nat /\ chain \in Seq(Block) /\ longest \in Nat
      /\ ReorgDepth \in Nat /\ Stable \in Nat
  BY <1>0, StableIs
<1>2. TypeInv'
  BY <1>0, TypeStep DEF Next
<1>3. CASE mineDeposit \/ minePayment \/ mineEmpty \/ mineSpend \/ mineRotation
  <2>1. PICK block \in Block : Mine(block)
    BY <1>0, <1>3, MinesBlock
  <2>2. /\ ChainOk' /\ wallet' = wallet /\ scan' = scan
        /\ Len(chain') = Len(chain) + 1 /\ longest =< longest'
        /\ \A k \in 1 .. Len(chain) : chain'[k] = chain[k]
    BY <1>0, <2>1, Mined
  <2>3. Stable =< Len(chain') /\ \A k \in 1 .. Stable : chain'[k] = chain[k]
    BY <1>1, <2>2
  <2>4. PassOk' /\ Believes(wallet, LeavesUpTo(Stable), SpentUpTo(Stable))'
    BY <2>2, <2>3, StableMoves
  <2>5. LeafLogs \subseteq LeafLogs' /\ NullLogs \subseteq NullLogs'
    <3>1. Len(chain) =< Len(chain') /\ Len(chain) =< Len(chain)
      BY <1>1, <2>2
    <3>2. /\ \A l \in LeafLogs : l.block =< Len(chain) => l \in LeafLogs'
          /\ \A l \in NullLogs : l.block =< Len(chain) => l \in NullLogs'
      BY <1>0, <1>1, <2>2, <3>1, ReadStays
    <3> QED BY <1>0, <1>1, <3>2, LogBlocks
  <2>6. ReadOk'
    BY <2>2, <2>5 DEF SoundInv, ReadOk
  <2> QED BY <1>2, <2>4, <2>6 DEF SoundInv
<1>4. CASE reorg
  <2>1. /\ ChainOk' /\ wallet' = wallet /\ scan' = scan /\ longest' = longest
        /\ raced' = (raced \/ outruns(chain'))
        /\ Len(chain') =< Len(chain) /\ longest - ReorgDepth =< Len(chain')
        /\ \A k \in 1 .. Len(chain') : chain'[k] = chain[k]
    BY <1>0, <1>4, Reorganised
  <2>2. Len(chain') \in Nat
    BY <2>1 DEF ChainOk
  <2>3. Stable =< Len(chain') /\ \A k \in 1 .. Stable : chain'[k] = chain[k]
    <3>1. Stable =< Len(chain')
      BY <1>1, <2>1, <2>2 DEF Stable, Bigger
    <3> QED BY <1>1, <2>1, <2>2, <3>1
  <2>4. PassOk' /\ Believes(wallet, LeavesUpTo(Stable), SpentUpTo(Stable))'
    <3>1. longest =< longest'
      BY <1>1, <2>1
    <3> QED BY <2>1, <2>3, <3>1, StableMoves
  <2>5. ASSUME ~raced' PROVE ReadOk'
    <3>1. /\ \A l \in LeafLogs : l.block =< Len(chain') => l \in LeafLogs'
          /\ \A l \in NullLogs : l.block =< Len(chain') => l \in NullLogs'
      <4>1. Len(chain') =< Len(chain')
        BY <2>2
      <4> QED BY <1>0, <2>1, <2>2, <4>1, ReadStays
    <3>2. \A l \in LeafLogs \cup NullLogs : ~(l.block > Len(chain')) => l.block =< Len(chain')
      BY <1>0, <1>1, <2>2, LogBlocks
    <3>3. ~outruns(chain')
      BY <2>1, <2>5
    <3>4. scan.at \in {"memos", "nulls", "head"} =>
            \A l \in scan.notes \union scan.memos \union scan.nulls : ~(l.block > Len(chain'))
      BY <3>3 DEF outruns
    <3>5. ReadOk
      BY DEF SoundInv
    <3> QED BY <2>1, <3>1, <3>2, <3>4, <3>5 DEF ReadOk
  <2> QED BY <1>2, <2>4, <2>5 DEF SoundInv
<1> QED BY <1>3, <1>4 DEF Pool

\* A step of the scan.
LEMMA ScanKeeps ==
    ASSUME SoundInv, ScanStep, ReorgDepth =< FinalityDepth
    PROVE  SoundInv'
<1>0. TypeInv /\ ChainOk /\ Believes(wallet, LeavesUpTo(Stable), SpentUpTo(Stable)) /\ TRUE \in BOOLEAN
  BY DEF SoundInv, TypeInv
<1>1. TypeInv'
  BY <1>0, TypeStep DEF Next
<1>2. /\ Stable \in 0 .. Len(chain) /\ chain \in Seq(Block) /\ LeavesUpTo(Stable) \in Seq(Leaf)
  BY <1>0, StableIs
<1>3. CASE sync \/ probe
  <2>1. PICK from \in Nat, window \in Nat : scanPasses(from, window)
    BY <1>0, <1>3, Begins
  <2>2. /\ scan'.at = "notes" /\ wallet'.tree = wallet.tree /\ wallet'.notes = wallet.notes
        /\ UNCHANGED scanning
    BY <1>0, <2>1, PassesBegin
  <2>3. Believes(wallet, LeavesUpTo(Stable), SpentUpTo(Stable))'
    BY <1>0, <2>2, StandsStill, SameBelief
  <2> QED BY <1>1, <2>2, <2>3 DEF SoundInv, ReadOk, PassOk
<1>4. CASE fetchNotes
  <2>1. /\ wallet' = wallet /\ UNCHANGED scanning /\ scan'.at = "memos" /\ scan'.notes \subseteq LeafLogs
    BY <1>0, <1>4, FetchedNotes
  <2>2. Believes(wallet, LeavesUpTo(Stable), SpentUpTo(Stable))' /\ LeafLogs' = LeafLogs
    BY <1>0, <2>1, StandsStill, SameBelief
  <2> QED BY <1>1, <2>1, <2>2 DEF SoundInv, ReadOk, PassOk
<1>5. CASE fetchMemos
  <2>1. /\ wallet' = wallet /\ UNCHANGED scanning /\ scan.at = "memos" /\ scan'.at = "nulls"
        /\ scan'.memos \subseteq LeafLogs /\ scan'.notes = scan.notes
    BY <1>0, <1>5, FetchedMemos
  <2>2. Believes(wallet, LeavesUpTo(Stable), SpentUpTo(Stable))' /\ LeafLogs' = LeafLogs
    BY <1>0, <2>1, StandsStill, SameBelief
  <2> QED BY <1>1, <2>1, <2>2 DEF SoundInv, ReadOk, PassOk
<1>6. CASE fetchNulls
  <2>1. /\ wallet' = wallet /\ UNCHANGED scanning /\ scan.at = "nulls" /\ scan'.at = "head"
        /\ scan'.nulls \subseteq NullLogs /\ scan'.notes = scan.notes /\ scan'.memos = scan.memos
    BY <1>0, <1>6, FetchedNulls
  <2>2. /\ Believes(wallet, LeavesUpTo(Stable), SpentUpTo(Stable))'
        /\ LeafLogs' = LeafLogs /\ NullLogs' = NullLogs
    BY <1>0, <2>1, StandsStill, SameBelief
  <2> QED BY <1>1, <2>1, <2>2 DEF SoundInv, ReadOk, PassOk
<1>7. CASE readHead
  <2>1. wallet' = wallet /\ UNCHANGED scanning /\ scan'.at = "pass"
    BY <1>0, <1>7, CutOff
  <2>2. Believes(wallet, LeavesUpTo(Stable), SpentUpTo(Stable))'
    BY <1>0, <2>1, StandsStill, SameBelief
  <2>3. PassOk'
    BY <1>7, CutOffStable
  <2> QED BY <1>1, <2>1, <2>2, <2>3 DEF SoundInv, ReadOk
<1>8. PICK T, S : T = LeavesUpTo(Stable) /\ S = SpentUpTo(Stable)
  OBVIOUS
<1>9. T \in Seq(Leaf) /\ Believes(wallet, T, S)
  BY <1>0, <1>2, <1>8
<1>10. ASSUME UNCHANGED scanning, Believes(wallet', T, S), scan.at = "pass",
              \/ scan' = NoScan
              \/ scan'.at = scan.at /\ scan'.logs = scan.logs /\ scan'.nulls = scan.nulls
       PROVE  SoundInv'
  <2>1. LeavesUpTo(Stable)' = LeavesUpTo(Stable) /\ SpentUpTo(Stable)' = SpentUpTo(Stable)
    BY <1>10, StandsStill
  <2>2. Believes(wallet, LeavesUpTo(Stable), SpentUpTo(Stable))'
    BY <1>8, <1>10, <2>1 DEF Believes, Known
  <2>3. ReadOk' /\ PassOk'
    <3>1. CASE scan' = NoScan
      BY <3>1 DEF ReadOk, PassOk, NoScan
    <3>2. CASE scan'.at = scan.at /\ scan'.logs = scan.logs /\ scan'.nulls = scan.nulls
      BY <1>10, <2>1, <3>2 DEF SoundInv, ReadOk, PassOk
    <3> QED BY <1>10, <3>1, <3>2
  <2> QED BY <1>1, <2>2, <2>3 DEF SoundInv
<1>11. ASSUME scan.at = "pass"
       PROVE  /\ \A k \in DOMAIN scan.logs : Known(T, scan.logs[k].leaf, scan.logs[k].at)
              /\ \A l \in scan.nulls : l.nullifier \in S
  BY <1>8, <1>11 DEF SoundInv, PassOk
<1>12. CASE scanOnce
  <2>1. scan.at = "pass"
    BY <1>12 DEF scanOnce
  <2>2. \A k \in DOMAIN scan.logs : Known(T, scan.logs[k].leaf, scan.logs[k].at)
    BY <1>11, <2>1
  <2>3. /\ wallet' \in Successors(TRUE, T, S) /\ UNCHANGED scanning
        /\ scan'.at = scan.at /\ scan'.logs = scan.logs /\ scan'.nulls = scan.nulls
    BY <1>0, <1>9, <1>12, <2>2, Walked
  <2>4. Believes(wallet', T, S)
    BY <2>3, Followed
  <2> QED BY <1>10, <2>1, <2>3, <2>4
<1>13. CASE repairTreeGap
  <2>1. scan.at = "pass" /\ scan.n =< Len(scan.logs)
    BY <1>13 DEF repairTreeGap, Gap
  <2>2. scan.n \in DOMAIN scan.logs
    <3>1. scan.n \in Nat \ {0} /\ scan.logs \in Seq(Log)
      BY <1>0 DEF TypeInv, IsScan, ScanType
    <3>2. DOMAIN scan.logs = 1 .. Len(scan.logs) /\ Len(scan.logs) \in Nat
      BY <3>1
    <3> QED BY <2>1, <3>1, <3>2
  <2>3. PICK last : last = scan.logs[scan.n]
    OBVIOUS
  <2>4. Known(T, last.leaf, last.at)
    BY <1>11, <2>1, <2>2, <2>3
  <2>5. ASSUME NEW l \in LeafLogs, l.at < last.at
        PROVE  Known(T, l.leaf, l.at)
    <3>1. l \in LogsIn(chain) /\ T = LeavesIn(chain, Stable)
      BY <1>8, LeafLogsAre
    <3>2. l.at =< last.at
      <4>1. l.at \in Nat /\ last.at \in Nat
        BY <1>2, <2>4, <3>1, LogTells DEF Log, Known
      <4> QED BY <2>5, <4>1
    <3> QED BY <1>2, <2>4, <3>1, <3>2, EarlierKnown
  <2>6. \A l \in LeafLogs : l.at < scan.logs[scan.n].at => Known(T, l.leaf, l.at)
    BY <2>3, <2>5
  <2>7. /\ wallet' \in Successors(TRUE, T, S) /\ UNCHANGED scanning
        /\ \/ scan' = NoScan
           \/ scan'.at = scan.at /\ scan'.logs = scan.logs /\ scan'.nulls = scan.nulls
    BY <1>0, <1>9, <1>13, <2>6, Repaired
  <2>8. Believes(wallet', T, S)
    BY <2>7, Followed
  <2> QED BY <1>10, <2>1, <2>7, <2>8
<1>14. CASE endPass
  <2>1. scan.at = "pass"
    BY <1>14 DEF endPass
  <2>2. \A l \in scan.nulls : l.nullifier \in S
    BY <1>11, <2>1
  <2>3. /\ Believes(wallet', T, S) /\ UNCHANGED scanning
        /\ \/ scan' = NoScan
           \/ scan'.at = scan.at /\ scan'.logs = scan.logs /\ scan'.nulls = scan.nulls
    BY <1>0, <1>9, <1>14, <2>2, PassEnded
  <2> QED BY <1>10, <2>1, <2>3
<1> QED BY <1>3, <1>4, <1>5, <1>6, <1>7, <1>12, <1>13, <1>14 DEF ScanStep

\* A wallet that knows nothing believes anything.
LEMMA NothingBelieved ==
    ASSUME NEW w, w.tree = << >>, w.notes = << >>
    PROVE  \A T, S : Believes(w, T, S)
<1>1. DOMAIN w.tree = {} /\ DOMAIN w.notes = {}
  OBVIOUS
<1> QED BY <1>1 DEF Believes

\* The rest of a wallet's life.
LEMMA LifeKeeps ==
    ASSUME SoundInv, mintSelf \/ issueAddress \/ fromRotations \/ UNCHANGED vars
    PROVE  SoundInv'
<1>0. TypeInv /\ Believes(wallet, LeavesUpTo(Stable), SpentUpTo(Stable))
  BY DEF SoundInv
<1>1. TypeInv'
  BY <1>0, TypeStep DEF Next
<1>2. ASSUME scan' = scan, chain' = chain, longest' = longest,
             wallet'.tree = wallet.tree, wallet'.notes = wallet.notes
      PROVE  SoundInv'
  <2>1. /\ LeafLogs' = LeafLogs /\ NullLogs' = NullLogs
        /\ LeavesUpTo(Stable)' = LeavesUpTo(Stable) /\ SpentUpTo(Stable)' = SpentUpTo(Stable)
    BY <1>2 DEF LeafLogs, NullLogs, LeavesUpTo, SpentUpTo, Stable
  <2>2. Believes(wallet, LeavesUpTo(Stable), SpentUpTo(Stable))'
    BY <1>0, <1>2, <2>1, SameBelief
  <2>3. ReadOk' /\ PassOk'
    BY <1>2, <2>1 DEF SoundInv, ReadOk, PassOk
  <2> QED BY <1>1, <2>2, <2>3 DEF SoundInv
<1>3. CASE mintSelf \/ issueAddress \/ fromRotations
  BY <1>0, <1>2, <1>3, KeysHandedOut
<1>4. CASE UNCHANGED vars
  BY <1>2, <1>4 DEF vars
<1> QED BY <1>3, <1>4

\* A process that begins again believes nothing.
LEMMA BeginsAgain ==
    ASSUME TypeInv, restart
    PROVE  SoundInv'
<1>1. TypeInv' /\ scan' = NoScan /\ wallet'.tree = << >> /\ wallet'.notes = << >>
  BY Restarted
<1>2. Believes(wallet, LeavesUpTo(Stable), SpentUpTo(Stable))'
  BY <1>1, NothingBelieved
<1> QED BY <1>1, <1>2 DEF SoundInv, ReadOk, PassOk, NoScan

\* Once outrun, always outrun, but for a restart.
LEMMA StaysRaced ==
    ASSUME TypeInv, raced, [Next]_vars, ~restart
    PROVE  raced'
<1>1. CASE mineDeposit \/ minePayment \/ mineEmpty \/ mineSpend \/ mineRotation
  <2>1. PICK block \in Block : Mine(block)
    BY <1>1, MinesBlock DEF TypeInv
  <2> QED BY <2>1 DEF Mine
<1>2. CASE reorg
  BY <1>2, Reorganised DEF TypeInv
<1>3. CASE ScanStep
  <2>1. UNCHANGED scanning
    BY <1>3 DEF ScanStep, sync, probe, scanPasses, fetchNotes, fetchMemos, fetchNulls,
                queryFilter, readHead, scanOnce, repairTreeGap, endPass
  <2> QED BY <2>1 DEF scanning
<1>4. CASE mintSelf \/ issueAddress \/ fromRotations
  BY <1>4, KeysHandedOut
<1>5. CASE UNCHANGED vars
  BY <1>5 DEF vars
<1> QED BY <1>1, <1>2, <1>3, <1>4, <1>5 DEF Next, Pool

\* The stable leaves are the first of the pool's.
LEMMA BeliefHolds == ASSUME SoundInv PROVE BelievesTheChain
<1>1. /\ Stable \in 0 .. Len(chain) /\ Len(chain) \in Nat /\ chain \in Seq(Block)
      /\ Believes(wallet, LeavesUpTo(Stable), SpentUpTo(Stable)) /\ wallet.tree \in Seq(Leaf)
  BY StableIs DEF SoundInv, TypeInv, IsWallet
<1>2. Len(chain) \in 0 .. Len(chain) /\ Len(chain) \in Stable .. Len(chain)
  BY <1>1
<1>3. /\ \A leaf, at :
           Known(LeavesIn(chain, Stable), leaf, at) => Known(LeavesIn(chain, Len(chain)), leaf, at)
      /\ SpentIn(chain, Stable) \subseteq SpentIn(chain, Len(chain))
      /\ LeavesIn(chain, Len(chain)) \in Seq(Leaf)
  BY <1>1, <1>2, KnownStays, LeavesStep
<1>4. /\ LeavesIn(chain, Stable) = LeavesUpTo(Stable) /\ LeavesIn(chain, Len(chain)) = Leaves
      /\ SpentIn(chain, Stable) = SpentUpTo(Stable) /\ SpentIn(chain, Len(chain)) = SpentUpTo(Len(chain))
  BY LeafLogsAre, NullsAre DEF Leaves
<1>5. Believes(wallet, Leaves, SpentUpTo(Len(chain))) /\ Leaves \in Seq(Leaf)
  BY <1>1, <1>3, <1>4, BelievesMore
<1>6. IsPrefix(wallet.tree, Leaves)
  <2> DEFINE s == wallet.tree
             t == Leaves
             n == Len(s)
  <2>1. s \in Seq(Leaf) /\ t \in Seq(Leaf) /\ n \in Nat /\ Len(t) \in Nat /\ DOMAIN s = 1 .. n
    BY <1>1, <1>5
  <2>2. \A k \in 1 .. n : k - 1 < Len(t) /\ t[k] = s[k]
    <3>1. \A k \in 1 .. n : Known(t, s[k], k - 1) /\ k = (k - 1) + 1
      BY <1>5, <2>1 DEF Believes
    <3> QED BY <3>1 DEF Known
  <2> HIDE DEF s, t
  <2>3. n =< Len(t)
    BY <2>1, <2>2
  <2>4. SubSeq(s, 1, n) = SubSeq(t, 1, n)
    BY <2>1, <2>2, <2>3
  <2>5. IsPrefix(s, t)
    BY <2>3, <2>4 DEF IsPrefix
  <2> QED BY <2>5 DEF s, t
<1>7. ASSUME NEW n \in DOMAIN wallet.notes
      PROVE  /\ n[2] < Len(Leaves) /\ Leaves[n[2] + 1] = n[1] /\ n[1].owner \in {"self", "incoming"}
             /\ wallet.notes[n] => n \in SpentUpTo(Len(chain))
  BY <1>5 DEF Believes, Known
<1> QED BY <1>6, <1>7 DEF BelievesTheChain

\* A wallet whose finality depth is no less than the depth of reorganisations
\* believes the chain, whatever the RPC leaves out of its answers, however
\* often the process dies and however the pool and the scan take turns - until
\* a block goes that a scan has read logs of and not yet read the head, which
\* ScanEngine does not notice (it reads the head after the logs).  Nothing is
\* assumed of when blocks go: from then on, and until the process starts
\* again, BelievesTheChain itself makes no claim.
THEOREM ScanBelieves ==
    ASSUME ReorgDepth =< FinalityDepth
    PROVE  Spec => []BelievesTheChain
<1>1. Init => ScanInv
  <2> SUFFICES ASSUME Init PROVE ScanInv
    OBVIOUS
  <2>1. scan = NoScan /\ wallet = NewWallet
    BY DEF Init
  <2>2. wallet.tree = << >> /\ wallet.notes = << >>
    BY <2>1 DEF NewWallet
  <2>3. SoundInv
    BY <2>1, <2>2, TypeFirst, NothingBelieved DEF SoundInv, ReadOk, PassOk, NoScan
  <2> QED BY <2>3, TypeFirst DEF ScanInv
<1>2. ScanInv /\ [Next]_vars => ScanInv'
  <2> SUFFICES ASSUME ScanInv, [Next]_vars PROVE ScanInv'
    OBVIOUS
  <2>1. TypeInv /\ TypeInv'
    BY TypeStep DEF ScanInv
  <2>2. CASE restart
    BY <2>1, <2>2, BeginsAgain DEF ScanInv
  <2>3. CASE raced /\ ~restart
    BY <2>1, <2>3, StaysRaced DEF ScanInv
  <2>4. CASE SoundInv /\ ~restart
    <3>1. raced' \/ SoundInv'
      BY <2>4, PoolKeeps, ScanKeeps, LifeKeeps DEF Next
    <3> QED BY <2>1, <3>1 DEF ScanInv
  <2> QED BY <2>2, <2>3, <2>4 DEF ScanInv
<1>3. ScanInv => BelievesTheChain
  BY BeliefHolds DEF ScanInv, BelievesTheChain
<1> QED BY <1>1, <1>2, <1>3, PTL DEF Spec

===========================================================================
