----------------------- MODULE ResourceManagerProofs -----------------------
(***************************************************************************)
(* What fair shares add up to.                                             *)
(*                                                                         *)
(* Sums first: SumFunction is a fold, which takes the elements of a set in *)
(* an order of its own.  Induction is over the subsets of a finite set,    *)
(* stated of a set of subsets: if it is not all of them, a smallest one is *)
(* missing.  It gives the fold's equation, and from that what it computes. *)
(***************************************************************************)
EXTENDS ResourceManager, Functions, RegistryStateProofs, FiniteSetTheorems

\* The element the fold takes next, and the equation of its running sums.
Pick(s) == CHOOSE x \in s : TRUE

RunningSums(sums, f, S) ==
  sums = [s \in SUBSET S |->
            IF s = {} THEN 0 ELSE f[Pick(s)] + sums[s \ {Pick(s)}]]

LEMMA PickIsIn ==
  ASSUME NEW s, s # {}
  PROVE  Pick(s) \in s
BY DEF Pick

\* SumFunctionOnSet is the last of the running sums, if there are any.
LEMMA SumIsLast ==
  ASSUME NEW f, NEW S
  PROVE  SumFunctionOnSet(f, S) = (CHOOSE sums : RunningSums(sums, f, S))[S]
BY Zenon DEF SumFunctionOnSet, FoldFunctionOnSet, MapThenFoldSet, RunningSums, Pick

-----------------------------------------------------------------------------
\* Whatever a subset of S has once all smaller subsets have it, all of them have.
LEMMA SubsetInduction ==
  ASSUME NEW S, IsFiniteSet(S), NEW T \in SUBSET SUBSET S,
         \A s \in SUBSET S : (\A u \in SUBSET s : u # s => u \in T) => s \in T
  PROVE  T = SUBSET S
<1> DEFINE rest == (SUBSET S) \ T
<1>1. IsWellFoundedOn(StrictSubsetOrdering(S), SUBSET S)
  BY FS_StrictSubsetOrderingWellFounded, FS_FiniteSubsetsOfFinite
<1>2. SUFFICES ASSUME rest # {} PROVE FALSE
  OBVIOUS
<1>3. PICK s \in rest : \A u \in rest : <<u, s>> \notin StrictSubsetOrdering(S)
  <2> HIDE DEF rest
  <2>1. rest \subseteq SUBSET S
    BY DEF rest
  <2> QED
    BY <1>1, <1>2, <2>1, WFMin
<1>4. ASSUME NEW u \in SUBSET s, u # s PROVE u \in T
  BY <1>3, <1>4 DEF StrictSubsetOrdering
<1> QED
  BY <1>3, <1>4

\* The running sums are determined by their equation.
LEMMA RunningSumsUnique ==
  ASSUME NEW f, NEW S, IsFiniteSet(S),
         NEW g, RunningSums(g, f, S), NEW h, RunningSums(h, f, S)
  PROVE  g = h
<1> DEFINE T == {s \in SUBSET S : g[s] = h[s]}
<1>1. ASSUME NEW s \in SUBSET S, \A u \in SUBSET s : u # s => u \in T
      PROVE  s \in T
  <2>1. CASE s = {}
    BY <2>1 DEF RunningSums
  <2>2. CASE s # {}
    <3>1. s \ {Pick(s)} \in T
      BY <1>1, <2>2, PickIsIn
    <3> QED
      BY <2>2, <3>1 DEF RunningSums
  <2> QED
    BY <2>1, <2>2
<1>2. T = SUBSET S
  <2> HIDE DEF T
  <2>1. T \in SUBSET SUBSET S
    BY DEF T
  <2> QED
    BY <1>1, <2>1, SubsetInduction
<1> QED
  BY <1>2 DEF RunningSums

\* The running sums over S contain those over each of its subsets.
LEMMA RunningSumsRestrict ==
  ASSUME NEW f, NEW S, NEW g, RunningSums(g, f, S), NEW U \in SUBSET S
  PROVE  RunningSums([s \in SUBSET U |-> g[s]], f, U)
<1> DEFINE h == [s \in SUBSET U |-> g[s]]
<1>1. ASSUME NEW s \in SUBSET U
      PROVE  g[s] = IF s = {} THEN 0 ELSE f[Pick(s)] + g[s \ {Pick(s)}]
  BY DEF RunningSums
<1>2. \A s \in SUBSET U : h[s] = IF s = {} THEN 0 ELSE f[Pick(s)] + h[s \ {Pick(s)}]
  BY <1>1
<1> QED
  BY <1>2 DEF RunningSums

LEMMA RunningSumsExist ==
  ASSUME NEW f, NEW S, IsFiniteSet(S)
  PROVE  \E g : RunningSums(g, f, S)
<1> DEFINE T == {s \in SUBSET S : \E g : RunningSums(g, f, s)}
           Sums(u) == CHOOSE g : RunningSums(g, f, u)
<1>1. ASSUME NEW s \in SUBSET S, \A u \in SUBSET s : u # s => u \in T
      PROVE  s \in T
  <2> DEFINE Total(u) == Sums(u)[u]
             h == [v \in SUBSET s |->
                     IF v = {} THEN 0 ELSE f[Pick(v)] + Total(v \ {Pick(v)})]
  <2>1. ASSUME NEW u \in SUBSET s, u # s PROVE RunningSums(Sums(u), f, u)
    BY <1>1, <2>1
  <2>2. ASSUME NEW u \in SUBSET s, u # s PROVE h[u] = Total(u)
    <3>1. Total(u) = IF u = {} THEN 0 ELSE f[Pick(u)] + Sums(u)[u \ {Pick(u)}]
      <4> HIDE DEF Sums
      <4> QED
        BY <2>1, <2>2 DEF RunningSums
    <3>2. ASSUME u # {} PROVE Sums(u)[u \ {Pick(u)}] = Total(u \ {Pick(u)})
      <4> DEFINE w == u \ {Pick(u)}
                 r == [v \in SUBSET w |-> Sums(u)[v]]
      <4>1. w \in SUBSET u /\ w # s
        BY <3>2, PickIsIn
      <4>2. RunningSums(r, f, w)
        <5> HIDE DEF Sums, w
        <5> QED
          BY <2>1, <2>2, <4>1, RunningSumsRestrict
      <4>3. RunningSums(Sums(w), f, w)
        BY <2>1, <4>1
      <4>4. IsFiniteSet(w)
        BY <4>1, FS_Subset
      <4>5. r = Sums(w)
        <5> HIDE DEF Sums, w, r
        <5> QED
          BY <4>2, <4>3, <4>4, RunningSumsUnique
      <4> QED
        BY <4>5
    <3> HIDE DEF Total, Sums
    <3> QED
      BY <3>1, <3>2
  <2>3. ASSUME NEW v \in SUBSET s, v # {} PROVE h[v \ {Pick(v)}] = Total(v \ {Pick(v)})
    <3>1. v \ {Pick(v)} # s
      BY <2>3, PickIsIn
    <3> HIDE DEF h, Total
    <3> QED
      BY <2>2, <3>1
  <2>4. RunningSums(h, f, s)
    <3> HIDE DEF Total
    <3>1. \A v \in SUBSET s :
            h[v] = IF v = {} THEN 0 ELSE f[Pick(v)] + h[v \ {Pick(v)}]
      BY <2>3
    <3>2. h = [v \in SUBSET s |-> h[v]]
      OBVIOUS
    <3> HIDE DEF h
    <3> QED
      BY <3>1, <3>2 DEF RunningSums
  <2> QED
    BY <2>4
<1>2. T = SUBSET S
  <2> HIDE DEF T
  <2>1. T \in SUBSET SUBSET S
    BY DEF T
  <2> QED
    BY <1>1, <2>1, SubsetInduction
<1> QED
  BY <1>2

-----------------------------------------------------------------------------
\* The sum over a finite set is taken one element at a time.
LEMMA SumUnfolds ==
  ASSUME NEW f, NEW S, IsFiniteSet(S)
  PROVE  SumFunctionOnSet(f, S) =
           IF S = {} THEN 0 ELSE f[Pick(S)] + SumFunctionOnSet(f, S \ {Pick(S)})
<1> DEFINE Sums(u) == CHOOSE g : RunningSums(g, f, u)
           w == S \ {Pick(S)}
           r == [v \in SUBSET w |-> Sums(S)[v]]
<1>1. SumFunctionOnSet(f, S) = Sums(S)[S] /\ SumFunctionOnSet(f, w) = Sums(w)[w]
  BY SumIsLast
<1>2. IsFiniteSet(w)
  BY FS_Subset
<1>3. RunningSums(Sums(S), f, S) /\ RunningSums(Sums(w), f, w)
  BY <1>2, RunningSumsExist
<1>4. r = Sums(w)
  <2>1. RunningSums(r, f, w)
    <3>1. w \in SUBSET S
      OBVIOUS
    <3> HIDE DEF Sums, w
    <3> QED
      BY <1>3, <3>1, RunningSumsRestrict
  <2> HIDE DEF Sums, w, r
  <2> QED
    BY <1>2, <1>3, <2>1, RunningSumsUnique
<1>5. Sums(S)[S] = IF S = {} THEN 0 ELSE f[Pick(S)] + Sums(S)[w]
  <2> HIDE DEF Sums
  <2> QED
    BY <1>3 DEF RunningSums
<1>6. Sums(S)[w] = Sums(w)[w]
  <2> HIDE DEF Sums
  <2> QED
    BY <1>4
<1> HIDE DEF Sums
<1> QED
  BY <1>1, <1>5, <1>6

\* Equal shares, of some members and not of others, add up to the number of
\* those who have one times its size.
LEMMA SumOfEqualShares ==
  ASSUME NEW f, NEW S, IsFiniteSet(S), NEW P, NEW k \in Int,
         \A x \in S : f[x] = IF x \in P THEN k ELSE 0
  PROVE  SumFunctionOnSet(f, S) = Cardinality(S \cap P) * k
<1> DEFINE T == {s \in SUBSET S : SumFunctionOnSet(f, s) = Cardinality(s \cap P) * k}
<1>1. ASSUME NEW s \in SUBSET S, \A u \in SUBSET s : u # s => u \in T
      PROVE  s \in T
  <2>1. IsFiniteSet(s) /\ IsFiniteSet(s \cap P) /\ Cardinality(s \cap P) \in Nat
    BY FS_Subset, FS_CardinalityType
  <2>2. CASE s = {}
    <3>1. SumFunctionOnSet(f, s) = 0
      BY <2>1, <2>2, SumUnfolds
    <3>2. Cardinality(s \cap P) = 0
      <4>1. s \cap P = {}
        BY <2>2
      <4> QED
        BY <4>1, FS_EmptySet
    <3> QED
      BY <3>1, <3>2
  <2>3. CASE s # {}
    <3> DEFINE x == Pick(s)
               w == s \ {x}
               n == Cardinality(s \cap P)
    <3>1. x \in s
      BY <2>3, PickIsIn
    <3>2. SumFunctionOnSet(f, s) = f[x] + SumFunctionOnSet(f, w)
      BY <2>1, <2>3, SumUnfolds
    <3>3. SumFunctionOnSet(f, w) = Cardinality(w \cap P) * k
      BY <1>1, <3>1
    <3>4. Cardinality(w \cap P) = IF x \in P THEN n - 1 ELSE n
      <4> DEFINE a == s \cap P
      <4>1. w \cap P = a \ {x} /\ (x \in a <=> x \in P)
        BY <3>1
      <4>2. Cardinality(a \ {x}) = IF x \in a THEN Cardinality(a) - 1 ELSE Cardinality(a)
        <5> HIDE DEF a, x
        <5>1. IsFiniteSet(a)
          BY <2>1 DEF a
        <5> QED
          BY <5>1, FS_RemoveElement
      <4> QED
        BY <4>1, <4>2
    <3>5. f[x] = IF x \in P THEN k ELSE 0
      BY <3>1
    <3>6. \A m \in Int : k + (m - 1) * k = m * k /\ 0 + m * k = m * k
      OBVIOUS
    <3> HIDE DEF x, w, n
    <3>7. SumFunctionOnSet(f, s) = n * k
      <4>1. n \in Nat
        BY <2>1 DEF n
      <4> QED
        BY <3>2, <3>3, <3>4, <3>5, <3>6, <4>1
    <3> QED
      BY <3>7 DEF n
  <2> QED
    BY <2>2, <2>3
<1>2. T = SUBSET S
  <2> HIDE DEF T
  <2>1. T \in SUBSET SUBSET S
    BY DEF T
  <2> QED
    BY <1>1, <2>1, SubsetInduction
<1> QED
  BY <1>2

-----------------------------------------------------------------------------
(***************************************************************************)
(* Shares.                                                                 *)
(***************************************************************************)
\* A share is a natural number: whoever gets one is among the clients counted.
LEMMA FairShareType ==
  ASSUME NEW limit \in Nat, NEW c, NEW interested \in SUBSET Client
  PROVE  FairShare(limit, c, interested) \in Nat
<1>1. CASE c \notin interested
  BY <1>1 DEF FairShare
<1>2. CASE c \in interested
  <2>1. IsFiniteSet(interested)
    BY LimitsAssumption, FS_Subset
  <2>2. Cardinality(interested) \in Nat /\ Cardinality(interested) # 0
    BY <1>2, <2>1, FS_CardinalityType, FS_EmptySet
  <2> DEFINE n == Cardinality(interested)
  <2>3. \A m \in Nat : m # 0 => limit \div m \in Nat
    OBVIOUS
  <2> QED BY <1>2, <2>2, <2>3 DEF FairShare
<1> QED BY <1>1, <1>2

LEMMA NoShareOfNothing ==
  ASSUME NEW c, NEW interested \in SUBSET Client
  PROVE  FairShare(0, c, interested) = 0
<1>1. CASE c \notin interested
  BY <1>1 DEF FairShare
<1>2. CASE c \in interested
  <2>1. Cardinality(interested) \in Nat \ {0}
    BY <1>2, LimitsAssumption, FS_Subset, FS_CardinalityType, FS_EmptySet
  <2>2. \A n \in Nat \ {0} : 0 \div n = 0
    OBVIOUS
  <2> QED BY <1>2, <2>1, <2>2 DEF FairShare
<1> QED BY <1>1, <1>2

\* n equal shares of a limit divisible by n.
LEMMA WholeLimit ==
  ASSUME NEW limit \in Nat, NEW n \in Nat \ {0}, limit % n = 0
  PROVE  n * (limit \div n) = limit
OBVIOUS

LEMMA FewerShares ==
  ASSUME NEW k \in Nat, NEW n \in Nat, NEW m \in 0..n
  PROVE  m * k <= n * k
OBVIOUS

\* Whoever asks, the fair shares of a limit are within the limit together; they
\* are all of it once every interested client is among those who ask.
LEMMA FairSharesAddUp ==
  ASSUME NEW limit \in RateLimits \cup {0}, limit >= 0,
         NEW interested \in SUBSET Client,
         NEW shares, DOMAIN shares \subseteq Client,
         \A c \in DOMAIN shares : shares[c] = FairShare(limit, c, interested)
  PROVE  /\ SumFunction(shares) <= limit
         /\ interested \subseteq DOMAIN shares /\ interested # {} =>
              SumFunction(shares) = limit
<1> DEFINE given == DOMAIN shares
           n == Cardinality(interested)
           m == Cardinality(given \cap interested)
           k == limit \div n
<1>1. /\ limit \in Nat
      /\ IsFiniteSet(interested) /\ IsFiniteSet(given)
      /\ n \in Nat /\ m \in Nat /\ m <= n /\ n <= Cardinality(Client)
      /\ Cardinality(Client) \in Nat
  <2>1. IsFiniteSet(interested) /\ IsFiniteSet(given) /\ n <= Cardinality(Client)
    BY LimitsAssumption, FS_Subset
  <2>2. given \cap interested \in SUBSET interested
    OBVIOUS
  <2>3. m <= n /\ IsFiniteSet(given \cap interested)
    BY <2>1, <2>2, FS_Subset
  <2> QED BY <2>1, <2>3, LimitsAssumption, FS_CardinalityType
<1>2. CASE interested = {}
  <2>1. \A c \in given : shares[c] = IF c \in {} THEN 0 ELSE 0
    BY <1>2 DEF FairShare
  <2>2. SumFunction(shares) = Cardinality(given \cap {}) * 0
    BY <1>1, <2>1, SumOfEqualShares DEF SumFunction
  <2>3. Cardinality(given \cap {}) \in Int
    BY <1>1, <1>2
  <2> QED BY <1>1, <1>2, <2>2, <2>3
<1>3. CASE interested # {}
  <2>1. n # 0
    BY <1>1, <1>3, FS_EmptySet
  <2>2. limit % n = 0
    <3>1. \A d \in Nat \ {0} : 0 % d = 0
      OBVIOUS
    <3>2. n \in 1..Cardinality(Client)
      BY <1>1, <2>1
    <3> QED BY <1>1, <2>1, <3>1, <3>2, LimitsAssumption
  <2>3. k \in Nat /\ n * k = limit
    <3>1. \A d \in Nat \ {0} : limit \div d \in Nat
      BY <1>1
    <3> QED BY <1>1, <2>1, <2>2, <3>1, WholeLimit
  <2>4. \A c \in given : shares[c] = IF c \in interested THEN k ELSE 0
    BY DEF FairShare
  <2>5. SumFunction(shares) = m * k
    <3> HIDE DEF k, given
    <3>1. SumFunctionOnSet(shares, given) = m * k
      <4>1. IsFiniteSet(given) /\ k \in Int
        BY <1>1, <2>3
      <4> QED BY ONLY <2>4, <4>1, SumOfEqualShares
    <3> QED BY <3>1 DEF SumFunction, given
  <2>6. m * k <= n * k
    <3> HIDE DEF k, n, m
    <3> QED BY <1>1, <2>3, FewerShares
  <2>7. interested \subseteq given => m = n
    <3>1. interested \subseteq given => given \cap interested = interested
      OBVIOUS
    <3> QED BY <3>1
  <2> QED BY <2>3, <2>5, <2>6, <2>7
<1> QED BY <1>2, <1>3

=============================================================================
