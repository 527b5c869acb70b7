------------------------------ MODULE Counting ------------------------------
(***************************************************************************)
(* Facts that several proofs need: induction over sets of numbers, running *)
(* sums, and what a fold that adds up numbers computes, in whichever order *)
(* it takes them.                                                          *)
(***************************************************************************)
EXTENDS Integers, FiniteSetsExt, Functions, FiniteSetTheorems, TLAPS

\* A set of numbers that is not empty has a least element, which Min finds.
LEMMA MinIs ==
    ASSUME NEW T, T \subseteq Nat, T # {}
    PROVE  Min(T) \in T /\ \A k \in T : Min(T) <= k
<1> DEFINE R == OpToRel(<, Nat)
<1>1. IsWellFoundedOn(R, Nat)
  BY NatLessThanWellFounded
<1>2. PICK m \in T : \A k \in T : ~(<<k, m>> \in R)
  <2> HIDE DEF R
  <2> QED
    BY <1>1, WFMin
<1>3. \A k \in T : ~(k < m)
  BY <1>2 DEF OpToRel
<1>4. \A k \in T : m <= k
  BY <1>3
<1> QED
  BY <1>4 DEF Min

\* A bounded set of numbers that is not empty has a largest element, which Max finds.
LEMMA MaxIs ==
    ASSUME NEW n \in Nat, NEW s \in SUBSET (1 .. n), s # {}
    PROVE  Max(s) \in s /\ \A k \in s : k <= Max(s)
<1> DEFINE D == {k \in Nat : \E i \in s : i + k = n}
<1>1. D \subseteq Nat /\ D # {}
  <2>1. PICK i \in s : TRUE
    OBVIOUS
  <2>2. i \in Nat /\ n - i \in Nat /\ i + (n - i) = n
    OBVIOUS
  <2> QED
    BY <2>2
<1>2. PICK m : m \in D /\ \A k \in D : m <= k
  <2> HIDE DEF D
  <2> QED
    BY <1>1, MinIs
<1>3. PICK x \in s : x + m = n
  BY <1>2
<1>4. ASSUME NEW i \in s PROVE i <= x
  <2>1. i \in Nat /\ x \in Nat /\ m \in Nat /\ n - i \in D
    BY <1>2
  <2> QED
    BY <1>2, <1>3, <2>1
<1> QED
  BY <1>4 DEF Max

\* Induction: a set with 0 and every successor of its elements has all numbers.
LEMMA Induction ==
    ASSUME NEW T, T \subseteq Nat, 0 \in T, \A n \in T : n + 1 \in T
    PROVE  T = Nat
<1> SUFFICES ASSUME Nat \ T # {} PROVE FALSE
  OBVIOUS
<1> DEFINE m == Min(Nat \ T)
<1>1. m \in Nat \ T /\ \A k \in Nat \ T : m <= k
  <2> HIDE DEF m
  <2> QED
    BY MinIs DEF m
<1> HIDE DEF m
<1>2. m # 0 /\ m - 1 \in Nat
  BY <1>1
<1>3. m - 1 \in T
  BY <1>1, <1>2
<1> QED
  BY <1>1, <1>2, <1>3

----------------------------------------------------------------------------
\* Sums

\* f has the running sums of the numbers d[1], ..., d[k].
RunningSums(f, k, d) == \A i \in 0 .. k : f[i] = IF i = 0 THEN 0 ELSE f[i - 1] + d[i]

\* Running sums exist.
LEMMA SumsExist ==
    ASSUME NEW k \in Nat, NEW d \in [1 .. k -> Nat]
    PROVE  \E f \in [0 .. k -> Nat] : RunningSums(f, k, d)
<1> DEFINE a(i) == IF i <= k THEN d[i] ELSE 0
           P(n) == \E f \in [0 .. n -> Nat] :
                     \A i \in 0 .. n : f[i] = IF i = 0 THEN 0 ELSE f[i - 1] + a(i)
           T == {n \in Nat : P(n)}
<1>1. P(0)
  <2> DEFINE f == [i \in 0 .. 0 |-> 0]
  <2>1. f \in [0 .. 0 -> Nat] /\ \A i \in 0 .. 0 : f[i] = IF i = 0 THEN 0 ELSE f[i - 1] + a(i)
    OBVIOUS
  <2> HIDE DEF f
  <2> QED
    BY <2>1
<1>2. ASSUME NEW n \in Nat, P(n) PROVE P(n + 1)
  <2>1. PICK f \in [0 .. n -> Nat] : \A i \in 0 .. n : f[i] = IF i = 0 THEN 0 ELSE f[i - 1] + a(i)
    BY <1>2
  <2> DEFINE g == [i \in 0 .. n + 1 |-> IF i <= n THEN f[i] ELSE f[n] + a(n + 1)]
  <2>2. g \in [0 .. n + 1 -> Nat]
    OBVIOUS
  <2>3. \A i \in 0 .. n + 1 : g[i] = IF i = 0 THEN 0 ELSE g[i - 1] + a(i)
    BY <2>1
  <2> HIDE DEF g
  <2> QED
    BY <2>2, <2>3
<1>3. P(k)
  <2> HIDE DEF P
  <2>1. T \subseteq Nat /\ 0 \in T /\ \A n \in T : n + 1 \in T
    BY <1>1, <1>2
  <2>2. T = Nat
    <3> HIDE DEF T
    <3> QED
      BY <2>1, Induction
  <2> QED
    BY <2>2
<1>4. PICK f \in [0 .. k -> Nat] : \A i \in 0 .. k : f[i] = IF i = 0 THEN 0 ELSE f[i - 1] + a(i)
  BY <1>3
<1>5. RunningSums(f, k, d)
  BY <1>4 DEF RunningSums
<1> QED
  BY <1>5

\* Two running sums of the same numbers are the same.
LEMMA SumsUnique ==
    ASSUME NEW k \in Nat, NEW d, NEW f, NEW g, RunningSums(f, k, d), RunningSums(g, k, d)
    PROVE  \A i \in 0 .. k : f[i] = g[i]
<1> DEFINE P(n) == n <= k => f[n] = g[n]
           T == {n \in Nat : P(n)}
<1>1. P(0)
  BY DEF RunningSums
<1>2. ASSUME NEW n \in Nat, P(n) PROVE P(n + 1)
  <2>1. n + 1 <= k => n + 1 \in 0 .. k /\ n + 1 # 0 /\ n + 1 - 1 = n /\ n <= k
    OBVIOUS
  <2> QED
    BY <1>2, <2>1 DEF RunningSums
<1>3. \A n \in Nat : P(n)
  <2> HIDE DEF P
  <2>1. T \subseteq Nat /\ 0 \in T /\ \A n \in T : n + 1 \in T
    BY <1>1, <1>2
  <2>2. T = Nat
    <3> HIDE DEF T
    <3> QED
      BY <2>1, Induction
  <2> QED
    BY <2>2
<1> SUFFICES ASSUME NEW i \in 0 .. k PROVE f[i] = g[i]
  OBVIOUS
<1>4. i \in Nat /\ i <= k
  OBVIOUS
<1>5. P(i)
  BY <1>3, <1>4
<1> QED
  BY <1>4, <1>5

----------------------------------------------------------------------------
\* Folds

\* The numbers that a total over s takes from those of 1 + o, ..., n + o.
Masked(g, s, n, o) == [i \in 1 .. n |-> IF i + o \in s THEN g[i + o] ELSE 0]

\* T has the total of g over each part of S.
Totals(T, g, S) ==
    /\ T \in [SUBSET S -> Nat] /\ T[{}] = 0
    /\ \A s \in SUBSET S : \A x \in s : T[s] = g[x] + T[s \ {x}]

\* Totals exist, and the one over all the numbers is the last running sum.
LEMMA TotalsExist ==
    ASSUME NEW n \in Nat, NEW o \in Int, NEW g \in [1 + o .. n + o -> Nat]
    PROVE  \E T : /\ Totals(T, g, 1 + o .. n + o)
                  /\ \A f : RunningSums(f, n, Masked(g, 1 + o .. n + o, n, o)) => T[1 + o .. n + o] = f[n]
<1> DEFINE S == 1 + o .. n + o
           Of(s, f) == f \in [0 .. n -> Nat] /\ RunningSums(f, n, Masked(g, s, n, o))
           T == [s \in SUBSET S |-> (CHOOSE f : Of(s, f))[n]]
<1>1. ASSUME NEW s \in SUBSET S PROVE \E f : Of(s, f)
  <2>1. Masked(g, s, n, o) \in [1 .. n -> Nat]
    BY DEF Masked
  <2> QED
    BY <2>1, SumsExist
<1>2. ASSUME NEW s \in SUBSET S, NEW f, RunningSums(f, n, Masked(g, s, n, o))
      PROVE  T[s] = f[n] /\ T[s] \in Nat
  <2>1. PICK h : h = CHOOSE e : Of(s, e)
    OBVIOUS
  <2>2. Of(s, h)
    BY <1>1, <2>1
  <2>3. h[n] = f[n] /\ h[n] \in Nat
    BY <1>2, <2>2, SumsUnique
  <2> QED
    BY <2>1, <2>3
<1> HIDE DEF T
<1>3. T \in [SUBSET S -> Nat]
  <2>1. \A s \in SUBSET S : T[s] \in Nat
    BY <1>1, <1>2
  <2>2. DOMAIN T = SUBSET S /\ T = [s \in SUBSET S |-> T[s]]
    BY DEF T
  <2> QED
    BY <2>1, <2>2
<1>4. T[{}] = 0
  <2> DEFINE f == [i \in 0 .. n |-> 0]
  <2>1. RunningSums(f, n, Masked(g, {}, n, o)) /\ f[n] = 0
    BY DEF RunningSums, Masked
  <2> QED
    BY <1>2, <2>1
<1>5. ASSUME NEW s \in SUBSET S, NEW x \in s PROVE T[s] = g[x] + T[s \ {x}]
  <2>0. s \ {x} \in SUBSET S /\ x \in 1 + o .. n + o /\ g[x] \in Nat
    OBVIOUS
  <2>1. PICK f : Of(s \ {x}, f)
    BY <1>1, <2>0
  <2> DEFINE h == [i \in 0 .. n |-> f[i] + IF i + o >= x THEN g[x] ELSE 0]
  <2>2. RunningSums(h, n, Masked(g, s, n, o))
    <3> SUFFICES ASSUME NEW i \in 0 .. n
                 PROVE  h[i] = IF i = 0 THEN 0 ELSE h[i - 1] + Masked(g, s, n, o)[i]
      BY DEF RunningSums
    <3>1. f[i] = IF i = 0 THEN 0 ELSE f[i - 1] + Masked(g, s \ {x}, n, o)[i]
      BY <2>1 DEF RunningSums
    <3>2. CASE i = 0
      BY <2>0, <3>1, <3>2
    <3>3. CASE i # 0
      <4>1. i \in 1 .. n /\ i - 1 \in 0 .. n /\ f[i - 1] \in Nat /\ i + o \in 1 + o .. n + o /\ g[i + o] \in Nat
        BY <2>1, <3>3
      <4>2. /\ Masked(g, s, n, o)[i] = IF i + o \in s THEN g[i + o] ELSE 0
            /\ Masked(g, s \ {x}, n, o)[i] = IF i + o \in s /\ i + o # x THEN g[i + o] ELSE 0
        BY <4>1 DEF Masked
      <4>3. /\ h[i] = f[i] + (IF i + o >= x THEN g[x] ELSE 0)
            /\ h[i - 1] = f[i - 1] + IF i - 1 + o >= x THEN g[x] ELSE 0
        BY <4>1
      <4> HIDE DEF h
      <4>4. CASE i + o = x
        <5>1. Masked(g, s, n, o)[i] = g[x] /\ Masked(g, s \ {x}, n, o)[i] = 0
          BY <4>2, <4>4
        <5>2. h[i] = f[i] + g[x] /\ h[i - 1] = f[i - 1]
          BY <2>0, <4>1, <4>3, <4>4
        <5>3. f[i] = f[i - 1]
          BY <3>1, <3>3, <4>1, <5>1
        <5> QED
          BY <3>3, <5>1, <5>2, <5>3
      <4>5. CASE i + o < x
        BY <2>0, <3>1, <3>3, <4>1, <4>2, <4>3, <4>5
      <4>6. CASE i + o > x
        BY <2>0, <3>1, <3>3, <4>1, <4>2, <4>3, <4>6
      <4> QED
        BY <2>0, <4>4, <4>5, <4>6
    <3> QED
      BY <3>2, <3>3
  <2>3. h[n] = f[n] + g[x]
    BY <2>0
  <2> HIDE DEF h
  <2>4. T[s] = h[n] /\ T[s \ {x}] = f[n] /\ f[n] \in Nat
    <3>1. T[s] = h[n]
      BY <1>2, <2>2
    <3>2. T[s \ {x}] = f[n] /\ T[s \ {x}] \in Nat
      BY <1>2, <2>0, <2>1
    <3> QED
      BY <3>1, <3>2
  <2> QED
    BY <2>0, <2>3, <2>4
<1>6. \A f : RunningSums(f, n, Masked(g, S, n, o)) => T[S] = f[n]
  BY <1>2
<1>7. Totals(T, g, S)
  BY <1>3, <1>4, <1>5 DEF Totals
<1> QED
  BY <1>6, <1>7

\* F adds up one number after the other, the next one chosen by one, on either side.
Folds(F, g, S, one) ==
    \A s \in SUBSET S :
        IF s = {} THEN F[s] = 0
        ELSE F[s] = g[one[s]] + F[s \ {one[s]}] \/ F[s] = F[s \ {one[s]}] + g[one[s]]

\* Whatever the choice, the fold is the total.
LEMMA FoldsAgree ==
    ASSUME NEW S, IsFiniteSet(S), NEW g \in [S -> Nat], NEW one, \A s \in SUBSET S : s # {} => one[s] \in s,
           NEW F, Folds(F, g, S, one), NEW T, Totals(T, g, S)
    PROVE  F[S] = T[S]
<1>1. \A s \in SUBSET S : IsFiniteSet(s)
  BY FS_Subset
<1> DEFINE P(k) == \A s \in SUBSET S : Cardinality(s) = k => F[s] = T[s]
           K == {k \in Nat : P(k)}
<1>2. P(0)
  BY <1>1, FS_EmptySet DEF Folds, Totals
<1>3. ASSUME NEW k \in Nat, P(k) PROVE P(k + 1)
  <2> SUFFICES ASSUME NEW s \in SUBSET S, Cardinality(s) = k + 1 PROVE F[s] = T[s]
    OBVIOUS
  <2>1. PICK x : x = one[s]
    OBVIOUS
  <2>2. s # {} /\ x \in s /\ s \ {x} \in SUBSET S
    <3>1. s # {}
      <4> SUFFICES ASSUME s = {} PROVE FALSE
        OBVIOUS
      <4>1. Cardinality(s) = 0
        BY FS_EmptySet
      <4> QED
        BY <4>1
    <3> QED
      BY <2>1, <3>1
  <2>3. Cardinality(s \ {x}) = k
    <3>1. Cardinality(s \ {x}) = Cardinality(s) - 1
      BY <1>1, <2>2, FS_RemoveElement
    <3> QED
      BY <3>1
  <2>4. F[s \ {x}] = T[s \ {x}]
    BY <1>3, <2>2, <2>3
  <2>5. T[s] = g[x] + T[s \ {x}] /\ T[s \ {x}] \in Nat /\ g[x] \in Nat
    BY <2>2 DEF Totals
  <2>6. F[s] = g[x] + F[s \ {x}] \/ F[s] = F[s \ {x}] + g[x]
    BY <2>1, <2>2 DEF Folds
  <2> QED
    BY <2>4, <2>5, <2>6
<1>4. \A k \in Nat : P(k)
  <2> HIDE DEF P
  <2>1. K \subseteq Nat /\ 0 \in K /\ \A k \in K : k + 1 \in K
    BY <1>2, <1>3
  <2>2. K = Nat
    <3> HIDE DEF K
    <3> QED
      BY <2>1, Induction
  <2> QED
    BY <2>2
<1>5. Cardinality(S) \in Nat
  BY FS_CardinalityType
<1> QED
  BY <1>4, <1>5

----------------------------------------------------------------------------
\* Folds in order

\* h has what a fold by op has got to after each of f[1], ..., f[n].
History(h, op, base, f, n) == h[0] = base /\ \A i \in 1 .. n : h[i] = op[<<h[i - 1], f[i]>>]

\* F folds by op, the last element of each part of 1 .. n last.
InOrder(F, op, base, f, n) ==
    \A s \in SUBSET (1 .. n) :
        F[s] = IF s = {} THEN base ELSE op[<<F[s \ {Max(s)}], f[Max(s)]>>]

\* The first numbers, in order.
LEMMA UpTo ==
    ASSUME NEW n \in Nat, NEW k \in Nat, k + 1 <= n
    PROVE  /\ 1 .. k + 1 \in SUBSET (1 .. n) /\ 1 .. k + 1 # {}
           /\ Max(1 .. k + 1) = k + 1 /\ (1 .. k + 1) \ {k + 1} = 1 .. k
<1>1. PICK s : s = 1 .. k + 1
  OBVIOUS
<1>2. s \in SUBSET (1 .. n) /\ s \in SUBSET (1 .. k + 1) /\ s # {} /\ k + 1 \in s /\ k + 1 \in Nat
  BY <1>1
<1>3. Max(s) \in s /\ k + 1 <= Max(s)
  BY <1>2, MaxIs
<1>4. Max(s) = k + 1 /\ s \ {k + 1} = 1 .. k
  BY <1>1, <1>3
<1> QED
  BY <1>1, <1>2, <1>4

\* There is such a function.
LEMMA InOrderExists ==
    ASSUME NEW X, NEW E, NEW op \in [X \X E -> X], NEW base \in X, NEW n \in Nat, NEW f \in [1 .. n -> E]
    PROVE  \E F \in [SUBSET (1 .. n) -> X] : InOrder(F, op, base, f, n)
<1> DEFINE P(k) == k <= n => \E F \in [SUBSET (1 .. k) -> X] : InOrder(F, op, base, f, k)
           T == {k \in Nat : P(k)}
<1>1. P(0)
  <2> DEFINE F == [s \in SUBSET (1 .. 0) |-> base]
  <2>1. F \in [SUBSET (1 .. 0) -> X] /\ \A s \in SUBSET (1 .. 0) : s = {} /\ F[s] = base
    OBVIOUS
  <2> HIDE DEF F
  <2>2. InOrder(F, op, base, f, 0)
    BY <2>1 DEF InOrder
  <2> QED
    BY <2>1, <2>2
<1>2. ASSUME NEW k \in Nat, P(k) PROVE P(k + 1)
  <2> SUFFICES ASSUME k + 1 <= n
               PROVE  \E F \in [SUBSET (1 .. k + 1) -> X] : InOrder(F, op, base, f, k + 1)
    OBVIOUS
  <2>0. k <= n
    OBVIOUS
  <2>1. PICK F \in [SUBSET (1 .. k) -> X] : InOrder(F, op, base, f, k)
    BY <1>2, <2>0
  <2> DEFINE G == [s \in SUBSET (1 .. k + 1) |->
                     IF k + 1 \in s THEN op[<<F[s \ {k + 1}], f[k + 1]>>] ELSE F[s]]
  <2>2. \A s \in SUBSET (1 .. k + 1) : s \ {k + 1} \in SUBSET (1 .. k) /\ (k + 1 \notin s => s \in SUBSET (1 .. k))
    OBVIOUS
  <2>3. f[k + 1] \in E
    OBVIOUS
  <2>4. \A s \in SUBSET (1 .. k + 1) : G[s] \in X
    BY <2>2, <2>3
  <2>5. G \in [SUBSET (1 .. k + 1) -> X]
    BY <2>4
  <2>6. ASSUME NEW s \in SUBSET (1 .. k + 1)
        PROVE  G[s] = IF s = {} THEN base ELSE op[<<G[s \ {Max(s)}], f[Max(s)]>>]
    <3>1. CASE k + 1 \in s
      <4>0. PICK m : m = Max(s)
        OBVIOUS
      <4>1. m \in s /\ k + 1 <= m
        <5>1. k + 1 \in Nat /\ s # {}
          BY <3>1
        <5>2. Max(s) \in s /\ \A i \in s : i <= Max(s)
          BY <5>1, MaxIs
        <5> QED
          BY <3>1, <4>0, <5>2
      <4>2. Max(s) = k + 1
        BY <4>0, <4>1
      <4>3. G[s \ {k + 1}] = F[s \ {k + 1}] /\ G[s] = op[<<F[s \ {k + 1}], f[k + 1]>>]
        BY <3>1
      <4> QED
        BY <3>1, <4>2, <4>3
    <3>2. CASE k + 1 \notin s
      <4>1. s \in SUBSET (1 .. k) /\ G[s] = F[s]
        BY <2>2, <3>2
      <4>2. s # {} => Max(s) \in s
        BY <4>1, MaxIs
      <4>3. s # {} => s \ {Max(s)} \in SUBSET (1 .. k + 1) /\ k + 1 \notin s \ {Max(s)}
        BY <3>2, <4>1
      <4>4. s # {} => G[s \ {Max(s)}] = F[s \ {Max(s)}]
        BY <4>3
      <4> HIDE DEF G
      <4> QED
        BY <2>1, <4>1, <4>4 DEF InOrder
    <3> QED
      BY <3>1, <3>2
  <2> HIDE DEF G
  <2>7. InOrder(G, op, base, f, k + 1)
    BY <2>6 DEF InOrder
  <2> QED
    BY <2>5, <2>7
<1>3. P(n)
  <2> HIDE DEF P
  <2>1. T \subseteq Nat /\ 0 \in T /\ \A k \in T : k + 1 \in T
    BY <1>1, <1>2
  <2>2. T = Nat
    <3> HIDE DEF T
    <3> QED
      BY <2>1, Induction
  <2> QED
    BY <2>2
<1>4. n <= n
  OBVIOUS
<1> QED
  BY <1>3, <1>4

\* The same of a fold about which we only know what it does to arguments in X.
InOrderOn(X, F, op, base, f, n) ==
    /\ F[{}] = base
    /\ \A s \in SUBSET (1 .. n) :
          s # {} /\ F[s \ {Max(s)}] \in X => F[s] = op[<<F[s \ {Max(s)}], f[Max(s)]>>]

\* A fold gets to the end of its history.
LEMMA InOrderEnds ==
    ASSUME NEW X, NEW op, NEW base, NEW f, NEW n \in Nat, NEW F, InOrderOn(X, F, op, base, f, n),
           NEW h \in [0 .. n -> X], History(h, op, base, f, n)
    PROVE  \A i \in 0 .. n : F[1 .. i] = h[i]
<1> DEFINE P(k) == k <= n => F[1 .. k] = h[k]
           T == {k \in Nat : P(k)}
<1>1. P(0)
  <2>1. 1 .. 0 = {} /\ {} \in SUBSET (1 .. n)
    OBVIOUS
  <2> QED
    BY <2>1 DEF History, InOrderOn
<1>2. ASSUME NEW k \in Nat, P(k) PROVE P(k + 1)
  <2> SUFFICES ASSUME k + 1 <= n PROVE F[1 .. k + 1] = h[k + 1]
    OBVIOUS
  <2>1. PICK s : s = 1 .. k + 1
    OBVIOUS
  <2>2. s \in SUBSET (1 .. n) /\ s # {} /\ Max(s) = k + 1 /\ s \ {k + 1} = 1 .. k
    BY <2>1, UpTo
  <2>3. F[1 .. k] = h[k] /\ k + 1 \in 1 .. n /\ k + 1 - 1 = k /\ k \in 0 .. n
    BY <1>2
  <2>4. F[s] = op[<<F[1 .. k], f[k + 1]>>]
    BY <2>2, <2>3 DEF InOrderOn
  <2>5. h[k + 1] = op[<<h[k], f[k + 1]>>]
    BY <2>3 DEF History
  <2> QED
    BY <2>1, <2>3, <2>4, <2>5
<1>3. \A k \in Nat : P(k)
  <2> HIDE DEF P
  <2>1. T \subseteq Nat /\ 0 \in T /\ \A k \in T : k + 1 \in T
    BY <1>1, <1>2
  <2>2. T = Nat
    <3> HIDE DEF T
    <3> QED
      BY <2>1, Induction
  <2> QED
    BY <2>2
<1> SUFFICES ASSUME NEW i \in 0 .. n PROVE F[1 .. i] = h[i]
  OBVIOUS
<1>4. i \in Nat /\ i <= n
  OBVIOUS
<1> QED
  BY <1>3, <1>4

\* Every fold has a history.
LEMMA HistoryExists ==
    ASSUME NEW X, NEW E, NEW op \in [X \X E -> X], NEW base \in X, NEW n \in Nat, NEW f \in [1 .. n -> E]
    PROVE  \E h \in [0 .. n -> X] : History(h, op, base, f, n)
<1>1. PICK F \in [SUBSET (1 .. n) -> X] : InOrder(F, op, base, f, n)
  BY InOrderExists
<1> DEFINE h == [i \in 0 .. n |-> F[1 .. i]]
<1>2. \A i \in 0 .. n : 1 .. i \in SUBSET (1 .. n)
  OBVIOUS
<1>3. h \in [0 .. n -> X]
  BY <1>2
<1>4. 1 .. 0 = {} /\ {} \in SUBSET (1 .. n)
  OBVIOUS
<1>5. h[0] = base
  <2>1. F[{}] = base
    BY <1>1, <1>4 DEF InOrder
  <2>2. h[0] = F[1 .. 0]
    OBVIOUS
  <2> QED
    BY <1>4, <2>1, <2>2
<1>6. ASSUME NEW i \in 1 .. n PROVE h[i] = op[<<h[i - 1], f[i]>>]
  <2>1. PICK s : s = 1 .. i
    OBVIOUS
  <2>2. i - 1 \in Nat /\ i - 1 + 1 = i /\ i <= n
    OBVIOUS
  <2>3. s \in SUBSET (1 .. n) /\ s # {} /\ Max(s) = i /\ s \ {i} = 1 .. i - 1
    BY <2>1, <2>2, UpTo
  <2>4. F[s] = op[<<F[1 .. i - 1], f[i]>>]
    BY <1>1, <2>3 DEF InOrder
  <2>5. h[i] = F[s] /\ h[i - 1] = F[1 .. i - 1]
    BY <2>1
  <2> QED
    BY <2>4, <2>5
<1> HIDE DEF h
<1>7. History(h, op, base, f, n)
  BY <1>5, <1>6 DEF History
<1> QED
  BY <1>3, <1>7
=============================================================================
