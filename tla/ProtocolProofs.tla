--------------------------- MODULE ProtocolProofs ---------------------------
(***************************************************************************)
(* Proofs about the codec of module Protocol, for any width of a group,    *)
(* any number of groups and any word, so also for the 7 bits, 5 bytes and  *)
(* 32 bits of the code: what is written is read back, whatever stands      *)
(* behind it, a handshake that was read is sent on as it was read, and a   *)
(* host name finds the pack that it names.                                 *)
(*                                                                         *)
(* The recursive functions of the model are dealt with by induction over   *)
(* sets of numbers (module Counting): first that they exist, then what     *)
(* they compute.                                                           *)
(***************************************************************************)
EXTENDS Protocol, Counting, SequenceTheorems

----------------------------------------------------------------------------
\* Arithmetic

\* Quotient and remainder.
LEMMA DivMod ==
    ASSUME NEW u \in Nat, NEW w \in Nat, w > 0
    PROVE  \E q, r \in Nat : q = u \div w /\ r = u % w /\ r < w /\ u = w * q + r
<1>1. u \div w \in Int /\ u % w \in Nat /\ u % w < w
  OBVIOUS
<1>2. u \div w >= 0
  OBVIOUS
<1>3. u - (u % w) = w * (u \div w)
  OBVIOUS
<1>4. PICK q, r : q = u \div w /\ r = u % w
  OBVIOUS
<1>5. q \in Nat /\ r \in Nat /\ r < w /\ u - r = w * q
  BY <1>1, <1>2, <1>3, <1>4
<1>6. u = w * q + r
  BY <1>5
<1> QED
  BY <1>4, <1>5, <1>6

\* The remainder is the only number below n that is left.
LEMMA ModIs ==
    ASSUME NEW n \in Nat, NEW e \in Nat, NEW m \in Nat, m < n
    PROVE  (n * e + m) % n = m
<1> DEFINE u == n * e + m
<1>1. u \in Nat
  OBVIOUS
<1> HIDE DEF u
<1>2. PICK q, r \in Nat : q = u \div n /\ r = u % n /\ r < n /\ u = n * q + r
  BY <1>1, DivMod
<1>3. n * (e - q) = r - m
  BY <1>2 DEF u
<1>4. CASE e - q >= 1
  <2>1. n * (e - q) >= n
    BY <1>4
  <2> QED
    BY <1>2, <1>3, <2>1
<1>5. CASE e - q <= -1
  <2>1. n * (e - q) <= -n
    BY <1>5
  <2> QED
    BY <1>2, <1>3, <2>1
<1>6. CASE e = q
  BY <1>2, <1>3, <1>6 DEF u
<1> QED
  BY <1>4, <1>5, <1>6

\* One more digit of a remainder.
LEMMA NextDigit ==
    ASSUME NEW u \in Nat, NEW w \in Nat, NEW b \in Nat, w > 0, b > 0
    PROVE  u % (b * w) = (u % w) + ((u \div w) % b) * w
<1>1. PICK q, r \in Nat : q = u \div w /\ r = u % w /\ r < w /\ u = w * q + r
  BY DivMod
<1>2. PICK e, d \in Nat : e = q \div b /\ d = q % b /\ d < b /\ q = b * e + d
  BY DivMod
<1>3. u = (b * w) * e + (d * w + r)
  <2>1. w * q = w * (b * e) + w * d
    BY <1>2
  <2>2. w * (b * e) = (b * w) * e /\ w * d = d * w
    OBVIOUS
  <2> QED
    BY <1>1, <2>1, <2>2
<1>4. d * w + r < b * w
  <2>1. (d + 1) * w <= b * w
    BY <1>2
  <2>2. (d + 1) * w = d * w + w
    OBVIOUS
  <2> QED
    BY <1>1, <2>1, <2>2
<1>5. ((b * w) * e + (d * w + r)) % (b * w) = d * w + r
  <2> DEFINE n == b * w
             m == d * w + r
  <2>1. n \in Nat /\ m \in Nat /\ m < n
    BY <1>4
  <2> HIDE DEF n, m
  <2>2. (n * e + m) % n = m
    BY <2>1, ModIs
  <2> QED
    BY <2>2 DEF n, m
<1> QED
  BY <1>1, <1>2, <1>3, <1>5

----------------------------------------------------------------------------
\* The value of a code

\* The recursion of Weight is well founded.
LEMMA WeightIs ==
    \A i \in 0 .. MaxGroups :
        Weight[i] \in Nat /\ Weight[i] > 0 /\ Weight[i] = IF i = 0 THEN 1 ELSE Base * Weight[i - 1]
<1>0. Base \in Nat /\ Base > 0 /\ MaxGroups \in Nat
  BY ProtocolAssumption
<1> DEFINE Fits(f, n) == \A i \in 0 .. n : f[i] = IF i = 0 THEN 1 ELSE Base * f[i - 1]
           T == {n \in Nat : \E f \in [0 .. n -> Nat \ {0}] : Fits(f, n)}
<1>1. 0 \in T
  <2> DEFINE f == [i \in 0 .. 0 |-> 1]
  <2>1. f \in [0 .. 0 -> Nat \ {0}] /\ Fits(f, 0)
    OBVIOUS
  <2> HIDE DEF f
  <2> QED
    BY <2>1
<1>2. ASSUME NEW n \in T PROVE n + 1 \in T
  <2>1. PICK f \in [0 .. n -> Nat \ {0}] : Fits(f, n)
    BY <1>2
  <2> DEFINE g == [i \in 0 .. n + 1 |-> IF i <= n THEN f[i] ELSE Base * f[n]]
  <2>2. g \in [0 .. n + 1 -> Nat \ {0}]
    BY <1>0
  <2>3. Fits(g, n + 1)
    BY <2>1
  <2> HIDE DEF g
  <2>4. \E h \in [0 .. n + 1 -> Nat \ {0}] : Fits(h, n + 1)
    <3> HIDE DEF Fits
    <3> QED
      BY <2>2, <2>3
  <2>5. n + 1 \in Nat
    OBVIOUS
  <2> QED
    <3> HIDE DEF Fits
    <3> QED
      BY <2>4, <2>5
<1>3. MaxGroups \in T
  <2>1. T \subseteq Nat
    OBVIOUS
  <2> HIDE DEF T
  <2> QED
    BY <1>0, <1>1, <1>2, <2>1, Induction
<1>4. PICK f \in [0 .. MaxGroups -> Nat \ {0}] : Fits(f, MaxGroups)
  BY <1>3
<1>5. f = [i \in 0 .. MaxGroups |-> IF i = 0 THEN 1 ELSE Base * f[i - 1]]
  BY <1>4
<1>6. Weight = [i \in 0 .. MaxGroups |-> IF i = 0 THEN 1 ELSE Base * Weight[i - 1]]
  <2> HIDE DEF Fits, T
  <2> QED
    BY <1>5 DEF Weight
<1> DEFINE U == {n \in Nat : n <= MaxGroups => Weight[n] \in Nat /\ Weight[n] > 0}
<1>7. 0 \in U
  BY <1>0, <1>6
<1>8. ASSUME NEW n \in U PROVE n + 1 \in U
  <2> SUFFICES ASSUME n + 1 <= MaxGroups PROVE Weight[n + 1] \in Nat /\ Weight[n + 1] > 0
    OBVIOUS
  <2>1. Weight[n + 1] = Base * Weight[n] /\ Weight[n] \in Nat /\ Weight[n] > 0
    BY <1>0, <1>6
  <2> QED
    BY <1>0, <2>1
<1>9. U = Nat
  <2>1. U \subseteq Nat
    OBVIOUS
  <2> HIDE DEF U
  <2> QED
    BY <1>7, <1>8, <2>1, Induction
<1>10. ASSUME NEW i \in 0 .. MaxGroups PROVE Weight[i] \in Nat /\ Weight[i] > 0
  BY <1>0, <1>9
<1>11. ASSUME NEW i \in 0 .. MaxGroups PROVE Weight[i] = IF i = 0 THEN 1 ELSE Base * Weight[i - 1]
  BY <1>6
<1> QED
  BY <1>10, <1>11

\* What the groups of a code add up to.
Digits(s, k) == [i \in 1 .. k |-> (s[i] % Base) * Weight[i - 1]]

\* Digits are numbers.
LEMMA DigitsAre ==
    ASSUME NEW k \in 0 .. MaxGroups, NEW s, \A i \in 1 .. k : s[i] \in Nat
    PROVE  Digits(s, k) \in [1 .. k -> Nat]
<1> SUFFICES ASSUME NEW i \in 1 .. k PROVE (s[i] % Base) * Weight[i - 1] \in Nat
  BY DEF Digits
<1>1. i - 1 \in 0 .. MaxGroups /\ Base \in Nat /\ Base > 0
  BY ProtocolAssumption
<1>2. s[i] % Base \in Nat
  BY <1>1
<1>3. Weight[i - 1] \in Nat
  BY <1>1, WeightIs
<1> QED
  BY <1>2, <1>3

\* Value is the last running sum of the digits.
LEMMA ValueIs ==
    ASSUME NEW k \in 0 .. MaxGroups, NEW s, \A i \in 1 .. k : s[i] \in Nat
    PROVE  /\ Value(s, k) \in Nat
           /\ \A f : RunningSums(f, k, Digits(s, k)) => Value(s, k) = f[k]
<1> DEFINE v == CHOOSE v : v = [i \in 0 .. k |-> IF i = 0 THEN 0 ELSE v[i - 1] + (s[i] % Base) * Weight[i - 1]]
<1>1. Value(s, k) = v[k]
  BY DEF Value
<1>2. k \in Nat /\ Digits(s, k) \in [1 .. k -> Nat]
  BY DigitsAre, ProtocolAssumption
<1>3. PICK g \in [0 .. k -> Nat] : RunningSums(g, k, Digits(s, k))
  BY <1>2, SumsExist
<1>4. g = [i \in 0 .. k |-> IF i = 0 THEN 0 ELSE g[i - 1] + (s[i] % Base) * Weight[i - 1]]
  <2>1. \A i \in 0 .. k : i # 0 => Digits(s, k)[i] = (s[i] % Base) * Weight[i - 1]
    BY <1>2 DEF Digits
  <2>2. \A i \in 0 .. k : g[i] = IF i = 0 THEN 0 ELSE g[i - 1] + (s[i] % Base) * Weight[i - 1]
    BY <1>3, <2>1 DEF RunningSums
  <2> QED
    BY <2>2
<1>5. v = [i \in 0 .. k |-> IF i = 0 THEN 0 ELSE v[i - 1] + (s[i] % Base) * Weight[i - 1]]
  BY <1>4
<1> HIDE DEF v
<1>6. RunningSums(v, k, Digits(s, k))
  BY <1>5 DEF Digits, RunningSums
<1>7. \A f : RunningSums(f, k, Digits(s, k)) => \A i \in 0 .. k : v[i] = f[i]
  BY <1>2, <1>6, SumsUnique
<1> QED
  BY <1>1, <1>2, <1>3, <1>7

\* Value looks at the first k bytes only.
LEMMA ValueOfPrefix ==
    ASSUME NEW k \in 0 .. MaxGroups, NEW s, NEW t,
           \A i \in 1 .. k : s[i] \in Nat /\ t[i] = s[i]
    PROVE  Value(s, k) = Value(t, k)
<1>1. Digits(s, k) = Digits(t, k)
  BY DEF Digits
<1>2. k \in Nat /\ Digits(s, k) \in [1 .. k -> Nat]
  BY DigitsAre, ProtocolAssumption
<1>3. PICK f \in [0 .. k -> Nat] : RunningSums(f, k, Digits(s, k))
  BY <1>2, SumsExist
<1>4. Value(s, k) = f[k]
  BY <1>3, ValueIs
<1>5. Value(t, k) = f[k]
  BY <1>1, <1>3, ValueIs
<1> QED
  BY <1>4, <1>5

\* k groups with the digits of a number stand for that number, if it has no more.
LEMMA ValueOfDigits ==
    ASSUME NEW u \in Nat, NEW k \in 1 .. MaxGroups, u < Weight[k], NEW s,
           \A i \in 1 .. k : s[i] \in Nat /\ s[i] % Base = (u \div Weight[i - 1]) % Base
    PROVE  Value(s, k) = u
<1> DEFINE f == [i \in 0 .. k |-> u % Weight[i]]
<1>0. k \in 0 .. MaxGroups /\ k \in Nat /\ Base \in Nat /\ Base > 0 /\ MaxGroups \in Nat
  BY ProtocolAssumption
<1>1. f[0] = 0
  <2>1. Weight[0] = 1
    BY <1>0, WeightIs
  <2> QED
    BY <1>0, <2>1
<1>2. ASSUME NEW i \in 1 .. k PROVE f[i] = f[i - 1] + Digits(s, k)[i]
  <2> DEFINE w == Weight[i - 1]
  <2>1. i \in 0 .. MaxGroups /\ i - 1 \in 0 .. MaxGroups /\ i # 0 /\ i \in 0 .. k /\ i - 1 \in 0 .. k
    BY <1>0
  <2>2. w \in Nat /\ w > 0 /\ Weight[i] = Base * w
    BY <2>1, WeightIs
  <2>3. f[i] = u % (Base * w) /\ f[i - 1] = u % w
    BY <2>1, <2>2
  <2>4. Digits(s, k)[i] = ((u \div w) % Base) * w
    BY <1>2 DEF Digits
  <2> HIDE DEF w, f
  <2>5. u % (Base * w) = (u % w) + ((u \div w) % Base) * w
    BY <1>0, <2>2, NextDigit
  <2> QED
    BY <2>3, <2>4, <2>5
<1>3. RunningSums(f, k, Digits(s, k))
  <2> HIDE DEF f
  <2> QED
    BY <1>0, <1>1, <1>2 DEF RunningSums
<1>4. Value(s, k) = f[k]
  <2> HIDE DEF f
  <2> QED
    BY <1>0, <1>3, ValueIs
<1>5. f[k] = u
  <2>1. f[k] = u % Weight[k] /\ Weight[k] \in Nat
    BY <1>0, WeightIs
  <2>2. (Weight[k] * 0 + u) % Weight[k] = u
    BY <2>1, ModIs
  <2>3. Weight[k] * 0 + u = u
    BY <2>1
  <2> QED
    BY <2>1, <2>2, <2>3
<1> QED
  BY <1>4, <1>5

----------------------------------------------------------------------------
\* Readers take a beginning of what they are given

\* Functions of an interval are sequences; so are single bytes.
LEMMA BytesAre ==
    /\ \A n \in Nat : \A f \in [1 .. n -> Bytes] : f \in Seq(Bytes) /\ Len(f) = n
    /\ \A b \in Bytes : <<b>> \in Seq(Bytes) /\ Len(<<b>>) = 1
<1>1. \A n \in Nat : \A f \in [1 .. n -> Bytes] : f \in Seq(Bytes) /\ Len(f) = n
  OBVIOUS
<1>2. \A b \in Bytes : <<b>> \in Seq(Bytes) /\ Len(<<b>>) = 1
  OBVIOUS
<1> QED
  BY <1>1, <1>2

\* What is behind the first k bytes, and what they are.
LEMMA Cut ==
    ASSUME NEW s \in Seq(Bytes), NEW k \in 0 .. Len(s)
    PROVE  /\ SubSeq(s, k + 1, Len(s)) \in Seq(Bytes)
           /\ Len(SubSeq(s, k + 1, Len(s))) = Len(s) - k
           /\ \A i \in 1 .. Len(s) - k : SubSeq(s, k + 1, Len(s))[i] = s[k + i]
           /\ SubSeq(s, 1, k) \in Seq(Bytes) /\ Len(SubSeq(s, 1, k)) = k
           /\ \A i \in 1 .. k : SubSeq(s, 1, k)[i] = s[i]
<1>1. Len(s) \in Nat /\ \A i \in 1 .. Len(s) : s[i] \in Bytes
  BY LenProperties, ElementOfSeq
<1>2. \A i \in k + 1 .. Len(s) : s[i] \in Bytes
  BY <1>1
<1>3. \A i \in 1 .. k : s[i] \in Bytes
  BY <1>1
<1>4. /\ SubSeq(s, k + 1, Len(s)) \in Seq(Bytes)
      /\ Len(SubSeq(s, k + 1, Len(s))) = IF k + 1 <= Len(s) THEN Len(s) - (k + 1) + 1 ELSE 0
      /\ \A i \in 1 .. Len(s) - (k + 1) + 1 : SubSeq(s, k + 1, Len(s))[i] = s[(k + 1) + i - 1]
  BY <1>1, <1>2, SubSeqProperties
<1>5. /\ SubSeq(s, 1, k) \in Seq(Bytes)
      /\ Len(SubSeq(s, 1, k)) = IF 1 <= k THEN k - 1 + 1 ELSE 0
      /\ \A i \in 1 .. k - 1 + 1 : SubSeq(s, 1, k)[i] = s[1 + i - 1]
  BY <1>1, <1>3, SubSeqProperties
<1>6. /\ SubSeq(s, k + 1, Len(s)) \in Seq(Bytes)
      /\ Len(SubSeq(s, k + 1, Len(s))) = Len(s) - k
  BY <1>1, <1>4
<1>7. ASSUME NEW i \in 1 .. Len(s) - k PROVE SubSeq(s, k + 1, Len(s))[i] = s[k + i]
  <2>1. i \in 1 .. Len(s) - (k + 1) + 1 /\ (k + 1) + i - 1 = k + i
    BY <1>1
  <2> QED
    BY <1>4, <2>1
<1>8. SubSeq(s, 1, k) \in Seq(Bytes) /\ Len(SubSeq(s, 1, k)) = k
  BY <1>1, <1>5
<1>9. ASSUME NEW i \in 1 .. k PROVE SubSeq(s, 1, k)[i] = s[i]
  <2>1. i \in 1 .. k - 1 + 1 /\ 1 + i - 1 = i
    BY <1>1
  <2> QED
    BY <1>5, <2>1
<1> QED
  BY <1>6, <1>7, <1>8, <1>9

\* The same when more bytes follow.
LEMMA CutMore ==
    ASSUME NEW s \in Seq(Bytes), NEW t \in Seq(Bytes), NEW k \in 0 .. Len(s)
    PROVE  /\ s \o t \in Seq(Bytes) /\ Len(s \o t) = Len(s) + Len(t)
           /\ \A i \in 1 .. Len(s) : (s \o t)[i] = s[i]
           /\ SubSeq(s \o t, k + 1, Len(s \o t)) = SubSeq(s, k + 1, Len(s)) \o t
           /\ SubSeq(s \o t, 1, k) = SubSeq(s, 1, k)
<1> DEFINE u == s \o t
           a == SubSeq(u, k + 1, Len(u))
           r == SubSeq(s, k + 1, Len(s))
           c == SubSeq(u, 1, k)
           d == SubSeq(s, 1, k)
<1>0. Len(s) \in Nat /\ Len(t) \in Nat
  BY LenProperties
<1>1. /\ u \in Seq(Bytes) /\ Len(u) = Len(s) + Len(t)
      /\ \A i \in 1 .. Len(s) + Len(t) : u[i] = IF i <= Len(s) THEN s[i] ELSE t[i - Len(s)]
  BY ConcatProperties
<1>2. k \in 0 .. Len(u)
  BY <1>0, <1>1
<1> HIDE DEF u
<1>3. /\ a \in Seq(Bytes) /\ Len(a) = Len(u) - k /\ \A i \in 1 .. Len(u) - k : a[i] = u[k + i]
      /\ c \in Seq(Bytes) /\ Len(c) = k /\ \A i \in 1 .. k : c[i] = u[i]
  BY <1>1, <1>2, Cut
<1>4. /\ r \in Seq(Bytes) /\ Len(r) = Len(s) - k /\ \A i \in 1 .. Len(s) - k : r[i] = s[k + i]
      /\ d \in Seq(Bytes) /\ Len(d) = k /\ \A i \in 1 .. k : d[i] = s[i]
  BY Cut
<1> HIDE DEF a, r, c, d
<1>5. /\ r \o t \in Seq(Bytes) /\ Len(r \o t) = Len(r) + Len(t)
      /\ \A i \in 1 .. Len(r) + Len(t) : (r \o t)[i] = IF i <= Len(r) THEN r[i] ELSE t[i - Len(r)]
  BY <1>4, ConcatProperties
<1>6. a = r \o t
  <2>1. Len(a) = Len(r \o t)
    BY <1>0, <1>1, <1>3, <1>4, <1>5
  <2>2. ASSUME NEW i \in 1 .. Len(a) PROVE a[i] = (r \o t)[i]
    <3>1. CASE i <= Len(s) - k
      BY <1>0, <1>1, <1>3, <1>4, <1>5, <3>1
    <3>2. CASE i > Len(s) - k
      <4>1. a[i] = u[k + i] /\ k + i \in 1 .. Len(s) + Len(t) /\ ~(k + i <= Len(s))
        BY <1>0, <1>1, <1>3, <3>2
      <4>2. a[i] = t[(k + i) - Len(s)]
        BY <1>1, <4>1
      <4>3. (r \o t)[i] = t[i - (Len(s) - k)]
        BY <1>0, <1>1, <1>3, <1>4, <1>5, <3>2
      <4>4. (k + i) - Len(s) = i - (Len(s) - k)
        BY <1>0, <1>3
      <4> QED
        BY <4>2, <4>3, <4>4
    <3>3. i <= Len(s) - k \/ i > Len(s) - k
      BY <1>0, <1>1, <1>3
    <3> QED
      BY <3>1, <3>2, <3>3
  <2> QED
    BY <1>3, <1>5, <2>1, <2>2, SeqEqual
<1>7. c = d
  <2>1. ASSUME NEW i \in 1 .. k PROVE c[i] = d[i]
    <3>1. i \in 1 .. Len(s) + Len(t) /\ i <= Len(s)
      BY <1>0
    <3> QED
      BY <1>1, <1>3, <1>4, <3>1
  <2> QED
    BY <1>3, <1>4, <2>1, SeqEqual
<1>8. \A i \in 1 .. Len(s) : u[i] = s[i]
  BY <1>0, <1>1
<1> QED
  BY <1>1, <1>6, <1>7, <1>8 DEF a, r, c, d, u

\* Bytes that are all followed, taken away from the front of what follows them.
LEMMA CutAll ==
    ASSUME NEW s \in Seq(Bytes), NEW t \in Seq(Bytes)
    PROVE  /\ SubSeq(s \o t, Len(s) + 1, Len(s \o t)) = t
           /\ SubSeq(s \o t, 1, Len(s)) = s
<1>1. Len(s) \in Nat /\ Len(s) \in 0 .. Len(s)
  BY LenProperties
<1>2. /\ SubSeq(s \o t, Len(s) + 1, Len(s \o t)) = SubSeq(s, Len(s) + 1, Len(s)) \o t
      /\ SubSeq(s \o t, 1, Len(s)) = SubSeq(s, 1, Len(s))
  BY <1>1, CutMore
<1>3. SubSeq(s, Len(s) + 1, Len(s)) = <<>>
  BY <1>1, SubSeqEmpty
<1>4. <<>> \o t = t
  BY ConcatEmptySeq
<1>5. SubSeq(s, 1, Len(s)) = s
  BY SubSeqFull
<1> QED
  BY <1>2, <1>3, <1>4, <1>5

\* r is what is left of s when some of its bytes are taken.
EndOf(r, s) == \E k \in 0 .. Len(s) : r = SubSeq(s, k + 1, Len(s))

\* How many bytes were taken.
LEMMA EndOfIs ==
    ASSUME NEW s \in Seq(Bytes), NEW r, EndOf(r, s)
    PROVE  /\ r \in Seq(Bytes) /\ Len(r) <= Len(s) /\ Len(s) - Len(r) \in 0 .. Len(s)
           /\ r = SubSeq(s, Len(s) - Len(r) + 1, Len(s))
<1>1. PICK k \in 0 .. Len(s) : r = SubSeq(s, k + 1, Len(s))
  BY DEF EndOf
<1>2. r \in Seq(Bytes) /\ Len(r) = Len(s) - k
  BY <1>1, Cut
<1>3. Len(s) \in Nat
  BY LenProperties
<1>4. Len(s) - Len(r) = k /\ Len(r) <= Len(s)
  BY <1>2, <1>3
<1> QED
  BY <1>1, <1>2, <1>4

\* What is left of what is left.
LEMMA EndOfEnd ==
    ASSUME NEW s \in Seq(Bytes), NEW r, NEW q, EndOf(r, s), EndOf(q, r)
    PROVE  EndOf(q, s)
<1>1. PICK k \in 0 .. Len(s) : r = SubSeq(s, k + 1, Len(s))
  BY DEF EndOf
<1>2. r \in Seq(Bytes) /\ Len(r) = Len(s) - k /\ \A i \in 1 .. Len(s) - k : r[i] = s[k + i]
  BY <1>1, Cut
<1>3. PICK m \in 0 .. Len(r) : q = SubSeq(r, m + 1, Len(r))
  BY DEF EndOf
<1>4. q \in Seq(Bytes) /\ Len(q) = Len(r) - m /\ \A i \in 1 .. Len(r) - m : q[i] = r[m + i]
  BY <1>2, <1>3, Cut
<1>5. Len(s) \in Nat
  BY LenProperties
<1>6. PICK n : n = k + m
  OBVIOUS
<1>7. n \in 0 .. Len(s) /\ Len(s) - n = Len(q) /\ Len(q) \in Nat
  BY <1>2, <1>4, <1>5, <1>6
<1>8. PICK p : p = SubSeq(s, n + 1, Len(s))
  OBVIOUS
<1>9. p \in Seq(Bytes) /\ Len(p) = Len(s) - n /\ \A i \in 1 .. Len(s) - n : p[i] = s[n + i]
  BY <1>7, <1>8, Cut
<1>10. ASSUME NEW i \in 1 .. Len(q) PROVE q[i] = p[i]
  <2>1. q[i] = r[m + i] /\ m + i \in 1 .. Len(s) - k
    BY <1>2, <1>4, <1>5, <1>7
  <2>2. r[m + i] = s[k + (m + i)]
    BY <1>2, <2>1
  <2>3. p[i] = s[n + i]
    BY <1>7, <1>9
  <2>4. k + (m + i) = n + i
    BY <1>2, <1>5, <1>6, <1>7
  <2> QED
    BY <2>1, <2>2, <2>3, <2>4
<1>11. q = p
  BY <1>4, <1>7, <1>9, <1>10, SeqEqual
<1> QED
  BY <1>7, <1>8, <1>11 DEF EndOf

\* The parts of a result.
LEMMA ResultIs ==
    ASSUME NEW st, NEW val, NEW rest
    PROVE  /\ Result(st, val, rest).st = st /\ Result(st, val, rest).val = val
           /\ Result(st, val, rest).rest = rest
  BY DEF Result

\* The first byte of s without a continuation bit, if the code is not too long.
FirstEnd(s, k) ==
    /\ k \in 1 .. MaxGroups /\ k <= Len(s)
    /\ s[k] < Base /\ \A i \in 1 .. k - 1 : ~(s[i] < Base)

\* ReadVarInt reads up to the first byte without a continuation bit, ...
LEMMA ReadsToEnd ==
    ASSUME NEW s \in Seq(Bytes), NEW k, FirstEnd(s, k)
    PROVE  ReadVarInt(s) = Result("ok", Value(s, k), SubSeq(s, k + 1, Len(s)))
<1> DEFINE ends == {i \in DOMAIN s : i <= MaxGroups /\ s[i] < Base}
<1>0. MaxGroups \in Nat /\ Len(s) \in Nat /\ DOMAIN s = 1 .. Len(s) /\ k \in Nat
  BY ProtocolAssumption, LenProperties DEF FirstEnd
<1>1. k \in ends
  BY <1>0 DEF FirstEnd
<1>2. \A i \in ends : ~(i < k)
  BY <1>0 DEF FirstEnd
<1>3. Min(ends) \in ends /\ \A i \in ends : Min(ends) <= i
  <2>1. ends \subseteq Nat /\ ends # {}
    BY <1>0, <1>1
  <2> HIDE DEF ends
  <2> QED
    BY <2>1, MinIs
<1>4. Min(ends) = k
  <2>1. Min(ends) <= k /\ ~(Min(ends) < k) /\ Min(ends) \in Nat
    BY <1>0, <1>1, <1>2, <1>3
  <2> HIDE DEF ends
  <2> QED
    BY <1>0, <2>1
<1>5. ends # {}
  BY <1>1
<1>6. ReadVarInt(s) = IF ends = {} THEN Result(IF Len(s) < MaxGroups THEN "more" ELSE "bad", 0, <<>>)
                      ELSE Result("ok", Value(s, Min(ends)), SubSeq(s, Min(ends) + 1, Len(s)))
  BY DEF ReadVarInt
<1> HIDE DEF ends
<1> QED
  BY <1>4, <1>5, <1>6

\* ... and succeeds only when there is one.
LEMMA ReadsIfEnd ==
    ASSUME NEW s \in Seq(Bytes), ReadVarInt(s).st = "ok"
    PROVE  \E k : FirstEnd(s, k)
<1> DEFINE ends == {i \in DOMAIN s : i <= MaxGroups /\ s[i] < Base}
<1>0. MaxGroups \in Nat /\ Len(s) \in Nat /\ DOMAIN s = 1 .. Len(s)
  BY ProtocolAssumption, LenProperties
<1>1. ends # {}
  <2>1. SUFFICES ASSUME ends = {} PROVE FALSE
    OBVIOUS
  <2>2. ReadVarInt(s) = Result(IF Len(s) < MaxGroups THEN "more" ELSE "bad", 0, <<>>)
    BY <2>1 DEF ReadVarInt
  <2>3. ReadVarInt(s).st # "ok"
    BY <2>2 DEF Result
  <2> QED
    BY <2>3
<1>2. Min(ends) \in ends /\ \A i \in ends : Min(ends) <= i
  <2>1. ends \subseteq Nat
    BY <1>0
  <2> HIDE DEF ends
  <2> QED
    BY <1>1, <2>1, MinIs
<1>3. PICK k : k = Min(ends)
  OBVIOUS
<1>4. k \in ends /\ \A i \in ends : k <= i
  BY <1>2, <1>3
<1>5. \A i \in 1 .. k - 1 : ~(s[i] < Base)
  BY <1>0, <1>4
<1>6. FirstEnd(s, k)
  BY <1>0, <1>4, <1>5 DEF FirstEnd
<1> QED
  BY <1>6

\* A VarInt that was read is read the same when more bytes follow.
LEMMA VarIntMore ==
    ASSUME NEW s \in Seq(Bytes), ReadVarInt(s).st = "ok"
    PROVE  /\ ReadVarInt(s).val \in Nat /\ ReadVarInt(s).rest \in Seq(Bytes)
           /\ EndOf(ReadVarInt(s).rest, s)
           /\ \A t \in Seq(Bytes) :
                ReadVarInt(s \o t) = Result("ok", ReadVarInt(s).val, ReadVarInt(s).rest \o t)
<1>0. MaxGroups \in Nat /\ Base \in Nat /\ Len(s) \in Nat /\ \A i \in 1 .. Len(s) : s[i] \in Bytes
  BY ProtocolAssumption, LenProperties, ElementOfSeq
<1>1. PICK k : FirstEnd(s, k)
  BY ReadsIfEnd
<1>2. k \in 1 .. MaxGroups /\ k <= Len(s) /\ k \in 0 .. Len(s) /\ k \in 0 .. MaxGroups
  BY <1>0, <1>1 DEF FirstEnd
<1>3. ReadVarInt(s) = Result("ok", Value(s, k), SubSeq(s, k + 1, Len(s)))
  BY <1>1, ReadsToEnd
<1>4. ReadVarInt(s).val = Value(s, k) /\ ReadVarInt(s).rest = SubSeq(s, k + 1, Len(s))
  <2>1. PICK v, q : v = Value(s, k) /\ q = SubSeq(s, k + 1, Len(s))
    OBVIOUS
  <2>2. ReadVarInt(s) = Result("ok", v, q)
    BY <1>3, <2>1
  <2>3. ReadVarInt(s).val = v /\ ReadVarInt(s).rest = q
    BY <2>2, ResultIs
  <2> QED
    BY <2>1, <2>3
<1>5. \A i \in 1 .. k : s[i] \in Nat
  BY <1>0, <1>2 DEF Bytes
<1>6. Value(s, k) \in Nat
  BY <1>2, <1>5, ValueIs
<1>7. SubSeq(s, k + 1, Len(s)) \in Seq(Bytes)
  BY <1>2, Cut
<1>8. ASSUME NEW t \in Seq(Bytes)
      PROVE  ReadVarInt(s \o t) = Result("ok", ReadVarInt(s).val, ReadVarInt(s).rest \o t)
  <2>1. /\ s \o t \in Seq(Bytes) /\ Len(s \o t) = Len(s) + Len(t) /\ Len(t) \in Nat
        /\ \A i \in 1 .. Len(s) : (s \o t)[i] = s[i]
        /\ SubSeq(s \o t, k + 1, Len(s \o t)) = SubSeq(s, k + 1, Len(s)) \o t
    BY <1>2, CutMore, LenProperties
  <2>2. FirstEnd(s \o t, k)
    <3>1. k <= Len(s \o t)
      BY <1>0, <1>2, <2>1
    <3>2. (s \o t)[k] = s[k] /\ \A i \in 1 .. k - 1 : (s \o t)[i] = s[i]
      BY <1>0, <1>2, <2>1
    <3> QED
      BY <1>1, <3>1, <3>2 DEF FirstEnd
  <2>3. ReadVarInt(s \o t) = Result("ok", Value(s \o t, k), SubSeq(s \o t, k + 1, Len(s \o t)))
    BY <2>1, <2>2, ReadsToEnd
  <2>4. Value(s, k) = Value(s \o t, k)
    <3>1. \A i \in 1 .. k : s[i] \in Nat /\ (s \o t)[i] = s[i]
      BY <1>0, <1>2, <1>5, <2>1
    <3> QED
      BY <1>2, <3>1, ValueOfPrefix
  <2> QED
    BY <1>4, <2>1, <2>3, <2>4
<1>9. EndOf(ReadVarInt(s).rest, s)
  BY <1>2, <1>4 DEF EndOf
<1> QED
  BY <1>4, <1>6, <1>7, <1>8, <1>9

----------------------------------------------------------------------------
\* What is written is read back

\* WriteVarInt writes the digits of the number, a continuation bit on all but the
\* last.
LEMMA WriteIs ==
    ASSUME NEW v \in 0 .. Word - 1
    PROVE  /\ WriteVarInt(v) \in Seq(Bytes) /\ Len(WriteVarInt(v)) \in 1 .. MaxGroups
           /\ FirstEnd(WriteVarInt(v), Len(WriteVarInt(v)))
           /\ Value(WriteVarInt(v), Len(WriteVarInt(v))) = v
           /\ v < Base => WriteVarInt(v) = <<v>>
<1> DEFINE ks == {n \in 1 .. MaxGroups : v < Weight[n]}
           k == Min(ks)
           digit(i) == (v \div Weight[i - 1]) % Base
           e == [i \in 1 .. k |-> digit(i) + (IF i < k THEN Base ELSE 0)]
<1>0. /\ MaxGroups \in Nat /\ MaxGroups > 0 /\ Base \in Nat /\ Base > 1
      /\ Word \in Nat /\ v \in Nat /\ v < Word /\ Word < Weight[MaxGroups]
  BY ProtocolAssumption
<1>1. v % Word = v
  <2>1. (Word * 0 + v) % Word = v
    BY <1>0, ModIs
  <2>2. Word * 0 + v = v
    BY <1>0
  <2> QED
    BY <2>1, <2>2
<1>2. WriteVarInt(v) = e
  BY <1>1 DEF WriteVarInt
<1>3. k \in ks /\ \A n \in ks : k <= n
  <2>1. MaxGroups \in ks
    <3>1. Weight[MaxGroups] \in Nat
      BY <1>0, WeightIs
    <3> QED
      BY <1>0, <3>1
  <2>2. ks \subseteq Nat /\ ks # {}
    BY <2>1
  <2> HIDE DEF ks
  <2> QED
    BY <2>2, MinIs
<1>4. k \in 1 .. MaxGroups /\ v < Weight[k] /\ k \in Nat
  BY <1>0, <1>3
<1>5. v < Base => k = 1
  <2>1. Weight[0] = 1 /\ Weight[1] = Base * Weight[0]
    BY <1>0, WeightIs
  <2>2. Weight[1] = Base
    BY <1>0, <2>1
  <2>3. v < Base => 1 \in ks
    BY <1>0, <2>2
  <2> HIDE DEF ks, k
  <2> QED
    BY <1>3, <1>4, <2>3
<1> HIDE DEF ks, k
<1>6. ASSUME NEW i \in 1 .. k PROVE digit(i) \in Nat /\ digit(i) < Base
  <2>1. i - 1 \in 0 .. MaxGroups
    BY <1>0, <1>4
  <2>2. Weight[i - 1] \in Nat /\ Weight[i - 1] > 0
    BY <2>1, WeightIs
  <2>3. v \div Weight[i - 1] \in Nat
    <3>1. PICK q, r \in Nat : q = v \div Weight[i - 1]
      BY <1>0, <2>2, DivMod
    <3> QED
      BY <3>1
  <2> QED
    BY <1>0, <2>3
<1>7. ASSUME NEW i \in 1 .. k
      PROVE  /\ e[i] \in Nat /\ e[i] < 2 * Base
             /\ e[i] % Base = digit(i)
             /\ e[i] < Base <=> i = k
  <2> DEFINE d == digit(i)
  <2>1. d \in Nat /\ d < Base
    BY <1>6
  <2>2. e[i] = d + (IF i < k THEN Base ELSE 0)
    OBVIOUS
  <2> HIDE DEF d, e
  <2>3. CASE i < k
    <3>1. e[i] = Base * 1 + d
      BY <1>0, <2>1, <2>2, <2>3
    <3>2. (Base * 1 + d) % Base = d
      BY <1>0, <2>1, ModIs
    <3>3. e[i] \in Nat /\ e[i] < 2 * Base /\ ~(e[i] < Base) /\ i # k
      BY <1>0, <1>4, <2>1, <2>3, <3>1
    <3> QED
      BY <3>1, <3>2, <3>3 DEF d
  <2>4. CASE i = k
    <3>1. e[i] = Base * 0 + d /\ e[i] = d
      BY <1>0, <1>4, <2>1, <2>2, <2>4
    <3>2. (Base * 0 + d) % Base = d
      BY <1>0, <2>1, ModIs
    <3>3. e[i] \in Nat /\ e[i] < 2 * Base /\ e[i] < Base
      BY <1>0, <2>1, <3>1
    <3> QED
      BY <2>4, <3>1, <3>2, <3>3 DEF d
  <2> QED
    BY <1>4, <2>3, <2>4
<1>8. e \in [1 .. k -> Bytes]
  <2>1. \A i \in 1 .. k : e[i] \in Bytes
    BY <1>0, <1>7 DEF Bytes
  <2> QED
    BY <2>1
<1>9. e \in Seq(Bytes) /\ Len(e) = k
  <2>1. \A n \in Nat : \A f \in [1 .. n -> Bytes] : f \in Seq(Bytes) /\ Len(f) = n
    OBVIOUS
  <2> HIDE DEF e
  <2> QED
    BY <1>4, <1>8, <2>1
<1>10. FirstEnd(e, k)
  <2>1. \A i \in 1 .. k - 1 : i \in 1 .. k /\ i # k
    BY <1>4
  <2>2. k \in 1 .. k /\ k <= k
    BY <1>4
  <2> HIDE DEF e
  <2> QED
    BY <1>4, <1>7, <1>9, <2>1, <2>2 DEF FirstEnd
<1>11. Value(e, k) = v
  <2> HIDE DEF e
  <2> QED
    BY <1>0, <1>4, <1>7, ValueOfDigits
<1>12. v < Base => e = <<v>>
  <2>1. Weight[0] = 1
    BY <1>0, WeightIs
  <2>2. (v \div 1) = v
    BY <1>0
  <2>3. v < Base => (Base * 0 + v) % Base = v /\ Base * 0 + v = v
    BY <1>0, ModIs
  <2>4. 1 \in 1 .. k
    BY <1>4
  <2>5. v < Base => digit(1) = v
    BY <2>1, <2>2, <2>3
  <2>6. v < Base => e[1] = v + 0
    BY <1>5, <2>4, <2>5
  <2>7. v < Base => Len(e) = 1 /\ e[1] = v
    BY <1>0, <1>5, <1>9, <2>6
  <2> HIDE DEF e
  <2> QED
    BY <1>9, <2>7
<1> HIDE DEF e
<1> QED
  BY <1>2, <1>4, <1>9, <1>10, <1>11, <1>12

\* A number below 2^32 is read back as it was written, and what follows it is left.
THEOREM VarIntRead ==
    ASSUME NEW v \in 0 .. Word - 1, NEW tail \in Seq(Bytes)
    PROVE  ReadVarInt(WriteVarInt(v) \o tail) = Result("ok", v, tail)
<1>1. PICK e : e = WriteVarInt(v)
  OBVIOUS
<1>2. e \in Seq(Bytes) /\ Len(e) \in Nat /\ FirstEnd(e, Len(e)) /\ Value(e, Len(e)) = v
  BY <1>1, WriteIs, LenProperties
<1>3. SubSeq(e, Len(e) + 1, Len(e)) = <<>>
  BY <1>2, SubSeqEmpty
<1>4. ReadVarInt(e) = Result("ok", v, <<>>)
  BY <1>2, <1>3, ReadsToEnd
<1>5. ReadVarInt(e).st = "ok" /\ ReadVarInt(e).val = v /\ ReadVarInt(e).rest = <<>>
  BY <1>4, ResultIs
<1>6. ReadVarInt(e \o tail) = Result("ok", v, <<>> \o tail)
  BY <1>2, <1>5, VarIntMore
<1>7. <<>> \o tail = tail
  BY ConcatEmptySeq
<1> QED
  BY <1>1, <1>6, <1>7

\* io.ReadFull takes as many bytes as it is asked for.
LEMMA FullMore ==
    ASSUME NEW s \in Seq(Bytes), NEW n \in Nat, ReadFull(s, n).st = "ok"
    PROVE  /\ n <= Len(s)
           /\ ReadFull(s, n).val \in Seq(Bytes) /\ Len(ReadFull(s, n).val) = n
           /\ ReadFull(s, n).rest \in Seq(Bytes) /\ EndOf(ReadFull(s, n).rest, s)
           /\ \A t \in Seq(Bytes) :
                ReadFull(s \o t, n) = Result("ok", ReadFull(s, n).val, ReadFull(s, n).rest \o t)
<1>0. Len(s) \in Nat
  BY LenProperties
<1>1. ~(Len(s) < n)
  <2>1. SUFFICES ASSUME Len(s) < n PROVE FALSE
    OBVIOUS
  <2>2. ReadFull(s, n) = Result("more", <<>>, <<>>)
    BY <2>1 DEF ReadFull
  <2>3. ReadFull(s, n).st = "more"
    BY <2>2, ResultIs
  <2> QED
    BY <2>3
<1>2. n \in 0 .. Len(s)
  BY <1>0, <1>1
<1>3. PICK a, b : a = SubSeq(s, 1, n) /\ b = SubSeq(s, n + 1, Len(s))
  OBVIOUS
<1>4. ReadFull(s, n) = Result("ok", a, b)
  BY <1>1, <1>3 DEF ReadFull
<1>5. ReadFull(s, n).val = a /\ ReadFull(s, n).rest = b
  BY <1>4, ResultIs
<1>6. a \in Seq(Bytes) /\ Len(a) = n /\ b \in Seq(Bytes)
  BY <1>2, <1>3, Cut
<1>7. ASSUME NEW t \in Seq(Bytes) PROVE ReadFull(s \o t, n) = Result("ok", a, b \o t)
  <2>1. /\ Len(s \o t) = Len(s) + Len(t) /\ Len(t) \in Nat
        /\ SubSeq(s \o t, n + 1, Len(s \o t)) = b \o t /\ SubSeq(s \o t, 1, n) = a
    BY <1>2, <1>3, CutMore, LenProperties
  <2>2. ~(Len(s \o t) < n)
    BY <1>0, <1>2, <2>1
  <2> QED
    BY <2>1, <2>2 DEF ReadFull
<1>8. EndOf(b, s)
  BY <1>2, <1>3 DEF EndOf
<1> QED
  BY <1>0, <1>2, <1>5, <1>6, <1>7, <1>8

\* Bytes that are read in full from their own front.
LEMMA FullRead ==
    ASSUME NEW s \in Seq(Bytes), NEW t \in Seq(Bytes)
    PROVE  ReadFull(s \o t, Len(s)) = Result("ok", s, t)
<1>1. Len(s) \in Nat /\ Len(t) \in Nat /\ Len(s \o t) = Len(s) + Len(t)
  BY LenProperties, ConcatProperties
<1>2. ~(Len(s \o t) < Len(s))
  BY <1>1
<1>3. SubSeq(s \o t, Len(s) + 1, Len(s \o t)) = t /\ SubSeq(s \o t, 1, Len(s)) = s
  BY CutAll
<1> QED
  BY <1>2, <1>3 DEF ReadFull

----------------------------------------------------------------------------
\* Strings, packets and handshakes

\* A counted block that was read is a block within the bounds, and read the same
\* when more bytes follow.
LEMMA CountedMore ==
    ASSUME NEW s \in Seq(Bytes), NEW least \in Nat, NEW most \in Nat,
           ReadCounted(s, least, most).st = "ok"
    PROVE  /\ ReadCounted(s, least, most).val \in Seq(Bytes)
           /\ Len(ReadCounted(s, least, most).val) \in least .. most
           /\ ReadCounted(s, least, most).rest \in Seq(Bytes)
           /\ EndOf(ReadCounted(s, least, most).rest, s)
           /\ ReadCounted(s, least, most) =
                Result("ok", ReadCounted(s, least, most).val, ReadCounted(s, least, most).rest)
           /\ \A t \in Seq(Bytes) :
                ReadCounted(s \o t, least, most) =
                  Result("ok", ReadCounted(s, least, most).val, ReadCounted(s, least, most).rest \o t)
<1>1. PICK n : n = ReadVarInt(s)
  OBVIOUS
<1>2. PICK r : r = ReadCounted(s, least, most)
  OBVIOUS
<1>3. r = IF n.st # "ok" THEN n
          ELSE IF n.val < least \/ n.val > most THEN Result("bad", <<>>, <<>>)
          ELSE ReadFull(n.rest, n.val)
  BY <1>1, <1>2 DEF ReadCounted
<1>4. r.st = "ok"
  BY <1>2
<1>5. n.st = "ok"
  BY <1>3, <1>4
<1>6. n.val \in Nat /\ n.rest \in Seq(Bytes)
      /\ \A t \in Seq(Bytes) : ReadVarInt(s \o t) = Result("ok", n.val, n.rest \o t)
  BY <1>1, <1>5, VarIntMore
<1>7. ~(n.val < least \/ n.val > most)
  <2>1. Result("bad", <<>>, <<>>).st = "bad"
    BY ResultIs
  <2> QED
    BY <1>3, <1>4, <1>5, <2>1
<1>8. r = ReadFull(n.rest, n.val)
  BY <1>3, <1>5, <1>7
<1>9. /\ r.val \in Seq(Bytes) /\ Len(r.val) = n.val /\ r.rest \in Seq(Bytes)
      /\ \A t \in Seq(Bytes) : ReadFull(n.rest \o t, n.val) = Result("ok", r.val, r.rest \o t)
  BY <1>4, <1>6, <1>8, FullMore
<1>10. ASSUME NEW t \in Seq(Bytes)
       PROVE  ReadCounted(s \o t, least, most) = Result("ok", r.val, r.rest \o t)
  <2>1. PICK m : m = ReadVarInt(s \o t)
    OBVIOUS
  <2>2. m.st = "ok" /\ m.val = n.val /\ m.rest = n.rest \o t
    <3>1. PICK q : q = n.rest \o t
      OBVIOUS
    <3>2. m = Result("ok", n.val, q)
      BY <1>6, <2>1, <3>1
    <3>3. m.st = "ok" /\ m.val = n.val /\ m.rest = q
      BY <3>2, ResultIs
    <3> QED
      BY <3>1, <3>3
  <2>3. ReadCounted(s \o t, least, most) =
          IF m.st # "ok" THEN m
          ELSE IF m.val < least \/ m.val > most THEN Result("bad", <<>>, <<>>)
          ELSE ReadFull(m.rest, m.val)
    BY <2>1 DEF ReadCounted
  <2>4. ReadCounted(s \o t, least, most) = ReadFull(n.rest \o t, n.val)
    BY <1>7, <2>2, <2>3
  <2> QED
    BY <1>9, <2>4
<1>11. r = Result("ok", r.val, r.rest)
  <2>1. <<>> \in Seq(Bytes) /\ r.rest \o <<>> = r.rest /\ n.rest \o <<>> = n.rest
    BY <1>6, <1>9, ConcatEmptySeq, EmptySeq
  <2>2. ReadFull(n.rest \o <<>>, n.val) = Result("ok", r.val, r.rest \o <<>>)
    BY <1>9, <2>1
  <2> QED
    BY <1>8, <2>1, <2>2
<1>12. Len(r.val) \in least .. most
  BY <1>6, <1>7, <1>9
<1>13. EndOf(r.rest, s)
  <2>1. EndOf(n.rest, s)
    BY <1>1, <1>5, VarIntMore
  <2>2. EndOf(r.rest, n.rest)
    BY <1>4, <1>6, <1>8, FullMore
  <2> QED
    BY <2>1, <2>2, EndOfEnd
<1> QED
  BY <1>2, <1>9, <1>10, <1>11, <1>12, <1>13

\* A block that was written with its length is read back, and what follows it left.
LEMMA CountedRead ==
    ASSUME NEW p \in Seq(Bytes), NEW tail \in Seq(Bytes), NEW least \in Nat, NEW most \in 0 .. Word - 1,
           Len(p) \in least .. most
    PROVE  /\ WriteVarInt(Len(p)) \o p \in Seq(Bytes)
           /\ Len(WriteVarInt(Len(p)) \o p) \in Len(p) + 1 .. Len(p) + MaxGroups
           /\ ReadCounted((WriteVarInt(Len(p)) \o p) \o tail, least, most) = Result("ok", p, tail)
<1>0. Len(p) \in 0 .. Word - 1 /\ Len(p) \in Nat /\ Word \in Nat /\ MaxGroups \in Nat
  BY ProtocolAssumption, LenProperties
<1>1. PICK e : e = WriteVarInt(Len(p))
  OBVIOUS
<1>2. e \in Seq(Bytes) /\ Len(e) \in 1 .. MaxGroups
  BY <1>0, <1>1, WriteIs
<1>3. /\ e \o p \in Seq(Bytes) /\ Len(e \o p) = Len(e) + Len(p) /\ p \o tail \in Seq(Bytes)
      /\ (e \o p) \o tail = e \o (p \o tail)
  <2>1. e \o p \in Seq(Bytes) /\ Len(e \o p) = Len(e) + Len(p)
    BY <1>2, ConcatProperties
  <2>2. p \o tail \in Seq(Bytes)
    BY ConcatProperties
  <2>3. (e \o p) \o tail = e \o (p \o tail)
    <3>1. e \in Seq(Bytes)
      BY <1>2
    <3> QED
      BY <3>1, ConcatAssociative
  <2> QED
    BY <2>1, <2>2, <2>3
<1>4. PICK n : n = ReadVarInt((e \o p) \o tail)
  OBVIOUS
<1>5. n.st = "ok" /\ n.val = Len(p) /\ n.rest = p \o tail
  <2>1. PICK q : q = p \o tail
    OBVIOUS
  <2>2. n = Result("ok", Len(p), q)
    BY <1>0, <1>1, <1>3, <1>4, <2>1, VarIntRead
  <2>3. n.st = "ok" /\ n.val = Len(p) /\ n.rest = q
    BY <2>2, ResultIs
  <2> QED
    BY <2>1, <2>3
<1>6. ~(n.val < least \/ n.val > most)
  BY <1>0, <1>5
<1>7. ReadCounted((e \o p) \o tail, least, most) = ReadFull(n.rest, n.val)
  <2>1. ReadCounted((e \o p) \o tail, least, most) =
          IF n.st # "ok" THEN n
          ELSE IF n.val < least \/ n.val > most THEN Result("bad", <<>>, <<>>)
          ELSE ReadFull(n.rest, n.val)
    BY <1>4 DEF ReadCounted
  <2> QED
    BY <1>5, <1>6, <2>1
<1>8. ReadFull(n.rest, n.val) = Result("ok", p, tail)
  BY <1>5, FullRead
<1>9. Len(e \o p) \in Len(p) + 1 .. Len(p) + MaxGroups
  BY <1>0, <1>2, <1>3
<1> QED
  BY <1>1, <1>3, <1>7, <1>8, <1>9

\* What ReadHandshake makes of the packet it has read.
Parsed(packet) ==
    LET id == ReadVarInt(packet.val)
        proto == ReadVarInt(id.rest)
        host == readString(proto.rest)
        port == ReadFull(host.rest, 2)
        next == ReadVarInt(port.rest)
    IN  IF packet.st # "ok" THEN Result(packet.st, <<>>, <<>>)
        ELSE IF /\ \A r \in {id, proto, next} : r.st = "ok"
                /\ host.st = "ok" /\ port.st = "ok"
                /\ id.val = 0 /\ next.val \in {1, 2}
        THEN Result("ok", [protocol |-> proto.val, host |-> host.val, port |-> port.val,
                           next |-> next.val, frame |-> frame(packet.val)], packet.rest)
        ELSE Result("bad", <<>>, <<>>)

\* A handshake is a matter of its packet.
LEMMA HandshakeIs == \A s : ReadHandshake(s) = Parsed(ReadPacket(s))
  BY DEF ReadHandshake, Parsed

\* A handshake that was read keeps the frame of its packet, and what follows the
\* packet does not matter to what was read.
LEMMA ParsedIs ==
    ASSUME NEW packet, Parsed(packet).st = "ok"
    PROVE  /\ packet.st = "ok" /\ Parsed(packet).rest = packet.rest
           /\ Parsed(packet).val.frame = frame(packet.val)
           /\ Parsed(packet) = Result("ok", Parsed(packet).val, packet.rest)
           /\ \A rest : Parsed(Result("ok", packet.val, rest)) = Result("ok", Parsed(packet).val, rest)
<1> DEFINE id == ReadVarInt(packet.val)
           proto == ReadVarInt(id.rest)
           host == readString(proto.rest)
           port == ReadFull(host.rest, 2)
           next == ReadVarInt(port.rest)
           good == /\ \A r \in {id, proto, next} : r.st = "ok"
                   /\ host.st = "ok" /\ port.st = "ok"
                   /\ id.val = 0 /\ next.val \in {1, 2}
           val == [protocol |-> proto.val, host |-> host.val, port |-> port.val,
                   next |-> next.val, frame |-> frame(packet.val)]
<1>1. Parsed(packet) = IF packet.st # "ok" THEN Result(packet.st, <<>>, <<>>)
                       ELSE IF good THEN Result("ok", val, packet.rest) ELSE Result("bad", <<>>, <<>>)
  BY DEF Parsed
<1>2. ASSUME NEW rest
      PROVE  Parsed(Result("ok", packet.val, rest)) =
               IF good THEN Result("ok", val, rest) ELSE Result("bad", <<>>, <<>>)
  <2>1. PICK p : p = Result("ok", packet.val, rest)
    OBVIOUS
  <2>2. p.st = "ok" /\ p.val = packet.val /\ p.rest = rest
    BY <2>1, ResultIs
  <2>3. Parsed(p) = IF good THEN Result("ok", val, rest) ELSE Result("bad", <<>>, <<>>)
    BY <2>2 DEF Parsed
  <2> QED
    BY <2>1, <2>3
<1>3. val.frame = frame(packet.val)
  OBVIOUS
<1> HIDE DEF good, val
<1>4. packet.st = "ok"
  <2>1. packet.st # "ok" => Parsed(packet).st = packet.st
    BY <1>1, ResultIs
  <2> QED
    BY <2>1
<1>5. good
  <2>1. ~good => Parsed(packet).st = "bad"
    BY <1>1, <1>4, ResultIs
  <2> QED
    BY <2>1
<1>6. Parsed(packet) = Result("ok", val, packet.rest)
  BY <1>1, <1>4, <1>5
<1>7. Parsed(packet).val = val /\ Parsed(packet).rest = packet.rest
  BY <1>6, ResultIs
<1>8. \A rest : Parsed(Result("ok", packet.val, rest)) = Result("ok", Parsed(packet).val, rest)
  BY <1>2, <1>5, <1>7
<1> QED
  BY <1>3, <1>4, <1>6, <1>7, <1>8

\* A handshake that was read is read the same when more bytes follow.
LEMMA HandshakeMore ==
    ASSUME NEW s \in Seq(Bytes), ReadHandshake(s).st = "ok"
    PROVE  /\ ReadHandshake(s).val.frame \in Seq(Bytes)
           /\ EndOf(ReadHandshake(s).rest, s)
           /\ ReadHandshake(s) = Result("ok", ReadHandshake(s).val, ReadHandshake(s).rest)
           /\ \A t \in Seq(Bytes) :
                ReadHandshake(s \o t) = Result("ok", ReadHandshake(s).val, ReadHandshake(s).rest \o t)
           /\ ReadHandshake(ReadHandshake(s).val.frame \o ReadHandshake(s).rest) = ReadHandshake(s)
<1>0. 1 \in Nat /\ MaxPacket \in Nat /\ MaxPacket \in 0 .. Word - 1
  BY ProtocolAssumption
<1>1. PICK p : p = ReadPacket(s)
  OBVIOUS
<1>2. PICK hs : hs = ReadHandshake(s)
  OBVIOUS
<1>3. hs = Parsed(p) /\ hs.st = "ok"
  BY <1>1, <1>2, HandshakeIs
<1>4. /\ p.st = "ok" /\ hs.rest = p.rest /\ hs.val.frame = frame(p.val)
      /\ hs = Result("ok", hs.val, p.rest)
      /\ \A rest : Parsed(Result("ok", p.val, rest)) = Result("ok", hs.val, rest)
  BY <1>3, ParsedIs
<1>5. /\ p.val \in Seq(Bytes) /\ Len(p.val) \in 1 .. MaxPacket
      /\ p.rest \in Seq(Bytes) /\ EndOf(p.rest, s)
      /\ p = Result("ok", p.val, p.rest)
      /\ \A t \in Seq(Bytes) : ReadPacket(s \o t) = Result("ok", p.val, p.rest \o t)
  BY <1>0, <1>1, <1>4, CountedMore DEF ReadPacket
<1>6. ASSUME NEW t \in Seq(Bytes) PROVE ReadHandshake(s \o t) = Result("ok", hs.val, hs.rest \o t)
  <2>1. ReadHandshake(s \o t) = Parsed(Result("ok", p.val, p.rest \o t))
    BY <1>5, HandshakeIs
  <2> QED
    BY <1>4, <2>1
<1>7. /\ frame(p.val) \in Seq(Bytes)
      /\ ReadPacket(frame(p.val) \o p.rest) = Result("ok", p.val, p.rest)
  BY <1>0, <1>5, CountedRead DEF frame, ReadPacket
<1>8. ReadHandshake(frame(p.val) \o p.rest) = hs
  <2>1. ReadHandshake(frame(p.val) \o p.rest) = Parsed(Result("ok", p.val, p.rest))
    BY <1>7, HandshakeIs
  <2> QED
    BY <1>4, <2>1
<1> QED
  BY <1>2, <1>4, <1>5, <1>6, <1>7, <1>8

\* The frame the router sends on makes the backend read the handshake that the
\* router went by, and then what the client sent behind it: for every stream of
\* bytes, however its numbers are spelt.
THEOREM HandshakeKept ==
    ASSUME NEW s \in Seq(Bytes), ReadHandshake(s).st = "ok"
    PROVE  ReadHandshake(ReadHandshake(s).val.frame \o ReadHandshake(s).rest) = ReadHandshake(s)
  BY HandshakeMore

----------------------------------------------------------------------------
\* The properties that the runs check, for all parameters

\* Spellings are bytes that ReadVarInt reads whole.
LEMMA SpellingsAre ==
    ASSUME NEW v \in 0 .. Word + 2 * MaxPacket, NEW e \in Spellings[v]
    PROVE  e \in Seq(Bytes) /\ Len(e) \in 1 .. MaxGroups /\ ReadVarInt(e) = Result("ok", v, <<>>)
<1>1. e \in Codes /\ ReadVarInt(e) = Result("ok", v, <<>>)
  BY DEF Spellings
<1>2. PICK n \in 1 .. MaxGroups : e \in [1 .. n -> Bytes]
  BY <1>1 DEF Codes
<1>3. n \in Nat
  BY ProtocolAssumption
<1>4. e \in Seq(Bytes) /\ Len(e) = n
  BY <1>2, <1>3
<1> QED
  BY <1>1, <1>4

\* The payloads are bytes, and not too many.
LEMMA PayloadsAre ==
    ASSUME NEW payload \in Payloads
    PROVE  payload \in Seq(Bytes) /\ Len(payload) \in 0 .. Word + 2 * MaxPacket
<1>0. /\ MaxGroups \in Nat /\ Base \in Nat /\ Base > 1 /\ Word \in Nat /\ MaxPacket \in Nat /\ Version \in 0 .. Word - 1
      /\ 2 * MaxGroups + 4 <= MaxPacket /\ MaxGroups > 0
  BY ProtocolAssumption
<1>1. /\ 0 \in 0 .. Word + 2 * MaxPacket /\ Version \in 0 .. Word + 2 * MaxPacket
      /\ Word + 3 \in 0 .. Word + 2 * MaxPacket /\ 1 .. 3 \subseteq 0 .. Word + 2 * MaxPacket
  BY <1>0
<1>2. PICK id \in Spellings[0], proto \in Spellings[Version] \cup Spellings[Word + 3],
           len \in Spellings[1], next \in UNION {Spellings[n] : n \in 1 .. 3}, extra \in {<<>>, <<Base>>} :
             payload = Payload(id, proto, len, next, extra)
  BY DEF Payloads
<1>3. \A e \in {id, proto, len, next} : e \in Seq(Bytes) /\ Len(e) \in 1 .. MaxGroups
  <2>1. id \in Seq(Bytes) /\ Len(id) \in 1 .. MaxGroups
    BY <1>1, <1>2, SpellingsAre
  <2>2. proto \in Seq(Bytes) /\ Len(proto) \in 1 .. MaxGroups
    BY <1>1, <1>2, SpellingsAre
  <2>3. len \in Seq(Bytes) /\ Len(len) \in 1 .. MaxGroups
    BY <1>1, <1>2, SpellingsAre
  <2>4. next \in Seq(Bytes) /\ Len(next) \in 1 .. MaxGroups
    <3>1. PICK n \in 1 .. 3 : next \in Spellings[n]
      BY <1>2
    <3> QED
      BY <1>1, <3>1, SpellingsAre
  <2> QED
    BY <2>1, <2>2, <2>3, <2>4
<1>4. Colon \in Bytes /\ Base \in Bytes
  BY <1>0, ProtocolAssumption DEF Bytes
<1>5. PICK host, port : host = <<Colon>> /\ port = BackendPort
  OBVIOUS
<1>6. /\ host \in Seq(Bytes) /\ Len(host) = 1
      /\ port \in Seq(Bytes) /\ Len(port) = 2
      /\ extra \in Seq(Bytes) /\ Len(extra) \in 0 .. 1
  <2>1. host \in Seq(Bytes) /\ Len(host) = 1
    BY <1>5, <1>4, BytesAre
  <2>2. port \in [1 .. 2 -> Bytes]
    BY <1>5, ProtocolAssumption
  <2>3. port \in Seq(Bytes) /\ Len(port) = 2
    BY <2>2, BytesAre
  <2>4. extra \in Seq(Bytes) /\ Len(extra) \in 0 .. 1
    <3>1. <<>> \in Seq(Bytes) /\ Len(<<>>) = 0
      BY EmptySeq
    <3>2. <<Base>> \in Seq(Bytes) /\ Len(<<Base>>) = 1
      BY <1>4, BytesAre
    <3>3. extra = <<>> \/ extra = <<Base>>
      BY <1>2
    <3>4. Len(extra) = 0 \/ Len(extra) = 1
      BY <3>1, <3>2, <3>3
    <3>5. extra \in Seq(Bytes)
      BY <3>1, <3>2, <3>3
    <3> QED
      BY <3>4, <3>5
  <2> QED
    BY <2>1, <2>3, <2>4
<1>7. PICK a : a = id \o proto
  OBVIOUS
<1>8. a \in Seq(Bytes) /\ Len(a) = Len(id) + Len(proto)
  BY <1>3, <1>7, ConcatProperties
<1>9. PICK b : b = a \o len
  OBVIOUS
<1>10. b \in Seq(Bytes) /\ Len(b) = Len(a) + Len(len)
  BY <1>3, <1>8, <1>9, ConcatProperties
<1>11. PICK c : c = b \o host
  OBVIOUS
<1>12. c \in Seq(Bytes) /\ Len(c) = Len(b) + Len(host)
  BY <1>6, <1>10, <1>11, ConcatProperties
<1>13. PICK d : d = c \o port
  OBVIOUS
<1>14. d \in Seq(Bytes) /\ Len(d) = Len(c) + Len(port)
  BY <1>6, <1>12, <1>13, ConcatProperties
<1>15. PICK e : e = d \o next
  OBVIOUS
<1>16. e \in Seq(Bytes) /\ Len(e) = Len(d) + Len(next)
  BY <1>3, <1>14, <1>15, ConcatProperties
<1>17. payload = e \o extra
  BY <1>2, <1>7, <1>9, <1>11, <1>13, <1>15, <1>5 DEF Payload
<1>18. payload \in Seq(Bytes) /\ Len(payload) = Len(e) + Len(extra)
  BY <1>6, <1>16, <1>17, ConcatProperties
<1>19. /\ Len(id) \in 1 .. MaxGroups /\ Len(proto) \in 1 .. MaxGroups
       /\ Len(len) \in 1 .. MaxGroups /\ Len(next) \in 1 .. MaxGroups
  BY <1>3
<1>20. Len(payload) = ((((((Len(id) + Len(proto)) + Len(len)) + 1) + 2) + Len(next)) + Len(extra))
  BY <1>6, <1>8, <1>10, <1>12, <1>14, <1>16, <1>18
<1>21. Len(payload) \in 0 .. 4 * MaxGroups + 4
  <2>1. PICK l1, l2, l3, l4, l5 :
          l1 = Len(id) /\ l2 = Len(proto) /\ l3 = Len(len) /\ l4 = Len(next) /\ l5 = Len(extra)
    OBVIOUS
  <2>2. /\ l1 \in 1 .. MaxGroups /\ l2 \in 1 .. MaxGroups /\ l3 \in 1 .. MaxGroups
        /\ l4 \in 1 .. MaxGroups /\ l5 \in 0 .. 1
    BY <1>6, <1>19, <2>1
  <2>3. ((((((l1 + l2) + l3) + 1) + 2) + l4) + l5) \in 0 .. 4 * MaxGroups + 4
    BY <1>0, <2>2
  <2> QED
    BY <1>20, <2>1, <2>3
<1> QED
  BY <1>0, <1>18, <1>21

\* A number of which only a part has arrived is waited for.
THEOREM VarIntCutOff ==
    ASSUME NEW v \in 0 .. Word - 1, NEW k \in 0 .. Len(WriteVarInt(v)) - 1
    PROVE  ReadVarInt(SubSeq(WriteVarInt(v), 1, k)).st = "more"
<1>1. PICK e, n : e = WriteVarInt(v) /\ n = Len(e)
  OBVIOUS
<1>2. /\ e \in Seq(Bytes) /\ n \in 1 .. MaxGroups /\ MaxGroups \in Nat /\ Base \in Nat
      /\ \A i \in 1 .. n - 1 : ~(e[i] < Base)
  BY <1>1, WriteIs, ProtocolAssumption DEF FirstEnd
<1>3. k \in 0 .. n /\ k < n /\ k < MaxGroups /\ k \in 0 .. n - 1
  BY <1>1, <1>2
<1>4. PICK s : s = SubSeq(e, 1, k)
  OBVIOUS
<1>5. s \in Seq(Bytes) /\ Len(s) = k /\ \A i \in 1 .. k : s[i] = e[i]
  BY <1>1, <1>2, <1>3, <1>4, Cut
<1>6. DOMAIN s = 1 .. k
  BY <1>5, LenProperties
<1>7. {i \in DOMAIN s : i <= MaxGroups /\ s[i] < Base} = {}
  BY <1>2, <1>3, <1>5, <1>6
<1>8. ReadVarInt(s) = Result("more", 0, <<>>)
  BY <1>3, <1>5, <1>7 DEF ReadVarInt
<1> QED
  BY <1>1, <1>4, <1>8, ResultIs

\* Every number is read back, whatever stands behind it, and none before it is whole.
THEOREM AllVarIntsReadBack == \A tail \in Seq(Bytes) : VarIntsReadBack(tail)
  BY VarIntRead, VarIntCutOff DEF VarIntsReadBack

\* The handshakes of the model, with every spelling of their numbers, are sent on
\* as they were read, and what stands behind them stays there.
THEOREM AllHandshakesForwarded == \A tail \in Seq(Bytes) : HandshakesForwarded(tail)
<1> SUFFICES ASSUME NEW tail \in Seq(Bytes), NEW payload \in Payloads,
                    NEW len \in Spellings[Len(payload)],
                    ReadHandshake(len \o payload \o tail).st = "ok"
             PROVE  /\ ReadHandshake(ReadHandshake(len \o payload \o tail).val.frame
                                      \o ReadHandshake(len \o payload \o tail).rest)
                         = ReadHandshake(len \o payload \o tail)
                    /\ ReadHandshake(len \o payload \o tail).rest = tail
  BY DEF HandshakesForwarded
<1>1. payload \in Seq(Bytes) /\ Len(payload) \in 0 .. Word + 2 * MaxPacket
  BY PayloadsAre
<1>2. len \in Seq(Bytes) /\ ReadVarInt(len) = Result("ok", Len(payload), <<>>)
  BY <1>1, SpellingsAre
<1>3. PICK s : s = len \o payload \o tail
  OBVIOUS
<1>4. PICK after : after = payload \o tail
  OBVIOUS
<1>5. after \in Seq(Bytes) /\ s \in Seq(Bytes) /\ s = len \o after
  <2>1. after \in Seq(Bytes)
    BY <1>1, <1>4, ConcatProperties
  <2>2. (len \o payload) \o tail = len \o (payload \o tail)
    BY <1>1, <1>2, ConcatAssociative
  <2>3. s = len \o after
    BY <1>3, <1>4, <2>2
  <2>4. len \o after \in Seq(Bytes)
    BY <1>2, <2>1, ConcatProperties
  <2> QED
    BY <2>1, <2>3, <2>4
<1>6. ReadHandshake(s).st = "ok"
  BY <1>3
<1>7. ReadHandshake(ReadHandshake(s).val.frame \o ReadHandshake(s).rest) = ReadHandshake(s)
  BY <1>5, <1>6, HandshakeKept
<1>8. PICK n : n = ReadVarInt(s)
  OBVIOUS
<1>9. n.st = "ok" /\ n.val = Len(payload) /\ n.rest = after
  <2>1. ReadVarInt(len).st = "ok" /\ ReadVarInt(len).val = Len(payload) /\ ReadVarInt(len).rest = <<>>
    BY <1>2, ResultIs
  <2>2. ReadVarInt(s) = Result("ok", Len(payload), <<>> \o after)
    BY <1>2, <1>5, <2>1, VarIntMore
  <2>3. <<>> \o after = after
    BY <1>5, ConcatEmptySeq
  <2>4. n = Result("ok", Len(payload), after)
    BY <1>8, <2>2, <2>3
  <2> QED
    BY <2>4, ResultIs
<1>10. PICK p : p = ReadPacket(s)
  OBVIOUS
<1>11. p.st = "ok" /\ ReadHandshake(s).rest = p.rest
  BY <1>6, <1>10, HandshakeIs, ParsedIs
<1>12. p = IF n.st # "ok" THEN n
           ELSE IF n.val < 1 \/ n.val > MaxPacket THEN Result("bad", <<>>, <<>>)
           ELSE ReadFull(n.rest, n.val)
  BY <1>8, <1>10 DEF ReadPacket, ReadCounted
<1>13. p = ReadFull(after, Len(payload))
  <2>1. Result("bad", <<>>, <<>>).st = "bad"
    BY ResultIs
  <2> QED
    BY <1>9, <1>11, <1>12, <2>1
<1>14. p = Result("ok", payload, tail)
  BY <1>1, <1>4, <1>13, FullRead
<1>15. p.rest = tail
  BY <1>14, ResultIs
<1> QED
  BY <1>3, <1>7, <1>11, <1>15

\* A string that was written is read back.
LEMMA StringRead ==
    ASSUME NEW body \in Seq(Bytes), Len(body) <= MaxString, NEW tail \in Seq(Bytes)
    PROVE  /\ writeString(body) \in Seq(Bytes)
           /\ Len(writeString(body)) \in 1 .. MaxString + MaxGroups
           /\ readString(writeString(body) \o tail) = Result("ok", body, tail)
<1>1. 0 \in Nat /\ MaxString \in 0 .. Word - 1 /\ MaxGroups \in Nat /\ Word \in Nat /\ Len(body) \in Nat
  BY ProtocolAssumption, LenProperties
<1>2. Len(body) \in 0 .. MaxString
  BY <1>1
<1>3. /\ WriteVarInt(Len(body)) \o body \in Seq(Bytes)
      /\ Len(WriteVarInt(Len(body)) \o body) \in Len(body) + 1 .. Len(body) + MaxGroups
      /\ ReadCounted((WriteVarInt(Len(body)) \o body) \o tail, 0, MaxString) = Result("ok", body, tail)
  BY <1>1, <1>2, CountedRead
<1>4. \A n \in Len(body) + 1 .. Len(body) + MaxGroups : n \in 1 .. MaxString + MaxGroups
  BY <1>1, <1>2
<1> QED
  BY <1>3, <1>4 DEF writeString, readString

\* The same of a packet.
LEMMA PacketRead ==
    ASSUME NEW p \in Seq(Bytes), Len(p) \in 1 .. MaxPacket, NEW tail \in Seq(Bytes)
    PROVE  frame(p) \in Seq(Bytes) /\ ReadPacket(frame(p) \o tail) = Result("ok", p, tail)
<1>1. 1 \in Nat /\ MaxPacket \in 0 .. Word - 1
  BY ProtocolAssumption
<1> QED
  BY <1>1, CountedRead DEF frame, ReadPacket

\* What ReadMessage makes of a packet whose id is 0.
LEMMA MessageRead ==
    ASSUME NEW body \in Seq(Bytes), Len(body) + 1 <= MaxPacket, NEW tail \in Seq(Bytes)
    PROVE  /\ frame(WriteVarInt(0) \o body) \in Seq(Bytes)
           /\ ReadMessage(frame(WriteVarInt(0) \o body) \o tail) = Result("ok", body, tail)
<1>0. 0 \in 0 .. Word - 1 /\ 0 < Base /\ 0 \in Bytes /\ Len(body) \in Nat /\ MaxPacket \in Nat
  BY ProtocolAssumption, LenProperties DEF Bytes
<1>1. WriteVarInt(0) = <<0>> /\ <<0>> \in Seq(Bytes) /\ Len(<<0>>) = 1
  BY <1>0, WriteIs, BytesAre
<1>2. PICK p : p = WriteVarInt(0) \o body
  OBVIOUS
<1>3. p \in Seq(Bytes) /\ Len(p) = 1 + Len(body)
  <2>1. PICK z : z = WriteVarInt(0)
    OBVIOUS
  <2>2. z \in Seq(Bytes) /\ Len(z) = 1
    BY <1>1, <2>1
  <2>3. p \in Seq(Bytes) /\ Len(p) = Len(z) + Len(body)
    BY <1>2, <2>1, <2>2, ConcatProperties
  <2> QED
    BY <2>2, <2>3
<1>4. Len(p) \in 1 .. MaxPacket
  BY <1>0, <1>3
<1>5. frame(p) \in Seq(Bytes) /\ ReadPacket(frame(p) \o tail) = Result("ok", p, tail)
  BY <1>3, <1>4, PacketRead
<1>6. PICK packet : packet = ReadPacket(frame(p) \o tail)
  OBVIOUS
<1>7. packet.st = "ok" /\ packet.val = p /\ packet.rest = tail
  BY <1>5, <1>6, ResultIs
<1>8. PICK id : id = ReadVarInt(p)
  OBVIOUS
<1>9. id = Result("ok", 0, body)
  BY <1>0, <1>2, <1>8, VarIntRead
<1>10. id.st = "ok" /\ id.val = 0 /\ id.rest = body
  BY <1>9, ResultIs
<1>11. ReadMessage(frame(p) \o tail) = Result("ok", body, tail)
  BY <1>6, <1>7, <1>8, <1>10 DEF ReadMessage
<1> QED
  BY <1>2, <1>5, <1>11

\* Concatenation of bytes, for steps that need not know what it does.
Cat(a, b) == a \o b

\* Concatenation gives bytes, and how it is bracketed does not matter.
LEMMA CatIs ==
    ASSUME NEW a \in Seq(Bytes), NEW b \in Seq(Bytes), NEW c \in Seq(Bytes)
    PROVE  Cat(a, b) \in Seq(Bytes) /\ Cat(Cat(a, b), c) = Cat(a, Cat(b, c))
<1>1. a \o b \in Seq(Bytes)
  BY ConcatProperties
<1>2. (a \o b) \o c = a \o (b \o c)
  BY ConcatAssociative
<1> QED
  BY <1>1, <1>2 DEF Cat

\* A handshake can be read from its front.
LEMMA FromFront ==
    ASSUME NEW z \in Seq(Bytes), NEW ve \in Seq(Bytes), NEW h \in Seq(Bytes), NEW bp \in Seq(Bytes),
           NEW o \in Seq(Bytes)
    PROVE  Cat(Cat(Cat(Cat(z, ve), h), bp), o) = Cat(z, Cat(ve, Cat(h, Cat(bp, o))))
<1>1. Cat(z, ve) \in Seq(Bytes) /\ Cat(bp, o) \in Seq(Bytes)
  BY CatIs
<1>2. Cat(Cat(z, ve), h) \in Seq(Bytes) /\ Cat(h, Cat(bp, o)) \in Seq(Bytes)
  BY <1>1, CatIs
<1>3. Cat(Cat(Cat(Cat(z, ve), h), bp), o) = Cat(Cat(Cat(z, ve), h), Cat(bp, o))
  BY <1>2, CatIs
<1>4. Cat(Cat(Cat(z, ve), h), Cat(bp, o)) = Cat(Cat(z, ve), Cat(h, Cat(bp, o)))
  BY <1>1, CatIs
<1>5. Cat(Cat(z, ve), Cat(h, Cat(bp, o))) = Cat(z, Cat(ve, Cat(h, Cat(bp, o))))
  BY <1>2, CatIs
<1> QED
  BY <1>3, <1>4, <1>5

\* QueryStatus and WriteStatus agree about every name and every body.
THEOREM AllStatusReadBack == \A tail \in Seq(Bytes) : StatusReadBack(tail)
<1> SUFFICES ASSUME NEW tail \in Seq(Bytes), NEW n \in 0 .. MaxString, NEW body \in [1 .. n -> {0, Base}]
             PROVE  /\ ReadHandshake(Query(body) \o tail).st = "ok"
                    /\ ReadHandshake(Query(body) \o tail).val.host = body
                    /\ ReadHandshake(Query(body) \o tail).val.next = 1
                    /\ ReadMessage(ReadHandshake(Query(body) \o tail).rest) = Result("ok", <<>>, tail)
                    /\ QueryAnswer(Message(body) \o tail) = Result("ok", body, <<>>)
  BY DEF StatusReadBack
<1>0. /\ Base \in Nat /\ Base > 1 /\ Word \in Nat /\ MaxGroups \in Nat /\ MaxString \in Nat /\ MaxPacket \in Nat
      /\ MaxPacket < Word /\ MaxString + 2 * MaxGroups + 4 <= MaxPacket
      /\ Version \in 0 .. Word - 1 /\ BackendPort \in [1 .. 2 -> Bytes]
  BY ProtocolAssumption
<1>1. 0 \in Bytes /\ 1 \in Bytes /\ Base \in Bytes /\ 0 \in 0 .. Word - 1 /\ 1 \in 0 .. Word - 1 /\ 1 < Base /\ 0 < Base
  BY <1>0 DEF Bytes
<1>2. body \in Seq(Bytes) /\ Len(body) <= MaxString
  <2>1. body \in [1 .. n -> Bytes] /\ n \in Nat
    BY <1>0, <1>1
  <2>2. body \in Seq(Bytes) /\ Len(body) = n
    BY <2>1, BytesAre
  <2> QED
    BY <1>0, <2>2
<1>3. PICK z, ve, h, bp, o : /\ z = WriteVarInt(0) /\ ve = WriteVarInt(Version)
                             /\ h = writeString(body) /\ bp = BackendPort /\ o = WriteVarInt(1)
  OBVIOUS
<1>4. /\ z = <<0>> /\ z \in Seq(Bytes) /\ Len(z) = 1
      /\ o = <<1>> /\ o \in Seq(Bytes) /\ Len(o) = 1
      /\ ve \in Seq(Bytes) /\ Len(ve) \in 1 .. MaxGroups
      /\ bp \in Seq(Bytes) /\ Len(bp) = 2
  <2>1. z = <<0>> /\ o = <<1>>
    BY <1>1, <1>3, WriteIs
  <2>2. /\ z \in Seq(Bytes) /\ Len(z) = 1 /\ o \in Seq(Bytes) /\ Len(o) = 1
    BY <1>1, <2>1, BytesAre
  <2>3. ve \in Seq(Bytes) /\ Len(ve) \in 1 .. MaxGroups
    BY <1>0, <1>3, WriteIs
  <2>4. bp \in Seq(Bytes) /\ Len(bp) = 2
    BY <1>0, <1>3, BytesAre
  <2> QED
    BY <2>1, <2>2, <2>3, <2>4
<1>5. <<>> \in Seq(Bytes)
  BY EmptySeq
<1>6. h \in Seq(Bytes) /\ Len(h) \in 1 .. MaxString + MaxGroups
  BY <1>2, <1>3, <1>5, StringRead
<1>7. PICK t4 : t4 = bp \o o
  OBVIOUS
<1>8. PICK t3 : t3 = h \o t4
  OBVIOUS
<1>9. PICK t2 : t2 = ve \o t3
  OBVIOUS
<1>10. PICK p : p = z \o t2
  OBVIOUS
<1>11. t4 \in Seq(Bytes) /\ Len(t4) = Len(bp) + Len(o)
  BY <1>4, <1>7, ConcatProperties
<1>12. t3 \in Seq(Bytes) /\ Len(t3) = Len(h) + Len(t4)
  BY <1>6, <1>8, <1>11, ConcatProperties
<1>13. t2 \in Seq(Bytes) /\ Len(t2) = Len(ve) + Len(t3)
  <2>1. ve \in Seq(Bytes) /\ t3 \in Seq(Bytes)
    BY <1>4, <1>12
  <2> QED
    BY <1>9, <2>1, ConcatProperties
<1>14. p \in Seq(Bytes) /\ Len(p) = Len(z) + Len(t2)
  BY <1>4, <1>10, <1>13, ConcatProperties
<1>15. Len(p) \in 1 .. MaxPacket
  <2>1. PICK a, b : a = Len(ve) /\ b = Len(h)
    OBVIOUS
  <2>2. a \in 1 .. MaxGroups /\ b \in 1 .. MaxString + MaxGroups
    BY <1>4, <1>6, <2>1
  <2>3. Len(p) = 1 + (a + (b + (2 + 1)))
    BY <1>4, <1>11, <1>12, <1>13, <1>14, <2>1
  <2>4. 1 + (a + (b + (2 + 1))) \in 1 .. MaxPacket
    BY <1>0, <2>2
  <2> QED
    BY <2>3, <2>4
<1>16. p = z \o ve \o h \o bp \o o
  <2>1. z \in Seq(Bytes) /\ ve \in Seq(Bytes) /\ bp \in Seq(Bytes) /\ o \in Seq(Bytes)
    BY <1>4
  <2>2. Cat(Cat(Cat(Cat(z, ve), h), bp), o) = Cat(z, Cat(ve, Cat(h, Cat(bp, o))))
    BY <1>6, <2>1, FromFront
  <2> QED
    BY <1>7, <1>8, <1>9, <1>10, <2>2 DEF Cat
<1>17. PICK q : q = <<1, 0>> \o tail
  OBVIOUS
<1>18. <<1, 0>> = frame(WriteVarInt(0) \o <<>>)
  <2>1. WriteVarInt(0) \o <<>> = <<0>>
    BY <1>3, <1>4, ConcatEmptySeq
  <2>2. frame(<<0>>) = <<1>> \o <<0>>
    BY <1>3, <1>4 DEF frame
  <2>3. <<1>> \o <<0>> = <<1, 0>>
    <3>1. PICK x, y : x = <<1>> /\ y = <<0>>
      OBVIOUS
    <3>2. x \in Seq(Bytes) /\ Len(x) = 1 /\ x[1] = 1 /\ y \in Seq(Bytes) /\ Len(y) = 1 /\ y[1] = 0
      BY <1>4, <3>1
    <3>3. PICK xy : xy = x \o y
      OBVIOUS
    <3>4. /\ xy \in Seq(Bytes) /\ Len(xy) = Len(x) + Len(y)
          /\ \A i \in 1 .. Len(x) + Len(y) : xy[i] = IF i <= Len(x) THEN x[i] ELSE y[i - Len(x)]
      BY <3>2, <3>3, ConcatProperties
    <3>5. \A i \in 1 .. 2 : xy[i] = IF i <= 1 THEN x[i] ELSE y[i - 1]
      BY <3>2, <3>4
    <3>6. xy \in Seq(Bytes) /\ Len(xy) = 2 /\ xy[1] = 1 /\ xy[2] = 0
      BY <3>2, <3>4, <3>5
    <3>7. xy = <<1, 0>>
      BY <3>6
    <3> QED
      BY <3>1, <3>3, <3>7
  <2> QED
    BY <2>1, <2>2, <2>3
<1>19. <<1, 0>> \in Seq(Bytes) /\ ReadMessage(q) = Result("ok", <<>>, tail)
  <2>1. Len(<<>>) + 1 <= MaxPacket
    BY <1>0, EmptySeq
  <2> QED
    BY <1>5, <1>17, <1>18, <2>1, MessageRead
<1>20. q \in Seq(Bytes)
  BY <1>17, <1>19, ConcatProperties
<1>21. frame(p) \in Seq(Bytes) /\ ReadPacket(frame(p) \o q) = Result("ok", p, q)
  BY <1>14, <1>15, <1>20, PacketRead
<1>22. Query(body) \o tail = frame(p) \o q
  <2>1. Query(body) = frame(p) \o <<1, 0>>
    BY <1>3, <1>16 DEF Query
  <2> QED
    BY <1>17, <1>19, <1>21, <2>1, ConcatAssociative
<1>23. PICK packet : packet = ReadPacket(Query(body) \o tail)
  OBVIOUS
<1>24. packet.st = "ok" /\ packet.val = p /\ packet.rest = q
  BY <1>21, <1>22, <1>23, ResultIs
<1>25. PICK id, proto, host, port, next :
         /\ id = ReadVarInt(packet.val) /\ proto = ReadVarInt(id.rest) /\ host = readString(proto.rest)
         /\ port = ReadFull(host.rest, 2) /\ next = ReadVarInt(port.rest)
  OBVIOUS
<1>26. id.st = "ok" /\ id.val = 0 /\ id.rest = t2
  <2>1. id = Result("ok", 0, t2)
    BY <1>1, <1>3, <1>10, <1>13, <1>24, <1>25, VarIntRead
  <2> QED
    BY <2>1, ResultIs
<1>27. proto.st = "ok" /\ proto.rest = t3
  <2>1. proto = Result("ok", Version, t3)
    BY <1>0, <1>3, <1>9, <1>12, <1>25, <1>26, VarIntRead
  <2> QED
    BY <2>1, ResultIs
<1>28. host.st = "ok" /\ host.val = body /\ host.rest = t4
  <2>1. host = Result("ok", body, t4)
    BY <1>2, <1>3, <1>8, <1>11, <1>25, <1>27, StringRead
  <2> QED
    BY <2>1, ResultIs
<1>29. port.st = "ok" /\ port.rest = o
  <2>1. port = Result("ok", bp, o)
    BY <1>4, <1>7, <1>25, <1>28, FullRead
  <2> QED
    BY <2>1, ResultIs
<1>30. next.st = "ok" /\ next.val = 1
  <2>1. o \o <<>> = o
    BY <1>4, ConcatEmptySeq
  <2>2. next = Result("ok", 1, <<>>)
    BY <1>1, <1>3, <1>5, <1>25, <1>29, <2>1, VarIntRead
  <2> QED
    BY <2>2, ResultIs
<1>31. PICK val : val = [protocol |-> proto.val, host |-> host.val, port |-> port.val,
                         next |-> next.val, frame |-> frame(packet.val)]
  OBVIOUS
<1>32. Parsed(packet) = Result("ok", val, q)
  BY <1>24, <1>25, <1>26, <1>27, <1>28, <1>29, <1>30, <1>31 DEF Parsed
<1>33. ReadHandshake(Query(body) \o tail) = Result("ok", val, q)
  BY <1>23, <1>32, HandshakeIs
<1>34. PICK hs : hs = ReadHandshake(Query(body) \o tail)
  OBVIOUS
<1>35. hs.st = "ok" /\ hs.val = val /\ hs.rest = q
  BY <1>33, <1>34, ResultIs
<1>36. val.host = body /\ val.next = 1
  BY <1>28, <1>30, <1>31
<1>37. QueryAnswer(Message(body) \o tail) = Result("ok", body, <<>>)
  <2>1. PICK message : message = ReadMessage(Message(body) \o tail)
    OBVIOUS
  <2>2. Len(h) + 1 <= MaxPacket
    BY <1>0, <1>6
  <2>3. message = Result("ok", h, tail)
    BY <1>3, <1>6, <2>1, <2>2, MessageRead DEF Message
  <2>4. message.st = "ok" /\ message.val = h
    BY <2>3, ResultIs
  <2>5. h \o <<>> = h
    BY <1>6, ConcatEmptySeq
  <2>6. readString(h) = Result("ok", body, <<>>)
    BY <1>2, <1>3, <1>5, <2>5, StringRead
  <2> QED
    BY <2>1, <2>4, <2>6 DEF QueryAnswer
<1> QED
  BY <1>19, <1>34, <1>35, <1>36, <1>37

----------------------------------------------------------------------------
\* Host names

\* What Lower leaves alone, and where dots, colons and spaces come from.
LEMMA LowerIs ==
    ASSUME NEW b \in Bytes
    PROVE  /\ Lower(b) \in Bytes
           /\ Lower(b) = Dot <=> b = Dot
           /\ Lower(b) = Colon <=> b = Colon
           /\ Lower(b) = Space <=> b = Space
BY NamesAssumption DEF Lower

\* The positions a to b of a host name are spaces.
Blank(h, a, b) == \A k \in a .. b : h[k] = Space

\* What PackForHost finds, position by position: the name begins behind i.
Written(h, i, name) ==
    /\ Blank(h, 1, i)
    /\ \A k \in 1 .. Len(name) : Lower(h[i + k]) = name[k]
    /\ \/ Blank(h, i + Len(name) + 1, Len(h))
       \/ /\ i + Len(name) < Len(h) /\ h[i + Len(name) + 1] = Dot
          /\ Blank(h, i + Len(name) + 2, Len(h))
       \/ /\ i + Len(name) < Len(h) /\ h[i + Len(name) + 1] = Colon
          /\ \A k \in i + Len(name) + 2 .. Len(h) : h[k] # Colon

\* The full name of a pack.
FullName(id) == id \o <<Dot>> \o Domain

\* A full name has no capitals, colons or spaces, and does not end in a dot.
LEMMA FullNameIs ==
    ASSUME NEW id \in PackIds
    PROVE  /\ FullName(id) \in Seq(Bytes) /\ Len(FullName(id)) = Len(id) + 1 + Len(Domain)
           /\ Len(id) \in Nat \ {0} /\ Len(Domain) \in Nat \ {0}
           /\ \A k \in 1 .. Len(FullName(id)) : FullName(id)[k] \notin {Colon, Space}
           /\ FullName(id)[Len(FullName(id))] # Dot
           /\ \A k \in 1 .. Len(id) : FullName(id)[k] = id[k]
           /\ \A k \in 1 .. 1 + Len(Domain) : FullName(id)[Len(id) + k] = (<<Dot>> \o Domain)[k]
<1> DEFINE s == <<Dot>> \o Domain
           t == id \o s
<1>1. /\ id \in Seq(Bytes) /\ Domain \in Seq(Bytes) /\ id # <<>> /\ Domain # <<>> /\ Dot \in Bytes
      /\ \A i \in DOMAIN id : id[i] \notin {Colon, Space}
      /\ \A i \in DOMAIN Domain : Domain[i] \notin {Colon, Space}
      /\ Dot \notin {Colon, Space} /\ Domain[Len(Domain)] # Dot
  BY ProtocolAssumption, NamesAssumption
<1>2. /\ Len(id) \in Nat \ {0} /\ Len(Domain) \in Nat \ {0}
      /\ DOMAIN id = 1 .. Len(id) /\ DOMAIN Domain = 1 .. Len(Domain)
  BY <1>1, EmptySeq, LenProperties
<1>3. <<Dot>> \in Seq(Bytes) /\ Len(<<Dot>>) = 1 /\ <<Dot>>[1] = Dot
  BY <1>1, BytesAre
<1>4. /\ s \in Seq(Bytes) /\ Len(s) = 1 + Len(Domain) /\ s[1] = Dot
      /\ \A k \in 2 .. 1 + Len(Domain) : s[k] = Domain[k - 1]
  <2>1. /\ s \in Seq(Bytes) /\ Len(s) = 1 + Len(Domain)
        /\ \A i \in 1 .. 1 + Len(Domain) : s[i] = IF i <= 1 THEN <<Dot>>[i] ELSE Domain[i - 1]
    BY <1>1, <1>3, ConcatProperties
  <2> QED
    BY <1>2, <1>3, <2>1
<1>5. \A k \in 1 .. Len(s) : s[k] \notin {Colon, Space}
  <2> SUFFICES ASSUME NEW k \in 1 .. Len(s) PROVE s[k] \notin {Colon, Space}
    OBVIOUS
  <2>1. CASE k = 1
    BY <1>1, <1>4, <2>1
  <2>2. CASE k # 1
    <3>1. k \in 2 .. 1 + Len(Domain) /\ k - 1 \in 1 .. Len(Domain)
      BY <1>2, <1>4, <2>2
    <3> QED
      BY <1>1, <1>2, <1>4, <3>1
  <2> QED
    BY <2>1, <2>2
<1>6. s[Len(s)] # Dot
  <2>1. Len(s) \in 2 .. 1 + Len(Domain) /\ Len(s) - 1 = Len(Domain)
    BY <1>2, <1>4
  <2> QED
    BY <1>1, <1>4, <2>1
<1> HIDE DEF s
<1>7. /\ t \in Seq(Bytes) /\ Len(t) = Len(id) + Len(s)
      /\ \A i \in 1 .. Len(id) + Len(s) : t[i] = IF i <= Len(id) THEN id[i] ELSE s[i - Len(id)]
  <2>1. id \in Seq(Bytes) /\ s \in Seq(Bytes)
    BY <1>1, <1>4
  <2> QED
    BY <2>1, ConcatProperties
<1>8. FullName(id) = t
  <2>1. (id \o <<Dot>>) \o Domain = id \o (<<Dot>> \o Domain)
    BY <1>1, <1>3, ConcatAssociative
  <2> QED
    BY <2>1 DEF FullName, s
<1> HIDE DEF t
<1>9. \A k \in 1 .. Len(id) : t[k] = id[k]
  BY <1>2, <1>4, <1>7
<1>10. \A k \in 1 .. Len(s) : t[Len(id) + k] = s[k]
  <2> SUFFICES ASSUME NEW k \in 1 .. Len(s) PROVE t[Len(id) + k] = s[k]
    OBVIOUS
  <2>1. Len(id) + k \in 1 .. Len(id) + Len(s) /\ ~(Len(id) + k <= Len(id)) /\ (Len(id) + k) - Len(id) = k
    BY <1>2, <1>4
  <2> QED
    BY <1>7, <2>1
<1>11. \A k \in 1 .. Len(t) : t[k] \notin {Colon, Space}
  <2> SUFFICES ASSUME NEW k \in 1 .. Len(t) PROVE t[k] \notin {Colon, Space}
    OBVIOUS
  <2>1. CASE k <= Len(id)
    BY <1>1, <1>2, <1>4, <1>7, <2>1
  <2>2. CASE ~(k <= Len(id))
    <3>1. k - Len(id) \in 1 .. Len(s) /\ t[k] = s[k - Len(id)]
      BY <1>2, <1>4, <1>7, <2>2
    <3> QED
      BY <1>5, <3>1
  <2> QED
    BY <2>1, <2>2
<1>12. t[Len(t)] # Dot
  <2>1. Len(s) \in 1 .. Len(s) /\ Len(t) = Len(id) + Len(s)
    BY <1>2, <1>4, <1>7
  <2> QED
    BY <1>6, <1>10, <2>1
<1>13. Len(t) = Len(id) + 1 + Len(Domain) /\ Len(s) = 1 + Len(Domain)
  BY <1>2, <1>4, <1>7
<1> QED
  BY <1>2, <1>7, <1>8, <1>9, <1>10, <1>11, <1>12, <1>13 DEF s

\* PackForHost finds the pack whose full name is left of the host name.
LEMMA FoundByName ==
    ASSUME NEW host, NEW id \in PackIds, Normalised(host) \in Seq(Bytes)
    PROVE  PackForHost(host) = id <=> Normalised(host) = FullName(id)
<1> DEFINE name == Normalised(host)
           n == Len(name) - Len(Domain) - 1
           s == <<Dot>> \o Domain
           t == FullName(id)
<1>1. /\ t \in Seq(Bytes) /\ Len(t) = Len(id) + 1 + Len(Domain)
      /\ Len(id) \in Nat \ {0} /\ Len(Domain) \in Nat \ {0}
      /\ \A k \in 1 .. Len(id) : t[k] = id[k]
      /\ \A k \in 1 .. 1 + Len(Domain) : t[Len(id) + k] = s[k]
  BY FullNameIs
<1>2. id \in Seq(Bytes) /\ id # <<>> /\ Domain \in Seq(Bytes) /\ Dot \in Bytes
  BY ProtocolAssumption, NamesAssumption
<1>3. s \in Seq(Bytes) /\ Len(s) = 1 + Len(Domain)
  BY <1>2, BytesAre, ConcatProperties
<1>4. name \in Seq(Bytes) /\ Len(name) \in Nat
  BY LenProperties
<1>5. PackForHost(host) = IF /\ n > 0 /\ SubSeq(name, n + 1, Len(name)) = s
                             /\ Dot \notin ToSet(SubSeq(name, 1, n)) /\ SubSeq(name, 1, n) \in PackIds
                          THEN SubSeq(name, 1, n) ELSE <<>>
  BY DEF PackForHost
<1> HIDE DEF name, s, t
<1>6. ASSUME PackForHost(host) = id PROVE name = t
  <2>1. n > 0 /\ SubSeq(name, n + 1, Len(name)) = s /\ SubSeq(name, 1, n) = id
    BY <1>2, <1>5, <1>6
  <2>2. n \in 0 .. Len(name)
    BY <1>1, <1>4, <2>1
  <2>3. /\ Len(id) = n /\ \A i \in 1 .. n : id[i] = name[i]
        /\ Len(s) = Len(name) - n /\ \A i \in 1 .. Len(name) - n : s[i] = name[n + i]
    <3>1. n \in Nat
      BY <2>2
    <3> HIDE DEF n
    <3> QED
      BY <1>4, <2>1, <2>2, Cut
  <2>4. Len(name) = Len(t)
    BY <1>1, <1>4, <2>3
  <2>5. ASSUME NEW k \in 1 .. Len(name) PROVE name[k] = t[k]
    <3>1. CASE k <= n
      BY <1>1, <1>4, <2>2, <2>3, <3>1
    <3>2. CASE ~(k <= n)
      <4>1. k - n \in 1 .. Len(name) - n /\ k - n \in 1 .. 1 + Len(Domain) /\ n + (k - n) = k
        BY <1>1, <1>4, <2>2, <3>2
      <4>2. s[k - n] = name[k] /\ t[k] = s[k - n]
        BY <1>1, <2>3, <4>1, ZenonT(30)
      <4> QED
        BY <4>2
    <3> QED
      BY <3>1, <3>2
  <2> QED
    BY <1>1, <1>4, <2>4, <2>5, SeqEqual
<1>7. ASSUME name = t PROVE PackForHost(host) = id
  <2>1. n = Len(id) /\ n > 0 /\ n \in 0 .. Len(name) /\ Len(name) - n = 1 + Len(Domain)
    BY <1>1, <1>7
  <2>2. /\ SubSeq(name, n + 1, Len(name)) \in Seq(Bytes)
        /\ Len(SubSeq(name, n + 1, Len(name))) = Len(name) - n
        /\ \A i \in 1 .. Len(name) - n : SubSeq(name, n + 1, Len(name))[i] = name[n + i]
        /\ SubSeq(name, 1, n) \in Seq(Bytes) /\ Len(SubSeq(name, 1, n)) = n
        /\ \A i \in 1 .. n : SubSeq(name, 1, n)[i] = name[i]
    <3> HIDE DEF n
    <3> QED
      BY <1>4, <2>1, Cut
  <2> HIDE DEF n
  <2>3. SubSeq(name, 1, n) = id
    <3>1. \A i \in 1 .. n : SubSeq(name, 1, n)[i] = id[i]
      BY <1>1, <1>7, <2>1, <2>2
    <3> QED
      BY <1>2, <2>1, <2>2, <3>1, SeqEqual
  <2>4. SubSeq(name, n + 1, Len(name)) = s
    <3>1. \A i \in 1 .. 1 + Len(Domain) : SubSeq(name, n + 1, Len(name))[i] = s[i]
      BY <1>1, <1>7, <2>1, <2>2
    <3> QED
      BY <1>3, <2>1, <2>2, <3>1, SeqEqual
  <2>5. Dot \notin ToSet(id)
    BY NamesAssumption
  <2> QED
    BY <1>5, <2>1, <2>3, <2>4, <2>5 DEF n
<1> QED
  BY <1>6, <1>7 DEF name, t

\* CutPort takes what is before the last colon.
LEMMA CutPortIs ==
    ASSUME NEW s \in Seq(Bytes)
    PROVE  /\ CutPort(s) \in Seq(Bytes)
           /\ \/ CutPort(s) = s /\ \A k \in 1 .. Len(s) : s[k] # Colon
              \/ \E c \in 1 .. Len(s) :
                    /\ s[c] = Colon /\ \A k \in c + 1 .. Len(s) : s[k] # Colon
                    /\ Len(CutPort(s)) = c - 1
                    /\ \A k \in 1 .. c - 1 : CutPort(s)[k] = s[k]
<1> DEFINE colons == {i \in DOMAIN s : s[i] = Colon}
           c == Max(colons)
<1>1. Len(s) \in Nat /\ DOMAIN s = 1 .. Len(s)
  BY LenProperties
<1>2. CutPort(s) = IF colons = {} THEN s ELSE SubSeq(s, 1, c - 1)
  BY DEF CutPort
<1>3. CASE colons = {}
  BY <1>1, <1>2, <1>3
<1>4. CASE colons # {}
  <2>1. c \in colons /\ \A k \in colons : k <= c
    <3>1. colons \in SUBSET (1 .. Len(s))
      BY <1>1
    <3> HIDE DEF colons
    <3> QED
      BY <1>1, <1>4, <3>1, MaxIs
  <2>2. c \in 1 .. Len(s) /\ s[c] = Colon
    BY <1>1, <2>1
  <2>3. \A k \in c + 1 .. Len(s) : s[k] # Colon
    <3> SUFFICES ASSUME NEW k \in c + 1 .. Len(s), s[k] = Colon PROVE FALSE
      OBVIOUS
    <3>1. k \in 1 .. Len(s) /\ ~(k <= c)
      BY <1>1, <2>2
    <3> QED
      BY <1>1, <2>1, <3>1
  <2> HIDE DEF c
  <2>4. PICK d \in 0 .. Len(s) : d = c - 1
    BY <1>1, <2>2
  <2>5. /\ SubSeq(s, 1, d) \in Seq(Bytes) /\ Len(SubSeq(s, 1, d)) = d
        /\ \A k \in 1 .. d : SubSeq(s, 1, d)[k] = s[k]
    BY Cut
  <2>6. CutPort(s) = SubSeq(s, 1, d)
    BY <1>2, <1>4, <2>4
  <2> QED
    BY <2>2, <2>3, <2>4, <2>5, <2>6
<1> QED
  BY <1>3, <1>4

\* What is left of a host name before its port is cut off: the positions from lo
\* to end in lower case, of those up to hi that the spaces leave.
Trimmed(h, low, lo, hi, end) ==
    /\ Blank(h, 1, lo - 1) /\ Blank(h, hi + 1, Len(h)) /\ h[lo] # Space /\ h[hi] # Space
    /\ end = IF h[hi] = Dot THEN hi - 1 ELSE hi
    /\ low \in Seq(Bytes) /\ Len(low) = end - lo + 1
    /\ \A k \in 1 .. Len(low) : low[k] = Lower(h[lo + k - 1])
    /\ Normalised(h) = CutPort(low)

\* Normalised trims spaces and then a dot, and lowers the rest.
LEMMA NormalisedIs ==
    ASSUME NEW h \in Seq(Bytes)
    PROVE  \/ Normalised(h) = <<>> /\ Blank(h, 1, Len(h))
           \/ \E lo, hi \in 1 .. Len(h) : \E end \in 0 .. Len(h) :
              \E low \in Seq(Bytes) : lo <= hi /\ Trimmed(h, low, lo, hi, end)
<1> DEFINE kept == {i \in DOMAIN h : h[i] # Space}
           lo == Min(kept)
           hi == Max(kept)
           trimmed == TrimSpace(h)
           name == TrimDot(trimmed)
           low == [i \in DOMAIN name |-> Lower(name[i])]
<1>1. Len(h) \in Nat /\ DOMAIN h = 1 .. Len(h) /\ \A i \in 1 .. Len(h) : h[i] \in Bytes
  BY LenProperties, ElementOfSeq
<1>2. Normalised(h) = CutPort(low)
  BY DEF Normalised
<1>3. trimmed = IF kept = {} THEN <<>> ELSE SubSeq(h, lo, hi)
  BY DEF TrimSpace
<1>4. name = IF trimmed # <<>> /\ trimmed[Len(trimmed)] = Dot
             THEN SubSeq(trimmed, 1, Len(trimmed) - 1) ELSE trimmed
  BY DEF TrimDot, Last, Front
<1> HIDE DEF trimmed, name
<1>5. CASE kept = {}
  <2>1. trimmed = <<>> /\ name = <<>>
    BY <1>3, <1>4, <1>5
  <2>2. low = <<>>
    <3>1. DOMAIN name = {}
      BY <2>1
    <3>2. low = [i \in {} |-> Lower(name[i])]
      BY <3>1
    <3> QED
      BY <3>2
  <2> HIDE DEF low
  <2>3. CutPort(<<>>) = <<>>
    BY DEF CutPort
  <2>4. Blank(h, 1, Len(h))
    BY <1>1, <1>5 DEF Blank
  <2> QED
    BY <1>2, <2>2, <2>3, <2>4
<1>6. CASE kept # {}
  <2>1. /\ lo \in kept /\ \A k \in kept : lo <= k
        /\ hi \in kept /\ \A k \in kept : k <= hi
    <3>1. kept \in SUBSET (1 .. Len(h)) /\ kept \subseteq Nat
      BY <1>1
    <3> HIDE DEF kept
    <3> QED
      BY <1>1, <1>6, <3>1, MinIs, MaxIs
  <2>2. lo \in 1 .. Len(h) /\ hi \in 1 .. Len(h) /\ lo <= hi /\ h[lo] # Space /\ h[hi] # Space
    BY <1>1, <2>1
  <2>e. trimmed = SubSeq(h, lo, hi)
    BY <1>3, <1>6
  <2> HIDE DEF lo, hi
  <2>3. Blank(h, 1, lo - 1) /\ Blank(h, hi + 1, Len(h))
    <3>1. ASSUME NEW k \in 1 .. Len(h), k < lo \/ hi < k PROVE h[k] = Space
      BY <1>1, <2>1, <2>2, <3>1
    <3> QED
      BY <1>1, <2>2, <3>1 DEF Blank
  <2> HIDE DEF kept
  <2>4. /\ trimmed \in Seq(Bytes) /\ Len(trimmed) = hi - lo + 1
        /\ \A i \in 1 .. hi - lo + 1 : trimmed[i] = h[lo + i - 1]
    <3>1. \A i \in lo .. hi : h[i] \in Bytes
      BY <1>1, <2>2
    <3> QED
      BY <2>2, <2>e, <3>1, SubSeqProperties
  <2>5. trimmed # <<>> /\ trimmed[Len(trimmed)] = h[hi]
    <3>1. Len(trimmed) \in 1 .. hi - lo + 1 /\ lo + Len(trimmed) - 1 = hi
      BY <1>1, <2>2, <2>4
    <3>2. Len(<<>>) = 0
      BY EmptySeq
    <3> QED
      BY <2>4, <3>1, <3>2
  <2> DEFINE end == IF h[hi] = Dot THEN hi - 1 ELSE hi
  <2>6. end \in 0 .. Len(h) /\ end \in {hi - 1, hi} /\ end - lo + 1 \in 0 .. hi - lo + 1
    BY <1>1, <2>2
  <2>7. /\ name \in Seq(Bytes) /\ Len(name) = end - lo + 1
        /\ \A k \in 1 .. end - lo + 1 : name[k] = h[lo + k - 1]
    <3>1. CASE h[hi] = Dot
      <4>1. name = SubSeq(trimmed, 1, Len(trimmed) - 1) /\ Len(trimmed) - 1 = end - lo + 1
        BY <1>1, <1>4, <2>2, <2>4, <2>5, <3>1
      <4>2. PICK d \in 0 .. Len(trimmed) : d = Len(trimmed) - 1
        BY <1>1, <2>2, <2>4
      <4>3. /\ SubSeq(trimmed, 1, d) \in Seq(Bytes) /\ Len(SubSeq(trimmed, 1, d)) = d
            /\ \A k \in 1 .. d : SubSeq(trimmed, 1, d)[k] = trimmed[k]
        BY <2>4, Cut
      <4>4. \A k \in 1 .. d : k \in 1 .. hi - lo + 1
        BY <1>1, <2>2, <2>4, <4>2
      <4> HIDE DEF end
      <4> QED
        BY <2>4, <4>1, <4>2, <4>3, <4>4
    <3>2. CASE h[hi] # Dot
      BY <1>4, <2>4, <2>5, <3>2
    <3> QED
      BY <3>1, <3>2
  <2>e2. end = IF h[hi] = Dot THEN hi - 1 ELSE hi
    OBVIOUS
  <2> HIDE DEF end
  <2>8. /\ low \in Seq(Bytes) /\ Len(low) = end - lo + 1
        /\ \A k \in 1 .. Len(low) : low[k] = Lower(h[lo + k - 1])
    <3>1. PICK n \in Nat : n = Len(name) /\ n = end - lo + 1 /\ DOMAIN name = 1 .. n
      BY <2>7, LenProperties
    <3>2. \A k \in 1 .. n : name[k] \in Bytes
      BY <2>7, <3>1, ElementOfSeq
    <3>3. \A k \in 1 .. n : Lower(name[k]) \in Bytes
      BY <3>2, LowerIs
    <3>4. low = [k \in 1 .. n |-> Lower(name[k])]
      BY <3>1
    <3> HIDE DEF low
    <3>5. low \in [1 .. n -> Bytes] /\ \A k \in 1 .. n : low[k] = Lower(name[k])
      BY <3>3, <3>4
    <3>6. low \in Seq(Bytes) /\ Len(low) = n
      BY <3>5, BytesAre
    <3> QED
      BY <2>7, <3>1, <3>5, <3>6
  <2> HIDE DEF low
  <2>9. Trimmed(h, low, lo, hi, end)
    BY <1>2, <2>2, <2>3, <2>e2, <2>8 DEF Trimmed
  <2> QED
    BY <2>2, <2>6, <2>8, <2>9
<1> QED
  BY <1>5, <1>6

\* The ways to write a name that PackForHost knows.
Routable(h, id) ==
    LET AllSpace(s) == ToSet(s) \subseteq {Space}
    IN  \E i \in 0 .. Len(h) - Len(FullName(id)) :
          LET tail == SubSeq(h, i + Len(FullName(id)) + 1, Len(h)) IN
          /\ AllSpace(SubSeq(h, 1, i))
          /\ \A k \in DOMAIN FullName(id) : Lower(h[i + k]) = FullName(id)[k]
          /\ \/ AllSpace(tail)
             \/ Head(tail) = Dot /\ AllSpace(Tail(tail))
             \/ Head(tail) = Colon /\ Colon \notin ToSet(Tail(tail))

\* Position by position.
LEMMA RoutableIs ==
    ASSUME NEW h \in Seq(Bytes), NEW id \in PackIds
    PROVE  Routable(h, id) <=> \E i \in 0 .. Len(h) - Len(FullName(id)) : Written(h, i, FullName(id))
<1> DEFINE t == FullName(id)
           m == Len(t)
           tail(i) == SubSeq(h, i + m + 1, Len(h))
           Space1(s) == ToSet(s) \subseteq {Space}
           Body(i) == /\ Space1(SubSeq(h, 1, i))
                      /\ \A k \in DOMAIN t : Lower(h[i + k]) = t[k]
                      /\ \/ Space1(tail(i))
                         \/ Head(tail(i)) = Dot /\ Space1(Tail(tail(i)))
                         \/ Head(tail(i)) = Colon /\ Colon \notin ToSet(Tail(tail(i)))
<1>1. Routable(h, id) <=> \E i \in 0 .. Len(h) - m : Body(i)
  BY DEF Routable
<1>2. t \in Seq(Bytes) /\ m \in Nat /\ DOMAIN t = 1 .. m /\ Len(h) \in Nat
  BY FullNameIs, LenProperties
<1> HIDE DEF t, m
<1>3. ASSUME NEW i \in 0 .. Len(h) - m PROVE Body(i) <=> Written(h, i, t)
  <2> DEFINE r == tail(i)
             front == SubSeq(h, 1, i)
  <2>1. i \in 0 .. Len(h) /\ i + m \in 0 .. Len(h)
    BY <1>2
  <2>2. PICK e \in 0 .. Len(h) : e = i + m
    BY <2>1
  <2>3. /\ r \in Seq(Bytes) /\ Len(r) = Len(h) - e
        /\ \A k \in 1 .. Len(h) - e : r[k] = h[e + k]
    BY <2>2, Cut
  <2>4. /\ front \in Seq(Bytes) /\ Len(front) = i /\ \A k \in 1 .. i : front[k] = h[k]
    BY <2>1, Cut
  <2> HIDE DEF r, front
  <2>5. ASSUME NEW s \in Seq(Bytes)
        PROVE  /\ Space1(s) <=> \A k \in 1 .. Len(s) : s[k] = Space
               /\ Colon \notin ToSet(s) <=> \A k \in 1 .. Len(s) : s[k] # Colon
    <3>1. DOMAIN s = 1 .. Len(s)
      BY LenProperties
    <3> QED
      BY <3>1 DEF ToSet
  <2>6. Space1(front) <=> Blank(h, 1, i)
    BY <2>4, <2>5 DEF Blank
  <2>7. Space1(r) <=> Blank(h, e + 1, Len(h))
    <3>1. \A k \in 1 .. Len(h) - e : e + k \in e + 1 .. Len(h)
      BY <1>2
    <3>2. \A k \in e + 1 .. Len(h) : k - e \in 1 .. Len(h) - e /\ e + (k - e) = k
      BY <1>2
    <3>3. (\A k \in 1 .. Len(h) - e : h[e + k] = Space) <=> Blank(h, e + 1, Len(h))
      BY <3>1, <3>2 DEF Blank
    <3> QED
      BY <2>3, <2>5, <3>3
  <2>8. CASE e = Len(h)
    <3>1. Blank(h, e + 1, Len(h))
      BY <1>2, <2>8 DEF Blank
    <3>2. Space1(r)
      BY <2>7, <3>1
    <3> QED
      BY <1>2, <2>2, <2>6, <3>1, <3>2 DEF Written, r, front, m
  <2>9. CASE e < Len(h)
    <3>1. r # <<>>
      BY <2>3, <2>9, EmptySeq
    <3>2. Head(r) = h[e + 1]
      <4>1. Head(r) = r[1] /\ 1 \in 1 .. Len(h) - e
        BY <1>2, <2>3, <2>9, <3>1
      <4> QED
        BY <2>3, <4>1
    <3>3. /\ Tail(r) \in Seq(Bytes) /\ Len(Tail(r)) = Len(h) - e - 1
          /\ \A k \in 1 .. Len(h) - e - 1 : Tail(r)[k] = h[e + 1 + k]
      <4>1. /\ Tail(r) \in Seq(Bytes) /\ Len(Tail(r)) = Len(r) - 1
            /\ \A k \in 1 .. Len(Tail(r)) : Tail(r)[k] = r[k + 1]
        BY <2>3, <3>1, HeadTailProperties
      <4>2. \A k \in 1 .. Len(h) - e - 1 : k + 1 \in 1 .. Len(h) - e /\ e + (k + 1) = e + 1 + k
        BY <1>2
      <4> QED
        BY <2>3, <4>1, <4>2
    <3>4. /\ \A k \in 1 .. Len(h) - e - 1 : e + 1 + k \in e + 2 .. Len(h)
          /\ \A k \in e + 2 .. Len(h) : k - e - 1 \in 1 .. Len(h) - e - 1 /\ e + 1 + (k - e - 1) = k
      BY <1>2
    <3>5. Space1(Tail(r)) <=> Blank(h, e + 2, Len(h))
      <4>1. (\A k \in 1 .. Len(h) - e - 1 : h[e + 1 + k] = Space) <=> Blank(h, e + 2, Len(h))
        BY <3>4 DEF Blank
      <4> QED
        BY <2>5, <3>3, <4>1
    <3>6. Colon \notin ToSet(Tail(r)) <=> \A k \in e + 2 .. Len(h) : h[k] # Colon
      <4>1. (\A k \in 1 .. Len(h) - e - 1 : h[e + 1 + k] # Colon) <=> \A k \in e + 2 .. Len(h) : h[k] # Colon
        BY <3>4
      <4> QED
        BY <2>5, <3>3, <4>1
    <3>7. Body(i) <=> /\ Blank(h, 1, i)
                      /\ \A k \in 1 .. m : Lower(h[i + k]) = t[k]
                      /\ \/ Blank(h, e + 1, Len(h))
                         \/ h[e + 1] = Dot /\ Blank(h, e + 2, Len(h))
                         \/ h[e + 1] = Colon /\ \A k \in e + 2 .. Len(h) : h[k] # Colon
      <4>1. Body(i) <=> /\ Space1(front)
                        /\ \A k \in 1 .. m : Lower(h[i + k]) = t[k]
                        /\ \/ Space1(r)
                           \/ Head(r) = Dot /\ Space1(Tail(r))
                           \/ Head(r) = Colon /\ Colon \notin ToSet(Tail(r))
        BY <1>2 DEF r, front
      <4> HIDE DEF Body, Space1
      <4> QED
        BY <2>6, <2>7, <3>2, <3>5, <3>6, <4>1
    <3> HIDE DEF Body
    <3> QED
      BY <2>2, <2>9, <3>7 DEF Written, m
  <2>10. e = Len(h) \/ e < Len(h)
    BY <1>2
  <2> HIDE DEF Body
  <2> QED
    BY <2>8, <2>9, <2>10
<1> HIDE DEF Body
<1> QED
  BY <1>1, <1>3 DEF t, m

\* What is routable has no dot before a port.
LEMMA WrittenUndotted ==
    ASSUME NEW h \in Seq(Bytes), NEW id \in PackIds,
           NEW i \in 0 .. Len(h) - Len(FullName(id)), Written(h, i, FullName(id))
    PROVE  ~DotBeforePort(h)
<1> SUFFICES ASSUME NEW j \in 1 .. Len(h) - 1, h[j] = Dot, h[j + 1] = Colon PROVE FALSE
  BY DEF DotBeforePort
<1>1. PICK t, m : t = FullName(id) /\ m = Len(t)
  OBVIOUS
<1>2. /\ m \in Nat \ {0} /\ Len(h) \in Nat /\ \A k \in 1 .. Len(h) : h[k] \in Bytes
      /\ \A k \in 1 .. m : t[k] # Colon
      /\ t[m] # Dot /\ Dot # Colon /\ Space # Colon
  BY <1>1, FullNameIs, LenProperties, ElementOfSeq, NamesAssumption
<1>3. /\ \A k \in 1 .. i : h[k] = Space
      /\ \A k \in 1 .. m : Lower(h[i + k]) = t[k]
  BY <1>1 DEF Written, Blank
<1>4. CASE j + 1 <= i
  BY <1>2, <1>3, <1>4
<1>5. CASE j + 1 > i /\ j + 1 <= i + m
  <2>1. PICK k \in 1 .. m : i + k = j + 1
    BY <1>2, <1>5
  <2>2. h[i + k] = Colon /\ h[i + k] \in Bytes /\ Lower(h[i + k]) = t[k]
    BY <1>2, <1>3, <2>1
  <2> QED
    BY <1>2, <2>2, LowerIs
<1>6. CASE j = i + m
  <2>1. m \in 1 .. m
    BY <1>2
  <2>2. h[i + m] = Dot /\ h[i + m] \in Bytes /\ Lower(h[i + m]) = t[m]
    BY <1>2, <1>3, <1>6, <2>1
  <2> QED
    BY <1>2, <2>2, LowerIs
<1>7. CASE j > i + m
  <2>1. /\ j + 1 \in i + m + 1 .. Len(h) /\ j + 1 \in i + m + 2 .. Len(h)
    BY <1>2, <1>7
  <2>2. \/ \A k \in i + m + 1 .. Len(h) : h[k] = Space
        \/ \A k \in i + m + 2 .. Len(h) : h[k] = Space
        \/ \A k \in i + m + 2 .. Len(h) : h[k] # Colon
    BY <1>1 DEF Written, Blank
  <2> QED
    BY <1>2, <2>1, <2>2
<1> QED
  BY <1>2, <1>4, <1>5, <1>6, <1>7

\* A way to write a name is routable unless it has a dot before a port.
LEMMA SpellsIs ==
    ASSUME NEW h \in Seq(Bytes), NEW id \in PackIds
    PROVE  Spells(h, id) /\ ~DotBeforePort(h) <=> Routable(h, id)
<1> DEFINE t == FullName(id)
           m == Len(t)
           tail(i) == SubSeq(h, i + m + 1, Len(h))
           AllSpace(s) == ToSet(s) \subseteq {Space}
           Port(s) == Head(s) = Colon /\ Colon \notin ToSet(Tail(s))
           Name(i) == AllSpace(SubSeq(h, 1, i)) /\ \A k \in DOMAIN t : Lower(h[i + k]) = t[k]
<1>1. Spells(h, id) <=> \E i \in 0 .. Len(h) - m :
                          /\ Name(i)
                          /\ \/ AllSpace(tail(i)) \/ Port(tail(i))
                             \/ Head(tail(i)) = Dot /\ (AllSpace(Tail(tail(i))) \/ Port(Tail(tail(i))))
  BY DEF Spells, FullName
<1>2. Routable(h, id) <=> \E i \in 0 .. Len(h) - m :
                            /\ Name(i)
                            /\ \/ AllSpace(tail(i)) \/ Port(tail(i))
                               \/ Head(tail(i)) = Dot /\ AllSpace(Tail(tail(i)))
  BY DEF Routable
<1>3. t \in Seq(Bytes) /\ m \in Nat /\ Len(h) \in Nat
  BY FullNameIs, LenProperties
<1>4. ASSUME NEW i \in 0 .. Len(h) - m, ~AllSpace(tail(i)), Head(tail(i)) = Dot,
             ~AllSpace(Tail(tail(i))), Port(Tail(tail(i)))
      PROVE  DotBeforePort(h)
  <2>0. PICK e \in 0 .. Len(h) : e = i + m
    BY <1>3
  <2>1. PICK r : r = tail(i)
    OBVIOUS
  <2>2. r \in Seq(Bytes) /\ Len(r) = Len(h) - e /\ \A k \in 1 .. Len(h) - e : r[k] = h[e + k]
    BY <2>0, <2>1, Cut
  <2>3. ASSUME NEW s \in Seq(Bytes), ~AllSpace(s) PROVE s # <<>>
    <3>1. SUFFICES ASSUME s = <<>> PROVE FALSE
      OBVIOUS
    <3>2. DOMAIN s = {}
      BY <3>1
    <3> QED
      BY <2>3, <3>2 DEF ToSet
  <2>4. r # <<>>
    BY <1>4, <2>1, <2>2, <2>3
  <2>5. /\ Tail(r) \in Seq(Bytes) /\ Len(Tail(r)) = Len(r) - 1
        /\ \A k \in 1 .. Len(Tail(r)) : Tail(r)[k] = r[k + 1]
    BY <2>2, <2>4, HeadTailProperties
  <2>6. Tail(r) # <<>>
    BY <1>4, <2>1, <2>3, <2>5
  <2>7. Len(Tail(r)) \in Nat /\ Len(Tail(r)) > 0 /\ Len(r) > 1
    <3>1. Len(Tail(r)) \in Nat \ {0} /\ Len(r) \in Nat
      BY <2>2, <2>5, <2>6, EmptySeq, LenProperties
    <3> QED
      BY <2>5, <3>1
  <2>8. r[1] = Dot /\ Tail(r)[1] = Colon
    BY <1>4, <2>1, <2>4, <2>6
  <2>9. r[2] = Colon
    BY <2>5, <2>7, <2>8
  <2>10. h[e + 1] = Dot /\ h[e + 1 + 1] = Colon /\ e + 1 \in 1 .. Len(h) - 1
    BY <1>3, <2>0, <2>2, <2>7, <2>8, <2>9
  <2> QED
    BY <2>10 DEF DotBeforePort
<1>5. Routable(h, id) => ~DotBeforePort(h)
  BY RoutableIs, WrittenUndotted
<1> HIDE DEF t, m, tail, AllSpace, Port, Name
<1> QED
  BY <1>1, <1>2, <1>4, <1>5

\* Whatever the name is written with is taken off it again.
LEMMA WrittenIsFound ==
    ASSUME NEW h \in Seq(Bytes), NEW id \in PackIds,
           NEW i \in 0 .. Len(h) - Len(FullName(id)), Written(h, i, FullName(id))
    PROVE  Normalised(h) = FullName(id)
<1> DEFINE t == FullName(id)
<1>1. PICK m \in Nat \ {0} : /\ m = Len(t) /\ t \in Seq(Bytes) /\ t[m] # Dot
                             /\ \A k \in 1 .. m : t[k] \notin {Colon, Space}
  BY FullNameIs
<1>2. Len(h) \in Nat /\ i \in 0 .. Len(h) - m /\ \A k \in 1 .. Len(h) : h[k] \in Bytes
  BY <1>1, LenProperties, ElementOfSeq
<1>3. /\ Blank(h, 1, i)
      /\ \A k \in 1 .. m : Lower(h[i + k]) = t[k]
      /\ \/ Blank(h, i + m + 1, Len(h))
         \/ i + m < Len(h) /\ h[i + m + 1] = Dot /\ Blank(h, i + m + 2, Len(h))
         \/ i + m < Len(h) /\ h[i + m + 1] = Colon /\ \A k \in i + m + 2 .. Len(h) : h[k] # Colon
  BY <1>1 DEF Written
<1> HIDE DEF t
<1>4. \A k \in 1 .. m : i + k \in 1 .. Len(h) /\ h[i + k] \in Bytes
  BY <1>1, <1>2
<1>5. \A k \in 1 .. m : h[i + k] \notin {Colon, Space}
  BY <1>1, <1>3, <1>4, LowerIs
<1>6. h[i + m] # Dot
  <2>1. m \in 1 .. m
    BY <1>1
  <2> QED
    BY <1>1, <1>3, <1>4, <2>1, LowerIs
<1>7. ~Blank(h, 1, Len(h))
  <2>1. 1 \in 1 .. m
    BY <1>1
  <2> QED
    BY <1>4, <1>5, <2>1 DEF Blank
<1>8. PICK lo \in 1 .. Len(h), hi \in 1 .. Len(h), end \in 0 .. Len(h), low \in Seq(Bytes) :
         lo <= hi /\ Trimmed(h, low, lo, hi, end)
  BY <1>7, NormalisedIs
<1>9. /\ Blank(h, 1, lo - 1) /\ Blank(h, hi + 1, Len(h)) /\ h[lo] # Space /\ h[hi] # Space
      /\ end = IF h[hi] = Dot THEN hi - 1 ELSE hi
      /\ low \in Seq(Bytes) /\ Len(low) = end - lo + 1
      /\ \A k \in 1 .. Len(low) : low[k] = Lower(h[lo + k - 1])
      /\ Normalised(h) = CutPort(low)
  BY <1>8 DEF Trimmed
<1>10. lo = i + 1
  <2>1. i + 1 \in 1 .. Len(h) /\ h[i + 1] # Space
    <3>1. 1 \in 1 .. m
      BY <1>1
    <3> QED
      BY <1>4, <1>5, <3>1
  <2>2. ~(i + 1 < lo)
    BY <1>2, <1>9, <2>1 DEF Blank
  <2>3. ~(lo < i + 1)
    BY <1>2, <1>3, <1>9 DEF Blank
  <2> QED
    BY <1>2, <2>2, <2>3
<1>11. i + m <= hi
  <2>1. m \in 1 .. m
    BY <1>1
  <2>2. i + m \in 1 .. Len(h) /\ h[i + m] # Space
    BY <1>4, <1>5, <2>1
  <2> QED
    BY <1>2, <1>9, <2>2 DEF Blank
<1>12. ASSUME NEW k \in 1 .. Len(low) PROVE low[k] = Lower(h[i + k]) /\ i + k \in 1 .. Len(h)
  <2>1. lo + k - 1 = i + k /\ i + k \in 1 .. Len(h)
    <3>1. end \in {hi - 1, hi}
      BY <1>9
    <3> QED
      BY <1>2, <1>9, <1>10, <3>1
  <2> QED
    BY <1>9, <2>1
<1>13. CASE end = i + m
  <2>1. Len(low) = m
    BY <1>2, <1>9, <1>10, <1>13
  <2>2. \A k \in 1 .. m : low[k] = t[k]
    BY <1>3, <1>12, <2>1
  <2>3. low = t
    BY <1>1, <1>9, <2>1, <2>2, SeqEqual
  <2>4. CutPort(low) = low
    <3>1. \A c \in 1 .. Len(low) : low[c] # Colon
      BY <1>1, <2>1, <2>2
    <3> QED
      BY <1>9, <3>1, CutPortIs
  <2> QED
    BY <1>9, <2>3, <2>4 DEF t
<1>14. CASE i + m < Len(h) /\ h[i + m + 1] = Colon /\ \A k \in i + m + 2 .. Len(h) : h[k] # Colon
  <2>1. i + m + 1 <= hi
    <3>1. i + m + 1 \in 1 .. Len(h) /\ h[i + m + 1] # Space
      BY <1>1, <1>2, <1>14, NamesAssumption
    <3> QED
      BY <1>2, <1>9, <3>1 DEF Blank
  <2>2. i + m + 1 <= end
    <3>1. CASE hi = i + m + 1
      BY <1>9, <1>14, <3>1, NamesAssumption
    <3>2. CASE hi # i + m + 1
      <4>1. end \in {hi - 1, hi}
        BY <1>9
      <4>2. i \in Int /\ m \in Int /\ hi \in Int
        BY <1>1, <1>2
      <4>3. i + m + 1 <= hi - 1 /\ hi - 1 <= hi
        BY <2>1, <3>2, <4>2
      <4> QED
        BY <4>1, <4>2, <4>3
    <3> QED
      BY <3>1, <3>2
  <2>3. m + 1 \in 1 .. Len(low)
    <3>1. Len(low) = end - lo + 1
      BY <1>9
    <3>2. Len(low) = end - i /\ Len(low) \in Int
      BY <1>2, <1>10, <3>1
    <3> QED
      BY <1>1, <1>2, <2>2, <3>2
  <2>4. low[m + 1] = Colon
    <3>1. low[m + 1] = Lower(h[i + m + 1]) /\ i + m + 1 \in 1 .. Len(h)
      <4>1. i + (m + 1) = i + m + 1
        BY <1>1, <1>2
      <4> QED
        BY <1>12, <2>3, <4>1
    <3> QED
      BY <1>2, <1>14, <3>1, LowerIs
  <2>5. \A k \in 1 .. m : k \in 1 .. Len(low) /\ low[k] = t[k]
    <3>1. \A k \in 1 .. m : k \in 1 .. Len(low)
      <4>1. PICK n : n = Len(low)
        OBVIOUS
      <4>2. n \in Nat
        BY <1>9, <4>1, LenProperties
      <4>3. m \in Nat /\ m + 1 <= n
        BY <2>3, <4>1, <4>2
      <4>4. \A k \in 1 .. m : k \in 1 .. n
        BY <4>2, <4>3
      <4> QED
        BY <4>1, <4>4
    <3> QED
      BY <1>3, <1>12, <3>1
  <2>6. ASSUME NEW k \in m + 2 .. Len(low) PROVE low[k] # Colon
    <3>1. k \in 1 .. Len(low) /\ i + k >= i + m + 2
      BY <1>1, <1>2, <1>9, <2>3
    <3>2. low[k] = Lower(h[i + k]) /\ i + k \in 1 .. Len(h)
      BY <1>12, <3>1
    <3>3. i + k \in i + m + 2 .. Len(h)
      BY <1>1, <1>2, <3>1, <3>2
    <3>4. h[i + k] # Colon
      BY <1>14, <3>3
    <3> QED
      BY <1>2, <3>2, <3>4, LowerIs
  <2>7. PICK c \in 1 .. Len(low) : /\ low[c] = Colon /\ \A k \in c + 1 .. Len(low) : low[k] # Colon
                                   /\ Len(CutPort(low)) = c - 1
                                   /\ \A k \in 1 .. c - 1 : CutPort(low)[k] = low[k]
    BY <1>9, <2>3, <2>4, CutPortIs
  <2>8. Len(low) \in Nat
    BY <1>9, LenProperties
  <2>9. c = m + 1
    <3>1. ~(c <= m)
      BY <1>1, <2>5, <2>7, <2>8
    <3>2. ~(c >= m + 2)
      BY <1>1, <2>6, <2>7, <2>8
    <3> QED
      BY <1>1, <2>7, <2>8, <3>1, <3>2
  <2>10. Len(CutPort(low)) = m /\ \A k \in 1 .. m : CutPort(low)[k] = t[k]
    BY <1>1, <2>5, <2>7, <2>9
  <2>11. CutPort(low) \in Seq(Bytes)
    BY <1>9, CutPortIs
  <2>12. CutPort(low) = t
    BY <1>1, <2>10, <2>11, SeqEqual
  <2> QED
    BY <1>9, <2>12 DEF t
<1>15. CASE Blank(h, i + m + 1, Len(h))
  <2>1. hi = i + m
    <3>1. hi \in i + m + 1 .. Len(h) => h[hi] = Space
      BY <1>15 DEF Blank
    <3>2. ~(hi \in i + m + 1 .. Len(h))
      BY <1>9, <3>1
    <3> QED
      BY <1>1, <1>2, <1>11, <3>2
  <2> QED
    BY <1>6, <1>9, <1>13, <2>1
<1>16. CASE i + m < Len(h) /\ h[i + m + 1] = Dot /\ Blank(h, i + m + 2, Len(h))
  <2>1. i + m + 1 <= hi
    <3>1. i + m + 1 \in 1 .. Len(h) /\ h[i + m + 1] # Space
      BY <1>1, <1>2, <1>16, NamesAssumption
    <3> QED
      BY <1>2, <1>9, <3>1 DEF Blank
  <2>2. ~(i + m + 2 <= hi)
    BY <1>1, <1>2, <1>9, <1>16 DEF Blank
  <2>3. hi = i + m + 1
    <3>1. hi \in Int /\ i \in Int /\ m \in Int
      BY <1>1, <1>2
    <3> QED
      BY <2>1, <2>2, <3>1
  <2>4. end = i + m
    BY <1>1, <1>2, <1>9, <1>16, <2>3
  <2> QED
    BY <1>13, <2>4
<1> QED
  BY <1>3, <1>14, <1>15, <1>16

\* What a full name is left of is a way to write it.
LEMMA FoundIsWritten ==
    ASSUME NEW h \in Seq(Bytes), NEW id \in PackIds, Normalised(h) = FullName(id)
    PROVE  \E i \in 0 .. Len(h) - Len(FullName(id)) : Written(h, i, FullName(id))
<1> DEFINE t == FullName(id)
<1>1. PICK m \in Nat \ {0} : /\ m = Len(t) /\ t \in Seq(Bytes)
                             /\ \A k \in 1 .. m : t[k] \notin {Colon, Space}
  BY FullNameIs
<1>2. Len(h) \in Nat /\ \A k \in 1 .. Len(h) : h[k] \in Bytes
  BY LenProperties, ElementOfSeq
<1> HIDE DEF t
<1>3. Normalised(h) = t /\ t # <<>>
  <2>1. Len(<<>>) = 0
    BY EmptySeq
  <2> QED
    BY <1>1, <2>1 DEF t
<1>4. PICK lo \in 1 .. Len(h), hi \in 1 .. Len(h), end \in 0 .. Len(h), low \in Seq(Bytes) :
         lo <= hi /\ Trimmed(h, low, lo, hi, end)
  BY <1>3, NormalisedIs
<1>5. /\ Blank(h, 1, lo - 1) /\ Blank(h, hi + 1, Len(h))
      /\ end = IF h[hi] = Dot THEN hi - 1 ELSE hi
      /\ low \in Seq(Bytes) /\ Len(low) = end - lo + 1
      /\ \A k \in 1 .. Len(low) : low[k] = Lower(h[lo + k - 1])
      /\ CutPort(low) = t
  BY <1>3, <1>4 DEF Trimmed
<1>6. PICK i \in 0 .. Len(h) : i = lo - 1
  BY <1>2
<1>7. end \in {hi - 1, hi} /\ Len(low) \in Nat /\ Len(low) = end - i
  BY <1>2, <1>5, <1>6, LenProperties
<1>8. \A k \in 1 .. Len(low) : low[k] = Lower(h[i + k]) /\ i + k \in 1 .. Len(h)
  <2>1. \A k \in 1 .. Len(low) : lo + k - 1 = i + k /\ i + k \in 1 .. Len(h)
    BY <1>2, <1>6, <1>7
  <2> QED
    BY <1>5, <2>1
<1>9. Blank(h, 1, i)
  BY <1>5, <1>6
<1>10. ASSUME i + m <= Len(h),
              \A k \in 1 .. m : Lower(h[i + k]) = t[k],
              \/ Blank(h, i + m + 1, Len(h))
              \/ i + m < Len(h) /\ h[i + m + 1] = Dot /\ Blank(h, i + m + 2, Len(h))
              \/ i + m < Len(h) /\ h[i + m + 1] = Colon /\ \A k \in i + m + 2 .. Len(h) : h[k] # Colon
       PROVE  \E j \in 0 .. Len(h) - Len(t) : Written(h, j, t)
  <2>1. i \in 0 .. Len(h) - Len(t)
    BY <1>1, <1>2, <1>10
  <2>2. Written(h, i, t)
    BY <1>1, <1>9, <1>10 DEF Written
  <2> QED
    BY <2>1, <2>2
<1>11. CASE CutPort(low) = low
  <2>1. low = t /\ Len(low) = m
    BY <1>1, <1>5, <1>11
  <2>2. end = i + m /\ i + m <= Len(h) /\ \A k \in 1 .. m : Lower(h[i + k]) = t[k]
    BY <1>1, <1>2, <1>7, <1>8, <2>1
  <2>3. CASE h[hi] = Dot
    <3>1. hi = i + m + 1 /\ i + m < Len(h) /\ hi + 1 = i + m + 2
      <4>1. end = hi - 1
        BY <1>5, <2>3
      <4>2. end = i + m
        BY <2>2
      <4>3. i \in Int /\ m \in Int /\ hi \in Int /\ Len(h) \in Int /\ hi <= Len(h)
        BY <1>2
      <4> QED
        BY <4>1, <4>2, <4>3
    <3> QED
      BY <1>5, <1>10, <2>2, <2>3, <3>1 DEF t
  <2>4. CASE h[hi] # Dot
    <3>1. hi + 1 = i + m + 1
      BY <1>5, <2>2, <2>4
    <3> QED
      BY <1>5, <1>10, <2>2, <3>1 DEF t
  <2> QED
    BY <2>3, <2>4
<1>12. CASE \E c \in 1 .. Len(low) : /\ low[c] = Colon /\ \A k \in c + 1 .. Len(low) : low[k] # Colon
                                     /\ Len(CutPort(low)) = c - 1
                                     /\ \A k \in 1 .. c - 1 : CutPort(low)[k] = low[k]
  <2>1. PICK c \in 1 .. Len(low) : /\ low[c] = Colon /\ \A k \in c + 1 .. Len(low) : low[k] # Colon
                                   /\ Len(CutPort(low)) = c - 1
                                   /\ \A k \in 1 .. c - 1 : CutPort(low)[k] = low[k]
    BY <1>12
  <2>2. c = m + 1 /\ \A k \in 1 .. m : t[k] = low[k]
    BY <1>1, <1>5, <1>7, <2>1
  <2>3. i + c \in 1 .. Len(h) /\ h[i + c] = Colon /\ i + c = i + m + 1
    <3>1. low[c] = Lower(h[i + c]) /\ i + c \in 1 .. Len(h)
      BY <1>8
    <3> QED
      BY <1>1, <1>2, <2>1, <2>2, <3>1, LowerIs
  <2>4. i + m < Len(h) /\ i + m <= Len(h)
    BY <1>1, <1>2, <2>3
  <2>5. \A k \in 1 .. m : Lower(h[i + k]) = t[k]
    <3>1. \A k \in 1 .. m : k \in 1 .. Len(low)
      BY <1>1, <1>7, <2>2
    <3> QED
      BY <1>8, <2>2, <3>1
  <2>6. ASSUME NEW k \in i + m + 2 .. Len(h) PROVE h[k] # Colon
    <3>0. k \in 1 .. Len(h)
      BY <1>1, <1>2
    <3>1. CASE k <= end
      <4>1. k - i \in c + 1 .. Len(low) /\ k - i \in 1 .. Len(low) /\ i + (k - i) = k
        BY <1>1, <1>2, <1>7, <2>2, <3>1
      <4>2. low[k - i] # Colon /\ low[k - i] = Lower(h[k])
        BY <1>8, <2>1, <4>1
      <4> QED
        BY <1>2, <3>0, <4>2, LowerIs
    <3>2. CASE k > end /\ k > hi
      <4>1. h[k] = Space
        BY <1>2, <1>5, <3>0, <3>2 DEF Blank
      <4> QED
        BY <4>1, NamesAssumption
    <3>3. CASE k > end /\ ~(k > hi)
      <4>1. k = hi /\ h[hi] = Dot
        BY <1>2, <1>5, <3>0, <3>3
      <4> QED
        BY <4>1, NamesAssumption
    <3>4. k <= end \/ k > end
      BY <1>2, <3>0
    <3> QED
      BY <3>1, <3>2, <3>3, <3>4
  <2> QED
    BY <1>10, <2>3, <2>4, <2>5, <2>6 DEF t
<1> QED
  BY <1>5, <1>11, <1>12, CutPortIs

\* PackForHost finds a pack for exactly the ways to write its name, in any case,
\* with spaces around it and with a final dot or a port behind it, but not with a dot
\* before a port. For every sequence of bytes, and every domain and id that Validate
\* accepts.
THEOREM HostsFound ==
    ASSUME NEW h \in Seq(Bytes), NEW id \in PackIds
    PROVE  PackForHost(h) = id <=> Spells(h, id) /\ ~DotBeforePort(h)
<1>1. Normalised(h) \in Seq(Bytes)
  <2>1. CASE Normalised(h) = <<>>
    BY <2>1, EmptySeq
  <2>2. CASE \E low \in Seq(Bytes) : Normalised(h) = CutPort(low)
    BY <2>2, CutPortIs
  <2> QED
    BY <2>1, <2>2, NormalisedIs DEF Trimmed
<1> QED
  BY <1>1, FoundByName, SpellsIs, RoutableIs, WrittenIsFound, FoundIsWritten

\* The host names of the model, whatever stands around them.
THEOREM AllHostsRouted == \A host \in Seq(Bytes) : HostsRouted(host)
<1> SUFFICES ASSUME NEW host \in Seq(Bytes), NEW before \in Affixes, NEW after \in Affixes,
                    NEW id \in PackIds, NEW h \in {before \o host \o after}
             PROVE  PackForHost(h) = id <=> Spells(h, id) /\ ~DotBeforePort(h)
  BY DEF HostsRouted
<1>1. ASSUME NEW a \in Affixes PROVE a \in Seq(Bytes)
  <2>1. {Dot, Colon, Space} \cup Letters \cup {Lower(b) : b \in Letters} \subseteq Bytes
    <3>1. {Dot, Colon, Space} \cup Letters \subseteq Bytes
      BY ProtocolAssumption
    <3> QED
      BY <3>1, LowerIs
  <2>2. PICK n \in 0 .. 2 : a \in [1 .. n -> {Dot, Colon, Space} \cup Letters \cup {Lower(b) : b \in Letters}]
    BY DEF Affixes
  <2>3. a \in [1 .. n -> Bytes] /\ n \in Nat
    BY <2>1, <2>2
  <2> QED
    BY <2>3, BytesAre
<1>2. before \o host \in Seq(Bytes)
  BY <1>1, ConcatProperties
<1>3. before \o host \o after \in Seq(Bytes)
  BY <1>1, <1>2, ConcatProperties
<1> QED
  BY <1>3, HostsFound

\* The host name of a handshake is a sequence of bytes.
LEMMA HostRead ==
    ASSUME NEW s \in Seq(Bytes), ReadHandshake(s).st = "ok"
    PROVE  ReadHandshake(s).val.host \in Seq(Bytes)
<1>1. PICK p : p = ReadPacket(s)
  OBVIOUS
<1>2. Parsed(p).st = "ok" /\ ReadHandshake(s) = Parsed(p)
  BY <1>1, HandshakeIs
<1>3. p.st = "ok"
  BY <1>2, ParsedIs
<1>4. p.val \in Seq(Bytes)
  <2>1. 1 \in Nat /\ MaxPacket \in Nat
    BY ProtocolAssumption
  <2> QED
    BY <1>1, <1>3, <2>1, CountedMore DEF ReadPacket
<1> DEFINE id == ReadVarInt(p.val)
           proto == ReadVarInt(id.rest)
           host == readString(proto.rest)
           port == ReadFull(host.rest, 2)
           next == ReadVarInt(port.rest)
           good == /\ \A r \in {id, proto, next} : r.st = "ok"
                   /\ host.st = "ok" /\ port.st = "ok"
                   /\ id.val = 0 /\ next.val \in {1, 2}
           val == [protocol |-> proto.val, host |-> host.val, port |-> port.val,
                   next |-> next.val, frame |-> frame(p.val)]
<1>5. Parsed(p) = IF good THEN Result("ok", val, p.rest) ELSE Result("bad", <<>>, <<>>)
  BY <1>3 DEF Parsed
<1>6. val.host = host.val
  OBVIOUS
<1>7. good => id.st = "ok" /\ proto.st = "ok" /\ host.st = "ok"
  OBVIOUS
<1> HIDE DEF good, val
<1>8. good
  <2>1. ~good => Parsed(p).st = "bad"
    BY <1>5, ResultIs
  <2> QED
    BY <1>2, <2>1
<1>9. Parsed(p).val.host = host.val
  <2>1. Parsed(p).val = val
    BY <1>5, <1>8, ResultIs
  <2> QED
    BY <1>6, <2>1
<1>10. id.rest \in Seq(Bytes)
  BY <1>4, <1>7, <1>8, VarIntMore
<1> HIDE DEF id
<1>11. proto.rest \in Seq(Bytes)
  BY <1>7, <1>8, <1>10, VarIntMore
<1> HIDE DEF proto
<1>12. host.val \in Seq(Bytes)
  <2>1. 0 \in Nat /\ MaxString \in Nat
    BY ProtocolAssumption
  <2>2. ReadCounted(proto.rest, 0, MaxString).st = "ok"
    BY <1>7, <1>8 DEF readString
  <2> QED
    BY <1>11, <2>1, <2>2, CountedMore DEF readString
<1> QED
  BY <1>2, <1>9, <1>12
=============================================================================
