--------------------------- MODULE HelpersProofs ----------------------------
(***************************************************************************)
(* Proofs about Helpers: the types, and what AES and DES, HTML and         *)
(* WeightImpl promise, for texts, tables and weights of any size.          *)
(*                                                                         *)
(* Induction over the data is done by hand: the counterexamples of a claim *)
(* about the naturals up to m are a set, which has a least element.  What  *)
(* a recursive function computes follows from one function that satisfies  *)
(* its equation.                                                           *)
(***************************************************************************)
EXTENDS Helpers, SequenceTheorems, FiniteSetTheorems, WellFoundedInduction, TLAPS

\* A set of naturals has a least element.
LEMMA LeastNat ==
  ASSUME NEW T \in SUBSET Nat, T # {}
  PROVE  \E x \in T : \A y \in T : x <= y
<1> DEFINE R == OpToRel(<, Nat)
<1>1. IsWellFoundedOn(R, Nat)
  BY NatLessThanWellFounded
<1> HIDE DEF R
<1>2. PICK x \in T : \A y \in T : ~(<<y, x>> \in R)
  BY <1>1, WFMin
<1>3. ASSUME NEW y \in T, y < x PROVE FALSE
  <2>1. y \in Nat /\ x \in Nat
    OBVIOUS
  <2>2. <<y, x>> \in R
    BY <2>1, <1>3 DEF R, OpToRel
  <2>3. QED
    BY <2>2, <1>2
<1>4. QED
  BY <1>3

\* Induction on the naturals up to m: a set that holds 0 and with every
\* number also its successor holds all of them.
LEMMA Induct ==
  ASSUME NEW m \in Nat, NEW T, 0 \in T,
         \A n \in 1..m : n - 1 \in T => n \in T
  PROVE  0..m \subseteq T
<1> DEFINE Bad == (0..m) \ T
<1>1. SUFFICES ASSUME Bad # {} PROVE FALSE
  OBVIOUS
<1>2. Bad \in SUBSET Nat
  OBVIOUS
<1>3. PICK x \in Bad : \A y \in Bad : x <= y
  BY <1>1, <1>2, LeastNat
<1>4. x \in 0..m /\ x # 0 /\ x \notin T
  BY <1>3
<1>5. x \in 1..m /\ x - 1 \in 0..m /\ ~(x <= x - 1)
  BY <1>4
<1>6. x - 1 \in T
  BY <1>3, <1>5
<1>7. QED
  BY <1>4, <1>5, <1>6

\* Quotient and remainder.
LEMMA DivMod ==
  ASSUME NEW n \in Nat, NEW s \in Nat \ {0}
  PROVE  n = s * (n \div s) + (n % s) /\ (n % s) \in 0..(s - 1) /\ (n \div s) \in Nat
OBVIOUS

\* They are determined by the number.
LEMMA DivModUnique ==
  ASSUME NEW s \in Nat \ {0}, NEW q \in Int, NEW r \in 0..(s - 1),
         NEW p \in Int, NEW t \in 0..(s - 1), s * q + r = s * p + t
  PROVE  q = p /\ r = t
<1>1. ASSUME q < p PROVE FALSE
  <2>1. s * (q + 1) <= s * p
    BY <1>1
  <2>2. s * (q + 1) = s * q + s
    OBVIOUS
  <2>3. QED
    BY <2>1, <2>2
<1>2. ASSUME p < q PROVE FALSE
  <2>1. s * (p + 1) <= s * q
    BY <1>2
  <2>2. s * (p + 1) = s * p + s
    OBVIOUS
  <2>3. QED
    BY <2>1, <2>2
<1>3. q = p
  BY <1>1, <1>2
<1>4. QED
  BY <1>3

-----------------------------------------------------------------------------
(* WeightImpl: Weights. *)

\* What Sums computes: the loop's sum after each turn.
LEMMA SumsProperties ==
  ASSUME NEW w \in Seq(Nat)
  PROVE  /\ Len(w) \in Nat
         /\ Sums(w) \in [0..Len(w) -> Nat]
         /\ Sums(w)[0] = 0
         /\ \A n \in 1..Len(w) : Sums(w)[n] = Sums(w)[n - 1] + w[n]
<1> DEFINE L == Len(w)
           Is(f, m) == /\ f \in [0..m -> Nat] /\ f[0] = 0
                       /\ \A n \in 1..m : f[n] = f[n - 1] + w[n]
           T == {m \in 0..L : \E f \in [0..m -> Nat] : Is(f, m)}
<1>1. L \in Nat /\ \A n \in 1..L : w[n] \in Nat
  BY LenProperties, ElementOfSeq
<1> HIDE DEF L
<1>2. 0 \in T
  <2> DEFINE f == [n \in 0..0 |-> 0]
  <2>1. f \in [0..0 -> Nat] /\ f[0] = 0 /\ 0 \in 0..L /\ 1..0 = {}
    BY <1>1
  <2> HIDE DEF f
  <2>2. QED
    BY <2>1
<1>3. ASSUME NEW m \in 1..L, m - 1 \in T PROVE m \in T
  <2>1. PICK f \in [0..(m - 1) -> Nat] : Is(f, m - 1)
    BY <1>3
  <2> DEFINE g == [n \in 0..m |-> IF n = m THEN f[m - 1] + w[m] ELSE f[n]]
  <2>2. /\ m \in Nat /\ m - 1 \in 0..(m - 1) /\ m \in 0..m /\ 0 \in 0..(m - 1) /\ m # 0
        /\ \A n \in 0..m : n # m => n \in 0..(m - 1)
        /\ \A n \in 0..(m - 1) : n \in 0..m /\ n # m
    BY <1>1
  <2>3. g \in [0..m -> Nat] /\ g[m] = f[m - 1] + w[m] /\ \A n \in 0..(m - 1) : g[n] = f[n]
    BY <2>1, <2>2, <1>1
  <2> HIDE DEF g
  <2>4. ASSUME NEW n \in 1..m PROVE g[n] = g[n - 1] + w[n]
    <3>1. CASE n = m
      BY <3>1, <2>2, <2>3
    <3>2. CASE n # m
      <4>1. n \in 1..(m - 1) /\ n \in 0..(m - 1) /\ n - 1 \in 0..(m - 1)
        BY <3>2, <1>1
      <4>2. QED
        BY <4>1, <2>1, <2>3
    <3>3. QED
      BY <3>1, <3>2
  <2>5. Is(g, m)
    BY <2>1, <2>2, <2>3, <2>4
  <2>6. m \in 0..L
    BY <1>1
  <2>7. QED
    BY <2>3, <2>5, <2>6
<1>4. L \in T
  <2> HIDE DEF T
  <2>1. 0..L \subseteq T
    BY <1>1, <1>2, <1>3, Induct
  <2>2. QED
    BY <2>1, <1>1
<1>5. PICK f \in [0..L -> Nat] : Is(f, L)
  BY <1>4
<1> DEFINE Rec(g) == g = [n \in 0..L |-> IF n = 0 THEN 0 ELSE g[n - 1] + w[n]]
<1>6. Rec(f)
  <2>1. \A n \in 0..L : n # 0 => n \in 1..L
    BY <1>1
  <2>2. \A n \in 0..L : f[n] = IF n = 0 THEN 0 ELSE f[n - 1] + w[n]
    BY <2>1, <1>5
  <2>3. QED
    BY <2>2, <1>5
<1>7. Sums(w) = CHOOSE g : Rec(g)
  BY DEF Sums, L
<1>8. Rec(Sums(w))
  <2> HIDE DEF Rec
  <2>1. QED
    BY <1>6, <1>7
<1> DEFINE s == Sums(w)
<1> HIDE DEF s
<1>9. s = [n \in 0..L |-> IF n = 0 THEN 0 ELSE s[n - 1] + w[n]]
  BY <1>8 DEF s
<1>10. /\ DOMAIN s = 0..L /\ s[0] = 0
       /\ \A n \in 1..L : s[n] = s[n - 1] + w[n]
  <2>1. 0 \in 0..L /\ \A n \in 1..L : n \in 0..L /\ n # 0
    BY <1>1
  <2>2. QED
    BY <2>1, <1>9
<1>11. \A n \in 0..L : s[n] \in Nat
  <2> DEFINE N == {n \in 0..L : s[n] \in Nat}
  <2>1. 0 \in N
    BY <1>1, <1>10
  <2>2. ASSUME NEW n \in 1..L, n - 1 \in N PROVE n \in N
    <3>1. s[n - 1] \in Nat /\ w[n] \in Nat /\ s[n] = s[n - 1] + w[n] /\ n \in 0..L
      BY <2>2, <1>1, <1>10
    <3>2. s[n] \in Nat
      BY <3>1
    <3>3. QED
      BY <3>1, <3>2
  <2>3. 0..L \subseteq N
    <3> HIDE DEF N
    <3>1. QED
      BY <2>1, <2>2, <1>1, Induct
  <2>4. QED
    BY <2>3
<1>12. s \in [0..L -> Nat]
  BY <1>9, <1>10, <1>11
<1>13. QED
  BY <1>1, <1>10, <1>12 DEF s, L

\* The sums grow with the turns.
LEMMA SumsGrow ==
  ASSUME NEW w \in Seq(Nat)
  PROVE  \A m, n \in 0..Len(w) : m <= n => Sums(w)[m] <= Sums(w)[n]
<1> DEFINE L == Len(w)
           s == Sums(w)
<1>1. /\ L \in Nat /\ \A n \in 0..L : s[n] \in Nat
      /\ \A n \in 1..L : s[n] = s[n - 1] + w[n] /\ w[n] \in Nat
  BY SumsProperties, ElementOfSeq
<1> HIDE DEF L, s
<1>2. ASSUME NEW m \in 0..L PROVE \A n \in 0..L : m <= n => s[m] <= s[n]
  <2> DEFINE T == {n \in 0..L : m <= n => s[m] <= s[n]}
  <2>1. 0 \in T
    BY <1>1
  <2>2. ASSUME NEW n \in 1..L, n - 1 \in T PROVE n \in T
    <3>1. n - 1 \in 0..L /\ n \in 0..L
      BY <1>1
    <3>2. m <= n - 1 => s[m] <= s[n - 1]
      BY <2>2
    <3>3. s[n] = s[n - 1] + w[n] /\ w[n] \in Nat /\ s[n - 1] \in Nat /\ s[m] \in Nat
      BY <3>1, <1>1
    <3>4. CASE m = n
      BY <3>4, <3>1, <3>3
    <3>5. CASE m # n
      BY <3>1, <3>2, <3>3, <3>5
    <3>6. QED
      BY <3>4, <3>5
  <2>3. 0..L \subseteq T
    <3> HIDE DEF T
    <3>1. QED
      BY <2>1, <2>2, <1>1, Induct
  <2>4. QED
    BY <2>3
<1>3. QED
  BY <1>2 DEF L, s

\* v is w with the elements at i and j exchanged.
Exchanged(v, w, i, j) ==
  /\ v \in Seq(Nat) /\ Len(v) = Len(w)
  /\ \A n \in 1..Len(w) : v[n] = IF n = j THEN w[i] ELSE IF n = i THEN w[j] ELSE w[n]

\* What std::swap does to an element of a vector and another.
LEMMA ExchangeProperties ==
  ASSUME NEW w \in Seq(Nat), NEW i \in 1..Len(w), NEW j \in 1..Len(w)
  PROVE  Exchanged(Exchange(w, i, j), w, i, j)
<1> DEFINE v == Exchange(w, i, j)
           L == Len(w)
<1>1. L \in Nat /\ \A n \in 1..L : w[n] \in Nat
  BY LenProperties, ElementOfSeq
<1>2. w \in [1..L -> Nat]
  BY LenProperties, ElementOfSeq
<1> HIDE DEF L
<1>3. /\ v \in [1..L -> Nat]
      /\ \A n \in 1..L : v[n] = IF n = j THEN w[i] ELSE IF n = i THEN w[j] ELSE w[n]
  BY <1>1, <1>2 DEF Exchange, L
<1> HIDE DEF v
<1>4. v \in Seq(Nat) /\ Len(v) = L
  BY <1>1, <1>3, SeqDef
<1>5. QED
  BY <1>3, <1>4 DEF v, L, Exchanged

\* A shuffle does not change the total.
LEMMA TotalExchange ==
  ASSUME NEW w \in Seq(Nat), NEW i \in 1..Len(w), NEW j \in 1..Len(w)
  PROVE  Total(Exchange(w, i, j)) = Total(w)
<1> DEFINE L == Len(w)
           v == Exchange(w, i, j)
           s == Sums(w)
           t == Sums(v)
           p == w[i]
           q == w[j]
           Moved(n) == (IF i <= n THEN q - p ELSE 0) + (IF j <= n THEN p - q ELSE 0)
<1>1. v \in Seq(Nat) /\ Len(v) = L
      /\ \A n \in 1..L : v[n] = IF n = j THEN p ELSE IF n = i THEN q ELSE w[n]
  <2>1. Exchanged(v, w, i, j)
    BY ExchangeProperties
  <2> HIDE DEF v, s, t, Moved
  <2>2. QED
    BY <2>1 DEF Exchanged
<1>2. L \in Nat /\ i \in 1..L /\ j \in 1..L /\ p \in Nat /\ q \in Nat
      /\ \A n \in 1..L : w[n] \in Nat
  BY LenProperties, ElementOfSeq
<1>3. /\ s[0] = 0 /\ \A n \in 0..L : s[n] \in Nat
      /\ \A n \in 1..L : s[n] = s[n - 1] + w[n]
  BY SumsProperties
<1>4. /\ t[0] = 0 /\ \A n \in 0..L : t[n] \in Nat
      /\ \A n \in 1..L : t[n] = t[n - 1] + v[n]
  <2> HIDE DEF v
  <2>1. QED
    BY <1>1, SumsProperties
<1> HIDE DEF L, v, s, t, p, q
<1> DEFINE T == {n \in 0..L : t[n] = s[n] + Moved(n)}
<1>5. 0 \in T
  <2>1. Moved(0) = 0 /\ 0 \in 0..L
    BY <1>2
  <2> HIDE DEF Moved
  <2>2. QED
    BY <2>1, <1>3, <1>4
<1>6. ASSUME NEW n \in 1..L, n - 1 \in T PROVE n \in T
  <2>1. n - 1 \in 0..L /\ n \in 0..L /\ t[n - 1] = s[n - 1] + Moved(n - 1)
    BY <1>2, <1>6
  <2>2. t[n] = t[n - 1] + v[n] /\ s[n] = s[n - 1] + w[n]
    BY <1>3, <1>4
  <2>3. /\ s[n - 1] \in Nat /\ w[n] \in Nat
        /\ v[n] = IF n = j THEN p ELSE IF n = i THEN q ELSE w[n]
        /\ n = j => w[n] = q
        /\ n = i => w[n] = p
    BY <2>1, <1>1, <1>2, <1>3 DEF p, q
  <2>4. v[n] = w[n] + (Moved(n) - Moved(n - 1))
    <3>1. CASE n = i /\ n = j
      BY <3>1, <2>3, <1>2
    <3>2. CASE n = i /\ n # j
      <4>1. i <= n /\ ~(i <= n - 1) /\ (j <= n <=> j <= n - 1)
        BY <3>2, <1>2
      <4>2. v[n] = q /\ w[n] = p
        BY <3>2, <2>3
      <4>3. QED
        BY <4>1, <4>2, <1>2
    <3>3. CASE n # i /\ n = j
      BY <3>3, <2>3, <1>2
    <3>4. CASE n # i /\ n # j
      <4>1. (i <= n <=> i <= n - 1) /\ (j <= n <=> j <= n - 1)
        BY <3>4, <1>2
      <4>2. v[n] = w[n]
        BY <3>4, <2>3
      <4>3. Moved(n) = Moved(n - 1) /\ Moved(n) \in Int
        BY <4>1, <1>2
      <4> HIDE DEF Moved
      <4>4. QED
        BY <4>2, <4>3, <2>3
    <3>5. QED
      BY <3>1, <3>2, <3>3, <3>4
  <2>5. Moved(n) \in Int /\ Moved(n - 1) \in Int
    BY <2>3, <1>2
  <2> HIDE DEF Moved
  <2>6. t[n] = s[n] + Moved(n)
    <3> DEFINE a == s[n - 1]
               b == w[n]
               c == Moved(n)
               d == Moved(n - 1)
    <3>1. a \in Nat /\ b \in Nat /\ c \in Int /\ d \in Int
      BY <2>3, <2>5
    <3>2. t[n] = (a + d) + (b + (c - d)) /\ s[n] = a + b
      BY <2>1, <2>2, <2>4
    <3> HIDE DEF a, b, c, d
    <3>3. (a + d) + (b + (c - d)) = (a + b) + c
      BY <3>1
    <3>4. QED
      BY <3>2, <3>3 DEF c
  <2>7. QED
    BY <2>1, <2>6
<1>7. 0..L \subseteq T
  <2> HIDE DEF T
  <2>1. QED
    BY <1>2, <1>5, <1>6, Induct
<1>8. t[L] = s[L] + Moved(L)
  <2> HIDE DEF Moved
  <2>1. L \in 0..L
    BY <1>2
  <2>2. QED
    BY <2>1, <1>7
<1>9. Moved(L) = 0
  BY <1>2
<1>10. s[L] \in Nat
  BY <1>2, <1>3
<1>11. t[L] = s[L]
  BY <1>8, <1>9, <1>10
<1>12. QED
  BY <1>1, <1>11 DEF Total, t, s, L, v, p, q

\* The indices d tell, for every weight in w, its place in the list g: they
\* are a permutation.
Belongs(g, w, d) ==
  /\ Len(d) = Len(w) /\ Len(g) = Len(w)
  /\ \A n \in 1..Len(w) : d[n] \in 0..(Len(w) - 1) /\ g[d[n] + 1] = w[n]
  /\ \A m, n \in 1..Len(w) : d[m] = d[n] => m = n
  /\ \A k \in 1..Len(w) : \E n \in 1..Len(w) : d[n] = k - 1

\* Exchanging two weights together with their indices keeps them together.
LEMMA ExchangeBelongs ==
  ASSUME NEW g \in Seq(Nat), NEW w \in Seq(Nat), NEW d \in Seq(Nat), Belongs(g, w, d),
         NEW i \in 1..Len(w), NEW j \in 1..Len(w)
  PROVE  Belongs(g, Exchange(w, i, j), Exchange(d, i, j))
<1> DEFINE L == Len(w)
           v == Exchange(w, i, j)
           c == Exchange(d, i, j)
           e(n) == IF n = j THEN i ELSE IF n = i THEN j ELSE n
<1>1. /\ Len(v) = L
      /\ \A n \in 1..L : v[n] = IF n = j THEN w[i] ELSE IF n = i THEN w[j] ELSE w[n]
  <2>1. Exchanged(v, w, i, j)
    BY ExchangeProperties
  <2> HIDE DEF v, c, e
  <2>2. QED
    BY <2>1 DEF Exchanged
<1>2. /\ Len(d) = L /\ Len(g) = L
      /\ \A n \in 1..L : d[n] \in 0..(L - 1) /\ g[d[n] + 1] = w[n]
      /\ \A m, n \in 1..L : d[m] = d[n] => m = n
      /\ \A k \in 1..L : \E n \in 1..L : d[n] = k - 1
  BY DEF Belongs
<1>3. i \in 1..Len(d) /\ j \in 1..Len(d)
  BY <1>2
<1>4. /\ Len(c) = L
      /\ \A n \in 1..L : c[n] = IF n = j THEN d[i] ELSE IF n = i THEN d[j] ELSE d[n]
  <2>1. Exchanged(c, d, i, j)
    BY <1>3, ExchangeProperties
  <2> HIDE DEF c, v, e
  <2>2. QED
    BY <2>1, <1>2 DEF Exchanged
<1>5. i \in 1..L /\ j \in 1..L
  OBVIOUS
<1> HIDE DEF L, v, c
<1>6. \A n \in 1..L : e(n) \in 1..L /\ v[n] = w[e(n)] /\ c[n] = d[e(n)] /\ e(e(n)) = n
  BY <1>1, <1>4, <1>5
<1> HIDE DEF e
<1>7. ASSUME NEW n \in 1..L PROVE c[n] \in 0..(L - 1) /\ g[c[n] + 1] = v[n]
  <2>1. e(n) \in 1..L /\ v[n] = w[e(n)] /\ c[n] = d[e(n)]
    BY <1>6
  <2>2. d[e(n)] \in 0..(L - 1) /\ g[d[e(n)] + 1] = w[e(n)]
    BY <2>1, <1>2
  <2>3. QED
    BY <2>1, <2>2
<1>8. ASSUME NEW m \in 1..L, NEW n \in 1..L, c[m] = c[n] PROVE m = n
  <2>1. e(m) = e(n)
    <3>1. e(m) \in 1..L /\ e(n) \in 1..L
      BY <1>6
    <3>2. d[e(m)] = d[e(n)]
      BY <1>6, <1>8
    <3>3. QED
      BY <3>1, <3>2, <1>2
  <2>2. e(e(m)) = m /\ e(e(n)) = n
    BY <1>6
  <2>3. QED
    BY <2>1, <2>2
<1>9. ASSUME NEW k \in 1..L PROVE \E n \in 1..L : c[n] = k - 1
  <2>1. PICK n \in 1..L : d[n] = k - 1
    BY <1>2
  <2>2. e(n) \in 1..L /\ e(e(n)) = n
    BY <1>6
  <2>3. c[e(n)] = d[e(e(n))]
    BY <2>2, <1>6
  <2>4. QED
    BY <2>1, <2>2, <2>3
<1>10. QED
  BY <1>1, <1>2, <1>4, <1>7, <1>8, <1>9 DEF Belongs, L, v, c

\* The inductive invariant of a weight object.
WeightsInv ==
  /\ WeightsTypeOK
  /\ Belongs(given, weight_, indxId_)
  /\ sum_ = Total(weight_)
  /\ turn > 0 => turn < Len(weight_)
  /\ restored # <<>> => restored = given

\* Position n of the weights is reached by exactly the numbers between the
\* sums before and after it.
LEMMA DrawnAt ==
  ASSUME WeightsInv, NEW n \in 1..Len(weight_), NEW r \in 1..sum_
  PROVE  (Results(r) = {indxId_[n]}) <=> (r \in (Sums(weight_)[n - 1] + 1)..Sums(weight_)[n])
<1> DEFINE w == weight_
           L == Len(weight_)
           s == Sums(weight_)
<1>1. weight_ \in Seq(Nat) /\ sum_ \in Nat
  BY DEF WeightsInv, WeightsTypeOK
<1>2. /\ L \in Nat /\ s[0] = 0 /\ \A m \in 0..L : s[m] \in Nat
      /\ \A l, m \in 0..L : l <= m => s[l] <= s[m]
  BY <1>1, SumsProperties, SumsGrow
<1>3. \A l, m \in 1..L : indxId_[l] = indxId_[m] => l = m
  BY DEF WeightsInv, Belongs
<1>4. Stops(r) = {m \in 1..L : r - s[m] <= 0}
  BY DEF Stops
<1> HIDE DEF L, s
<1>5. n \in 0..L /\ n - 1 \in 0..L /\ n \in 1..L /\ r \in Nat /\ r > 0
  BY <1>1, <1>2 DEF L
<1>6. \A m \in 1..L : m \in 0..L /\ m \in Int
  BY <1>2
<1>7. \A m \in 1..L : m \in Stops(r) <=> r <= s[m]
  BY <1>2, <1>4, <1>5, <1>6
<1>8. Stops(r) \subseteq 1..L
  BY <1>4
<1> DEFINE First == {k \in Stops(r) : \A l \in Stops(r) : k <= l}
<1>9. Results(r) = {indxId_[m] : m \in First}
  BY DEF Results
<1>10. ASSUME r \in (s[n - 1] + 1)..s[n] PROVE Results(r) = {indxId_[n]}
  <2>1. s[n - 1] < r /\ r <= s[n]
    BY <1>2, <1>5, <1>10
  <2>2. n \in Stops(r)
    BY <2>1, <1>5, <1>7
  <2>3. ASSUME NEW l \in Stops(r) PROVE n <= l
    <3>1. SUFFICES ASSUME l <= n - 1 PROVE FALSE
      BY <1>5, <1>6, <1>8
    <3>2. l \in 1..L /\ l \in 0..L /\ r <= s[l]
      BY <1>6, <1>7, <1>8
    <3>3. s[l] <= s[n - 1] /\ s[l] \in Nat /\ s[n - 1] \in Nat
      BY <3>1, <3>2, <1>2, <1>5
    <3>4. QED
      BY <3>2, <3>3, <2>1, <1>5
  <2>4. \A m \in First : m = n
    BY <2>2, <2>3, <1>5, <1>6, <1>8
  <2>5. n \in First
    BY <2>2, <2>3
  <2>6. First = {n}
    BY <2>4, <2>5
  <2> HIDE DEF First
  <2>7. QED
    BY <2>6, <1>9
<1>11. ASSUME Results(r) = {indxId_[n]} PROVE r \in (s[n - 1] + 1)..s[n]
  <2>1. PICK m \in First : indxId_[m] = indxId_[n]
    <3> HIDE DEF First
    <3>1. QED
      BY <1>9, <1>11
  <2>2. m \in 1..L /\ m = n
    BY <2>1, <1>3, <1>5, <1>8
  <2>3. n \in Stops(r) /\ \A l \in Stops(r) : n <= l
    BY <2>1, <2>2
  <2>4. r <= s[n]
    BY <2>3, <1>5, <1>7
  <2>5. s[n - 1] < r
    <3>1. CASE n = 1
      BY <3>1, <1>2, <1>5
    <3>2. CASE n # 1
      <4>1. n - 1 \in 1..L /\ ~(n <= n - 1)
        BY <3>2, <1>2, <1>5
      <4>2. ~(r <= s[n - 1])
        BY <4>1, <2>3, <1>7
      <4>3. QED
        BY <4>2, <1>2, <1>5
    <3>3. QED
      BY <3>1, <3>2
  <2>6. QED
    BY <2>4, <2>5, <1>2, <1>5
<1>12. QED
  BY <1>10, <1>11 DEF s

\* The invariant makes draws fair.
LEMMA FairFromInv == WeightsInv => ChoiceIsFair
<1> SUFFICES ASSUME WeightsInv PROVE ChoiceIsFair
  OBVIOUS
<1> DEFINE L == Len(weight_)
           s == Sums(weight_)
<1>1. weight_ \in Seq(Nat) /\ sum_ \in Nat /\ sum_ = Total(weight_)
  BY DEF WeightsInv, WeightsTypeOK
<1>2. /\ L \in Nat /\ s[0] = 0 /\ \A m \in 0..L : s[m] \in Nat
      /\ \A m \in 1..L : s[m] = s[m - 1] + weight_[m] /\ weight_[m] \in Nat
      /\ \A l, m \in 0..L : l <= m => s[l] <= s[m]
  BY <1>1, SumsProperties, SumsGrow, ElementOfSeq
<1>3. /\ Len(given) = L
      /\ \A n \in 1..L : indxId_[n] \in 0..(L - 1) /\ given[indxId_[n] + 1] = weight_[n]
      /\ \A k \in 1..L : \E n \in 1..L : indxId_[n] = k - 1
  BY DEF WeightsInv, Belongs
<1>4. sum_ = s[L]
  BY <1>1 DEF Total
<1> HIDE DEF s, L
<1>5. ASSUME NEW k \in 1..L
      PROVE  Cardinality({r \in 1..sum_ : Results(r) = {k - 1}}) = given[k]
  <2>1. PICK n \in 1..L : indxId_[n] = k - 1
    BY <1>3
  <2> DEFINE a == s[n - 1] + 1
             z == s[n]
  <2>2. n \in 0..L /\ n - 1 \in 0..L /\ L \in 0..L /\ n <= L /\ (k - 1) + 1 = k
    BY <1>2
  <2>3. /\ s[n - 1] \in Nat /\ z \in Nat /\ weight_[n] \in Nat /\ s[L] \in Nat
        /\ z = s[n - 1] + weight_[n] /\ z <= s[L]
    BY <2>2, <1>2
  <2>4. given[k] = weight_[n]
    BY <2>1, <2>2, <1>3
  <2>5. \A r \in 1..sum_ : (Results(r) = {k - 1}) <=> (r \in a..z)
    BY <2>1, DrawnAt DEF s, L
  <2>6. \A r \in a..z : r \in 1..sum_
    BY <2>3, <1>4
  <2>7. {r \in 1..sum_ : Results(r) = {k - 1}} = a..z
    <3> HIDE DEF a, z
    <3>1. QED
      BY <2>5, <2>6
  <2>8. a \in Int /\ z \in Int
    BY <2>3
  <2>9. Cardinality(a..z) = IF a > z THEN 0 ELSE z - a + 1
    <3> HIDE DEF a, z
    <3>1. QED
      BY <2>8, FS_Interval
  <2>10. (IF a > z THEN 0 ELSE z - a + 1) = weight_[n]
    BY <2>3
  <2>11. QED
    BY <2>4, <2>7, <2>9, <2>10
<1>6. QED
  BY <1>3, <1>5 DEF ChoiceIsFair, WeightsInv

\* A new object, before init().
LEMMA WeightsStart == WeightsInit => WeightsInv
<1> SUFFICES ASSUME WeightsInit PROVE WeightsInv
  OBVIOUS
<1>1. <<>> \in Seq(Nat) /\ Len(<<>>) = 0 /\ 1..0 = {} /\ 0 \in 0..0
  OBVIOUS
<1>2. Total(<<>>) = 0
  <2>1. Sums(<<>>)[0] = 0
    BY <1>1, SumsProperties
  <2>2. QED
    BY <1>1, <2>1 DEF Total
<1>3. Belongs(<<>>, <<>>, <<>>)
  BY <1>1 DEF Belongs
<1>4. QED
  BY <1>1, <1>2, <1>3 DEF WeightsInit, WeightsInv, WeightsTypeOK

\* Every call, and every turn of a shuffle, keeps the invariant.
LEMMA WeightsStep ==
  ASSUME WeightsInv, WeightsNext
  PROVE  WeightsInv'
<1>1. /\ weight_ \in Seq(Nat) /\ given \in Seq(Nat) /\ restored \in Seq(Nat)
      /\ indxId_ \in Seq(Nat) /\ sum_ \in Nat /\ Len(indxId_) = Len(weight_)
      /\ turn \in 0..Len(weight_) /\ Len(weight_) \in Nat /\ Len(given) = Len(weight_)
      /\ drawn \in {<<>>} \cup {<<k>> : k \in 0..(Len(given) - 1)}
      /\ Belongs(given, weight_, indxId_) /\ sum_ = Total(weight_)
      /\ turn > 0 => turn < Len(weight_)
      /\ restored # <<>> => restored = given
  BY LenProperties DEF WeightsInv, WeightsTypeOK, Belongs
<1>a. /\ Len(weight_) \in Nat /\ turn \in 0..Len(weight_)
      /\ turn > 0 => turn < Len(weight_)
  BY <1>1
<1>b. ASSUME WeightsTypeOK', Belongs(given', weight_', indxId_'), sum_' = Total(weight_'),
             turn' > 0 => turn' < Len(weight_'), restored' # <<>> => restored' = given'
      PROVE  WeightsInv'
  BY <1>b DEF WeightsInv, Belongs, Total, Sums
<1>2. ASSUME NEW w \in WeightLists, InitWeights(w) PROVE WeightsInv'
  <2> DEFINE L == Len(w)
             d == [i \in 1..L |-> i - 1]
  <2>1. w \in Seq(Nat) /\ L \in Nat
    BY WeightListsAssumption, LenProperties
  <2>2. Total(w) \in Nat
    <3>1. Sums(w) \in [0..L -> Nat] /\ L \in 0..L
      BY <2>1, SumsProperties
    <3>2. QED
      BY <3>1 DEF Total
  <2>3. d \in [1..L -> Nat]
    BY <2>1
  <2>4. d \in Seq(Nat) /\ Len(d) = L /\ \A n \in 1..L : d[n] = n - 1
    BY <2>1, <2>3, SeqDef
  <2>5. /\ weight_' = w /\ indxId_' = d /\ sum_' = Total(w) /\ given' = w
        /\ drawn' = <<>> /\ restored' = <<>> /\ turn' = 0
    BY <1>2 DEF InitWeights
  <2> HIDE DEF d, L
  <2>6. Belongs(w, w, d)
    <3>1. \A n \in 1..L : d[n] \in 0..(L - 1) /\ d[n] + 1 = n
      BY <2>1, <2>4
    <3>2. \A m, n \in 1..L : d[m] = d[n] => m = n
      BY <3>1
    <3>3. \A k \in 1..L : d[k] = k - 1
      BY <2>4
    <3>4. QED
      BY <2>4, <3>1, <3>2, <3>3 DEF Belongs, L
  <2>7. /\ w \in Seq(Nat) /\ <<>> \in Seq(Nat) /\ 0 \in 0..Len(w) /\ Len(d) = Len(w)
    BY <2>1, <2>4 DEF L
  <2>8. WeightsTypeOK'
    BY <2>2, <2>4, <2>5, <2>7 DEF WeightsTypeOK
  <2>9. QED
    BY <2>5, <2>6, <2>8, <1>b
<1>3. ASSUME BeginShuffle PROVE WeightsInv'
  <2>1. /\ turn' = Len(weight_) - 1 /\ weight_' = weight_ /\ indxId_' = indxId_ /\ sum_' = sum_
        /\ given' = given /\ drawn' = drawn /\ restored' = restored /\ weight_ # <<>>
    BY <1>3 DEF BeginShuffle
  <2>2. Len(weight_) > 0
    BY <2>1, <1>1, EmptySeq
  <2>3. turn' \in 0..Len(weight_) /\ turn' < Len(weight_)
    BY <2>1, <2>2, <1>a
  <2>4. WeightsTypeOK'
    BY <2>1, <2>3, <1>1 DEF WeightsTypeOK
  <2>5. QED
    BY <2>1, <2>3, <2>4, <1>1, <1>b
<1>4. ASSUME ShuffleTurn PROVE WeightsInv'
  <2>1. PICK h \in 0..turn :
          /\ weight_' = Exchange(weight_, turn + 1, h + 1)
          /\ indxId_' = Exchange(indxId_, turn + 1, h + 1)
    BY <1>4 DEF ShuffleTurn
  <2> DEFINE i == turn + 1
             j == h + 1
             v == Exchange(weight_, i, j)
             c == Exchange(indxId_, i, j)
             L == Len(weight_)
  <2>2. /\ turn > 0 /\ turn' = turn - 1 /\ sum_' = sum_ /\ given' = given
        /\ drawn' = drawn /\ restored' = restored
    BY <1>4 DEF ShuffleTurn
  <2>3. i \in 1..L /\ j \in 1..L /\ turn' \in 0..L /\ turn' < L
    BY <2>2, <1>a
  <2> HIDE DEF i, j, L
  <2>4. v \in Seq(Nat) /\ Len(v) = L
    <3> HIDE DEF c
    <3>1. i \in 1..Len(weight_) /\ j \in 1..Len(weight_)
      BY <2>3 DEF L
    <3>2. QED
      BY <3>1, <1>1, ExchangeProperties DEF L, Exchanged
  <2>5. c \in Seq(Nat) /\ Len(c) = L
    <3> HIDE DEF v
    <3>1. i \in 1..Len(indxId_) /\ j \in 1..Len(indxId_)
      BY <2>3, <1>1 DEF L
    <3>2. QED
      BY <3>1, <1>1, ExchangeProperties DEF L, Exchanged
  <2>6. Belongs(given, v, c)
    BY <2>3, <1>1, ExchangeBelongs DEF L
  <2>7. Total(v) = sum_
    BY <2>3, <1>1, TotalExchange DEF L
  <2>8. weight_' = v /\ indxId_' = c
    BY <2>1 DEF i, j
  <2> HIDE DEF v, c
  <2>9. WeightsTypeOK'
    BY <2>2, <2>3, <2>4, <2>5, <2>8, <1>1 DEF WeightsTypeOK, L
  <2>10. QED
    BY <2>2, <2>3, <2>4, <2>6, <2>7, <2>8, <2>9, <1>1, <1>b
<1>5. ASSUME GetResult PROVE WeightsInv'
  <2>1. PICK r \in 1..sum_ : \E k \in Results(r) : drawn' = <<k>>
    BY <1>5 DEF GetResult
  <2>2. PICK n \in 1..Len(weight_) : drawn' = <<indxId_[n]>>
    BY <2>1 DEF Results, Stops
  <2>3. indxId_[n] \in 0..(Len(given) - 1)
    BY <1>1, <2>2 DEF Belongs
  <2>4. /\ turn' = turn /\ weight_' = weight_ /\ indxId_' = indxId_ /\ sum_' = sum_
        /\ given' = given /\ restored' = restored
    BY <1>5 DEF GetResult
  <2>5. drawn' \in {<<k>> : k \in 0..(Len(given) - 1)}
    BY <2>2, <2>3
  <2>6. WeightsTypeOK'
    BY <2>4, <2>5, <1>1 DEF WeightsTypeOK
  <2>7. QED
    BY <2>4, <2>6, <1>1, <1>b
<1>6. ASSUME Recover PROVE WeightsInv'
  <2> DEFINE L == Len(weight_)
             At(p) == CHOOSE n \in 1..L : indxId_[n] = p - 1
             new == [p \in 1..L |-> weight_[At(p)]]
  <2>1. /\ turn' = turn /\ weight_' = weight_ /\ indxId_' = indxId_ /\ sum_' = sum_
        /\ given' = given /\ drawn' = drawn /\ restored' = new
    BY <1>6 DEF Recover
  <2>2. ASSUME NEW p \in 1..L PROVE weight_[At(p)] = given[p]
    <3>1. \E n \in 1..L : indxId_[n] = p - 1
      BY <1>1 DEF Belongs
    <3>2. At(p) \in 1..L /\ indxId_[At(p)] = p - 1
      BY <3>1
    <3> HIDE DEF At
    <3>3. given[indxId_[At(p)] + 1] = weight_[At(p)]
      BY <3>2, <1>1 DEF Belongs
    <3>4. (p - 1) + 1 = p
      BY <1>a
    <3>5. QED
      BY <3>2, <3>3, <3>4
  <2> HIDE DEF At
  <2>3. given = [p \in 1..L |-> given[p]]
    BY <1>1, LenProperties
  <2>4. new = given
    BY <2>2, <2>3
  <2> HIDE DEF new
  <2>5. WeightsTypeOK'
    BY <2>1, <2>4, <1>1 DEF WeightsTypeOK
  <2>6. QED
    BY <2>1, <2>4, <2>5, <1>1, <1>b
<1>7. ASSUME DestroyWeights PROVE WeightsInv'
  <2>1. /\ weight_' = <<>> /\ indxId_' = <<>> /\ sum_' = 0 /\ turn' = 0
        /\ given' = <<>> /\ drawn' = <<>> /\ restored' = <<>>
    BY <1>7 DEF DestroyWeights
  <2>2. <<>> \in Seq(Nat) /\ Len(<<>>) = 0 /\ 1..0 = {} /\ 0 \in 0..0
    OBVIOUS
  <2>3. Total(<<>>) = 0
    <3>1. Sums(<<>>)[0] = 0
      BY <2>2, SumsProperties
    <3>2. QED
      BY <2>2, <3>1 DEF Total
  <2>4. Belongs(<<>>, <<>>, <<>>)
    BY <2>2 DEF Belongs
  <2>5. WeightsTypeOK'
    BY <2>1, <2>2 DEF WeightsTypeOK
  <2>6. QED
    BY <2>1, <2>2, <2>3, <2>4, <2>5, <1>b
<1>8. QED
  BY <1>2, <1>3, <1>4, <1>5, <1>6, <1>7 DEF WeightsNext

-----------------------------------------------------------------------------
(* AES and DES: Cipher. *)

\* The part of a sequence between two offsets.
Slice(s, r, w) == SubSeq(s, r + 1, w)

\* Its length and its elements.
LEMMA SliceFacts ==
  ASSUME NEW s \in Seq(Byte), NEW r \in Nat, NEW w \in Nat, r <= w, w <= Len(s)
  PROVE  /\ Slice(s, r, w) \in Seq(Byte)
         /\ Len(Slice(s, r, w)) = w - r
         /\ \A i \in 1..(w - r) : Slice(s, r, w)[i] = s[r + i]
<1>1. Len(s) \in Nat /\ \A i \in 1..Len(s) : s[i] \in Byte
  BY LenProperties, ElementOfSeq
<1> DEFINE m == r + 1
<1>2. m \in Int /\ w \in Int /\ \A i \in m..w : s[i] \in Byte
  BY <1>1
<1> HIDE DEF m
<1>3. /\ SubSeq(s, m, w) \in Seq(Byte)
      /\ Len(SubSeq(s, m, w)) = IF m <= w THEN w - m + 1 ELSE 0
      /\ \A i \in 1..(w - m + 1) : SubSeq(s, m, w)[i] = s[m + i - 1]
  BY <1>2, SubSeqProperties
<1> DEFINE q == SubSeq(s, m, w)
<1>4. q \in Seq(Byte) /\ Len(q) = w - r
  BY <1>3 DEF m
<1>5. ASSUME NEW i \in 1..(w - r) PROVE q[i] = s[r + i]
  <2>1. i \in 1..(w - m + 1) /\ m + i - 1 = r + i
    BY DEF m
  <2>2. QED
    BY <2>1, <1>3
<1>6. QED
  BY <1>4, <1>5 DEF Slice, m

\* The part in front of an offset.
LEMMA FrontFacts ==
  ASSUME NEW s \in Seq(Byte), NEW n \in Nat, n <= Len(s)
  PROVE  /\ Slice(s, 0, n) \in Seq(Byte)
         /\ Len(Slice(s, 0, n)) = n
         /\ \A i \in 1..n : Slice(s, 0, n)[i] = s[i]
<1> DEFINE z == Slice(s, 0, n)
<1>1. 0 \in Nat /\ 0 <= n /\ n - 0 = n /\ \A i \in 1..n : 0 + i = i
  OBVIOUS
<1>2. z \in Seq(Byte) /\ Len(z) = n - 0 /\ \A i \in 1..(n - 0) : z[i] = s[0 + i]
  BY <1>1, SliceFacts
<1> HIDE DEF z
<1>3. z \in Seq(Byte) /\ Len(z) = n /\ \A i \in 1..n : z[i] = s[i]
  BY <1>1, <1>2
<1>4. QED
  BY <1>3 DEF z

\* The parts before and behind an offset make up the whole.
LEMMA SliceJoin ==
  ASSUME NEW s \in Seq(Byte), NEW m \in Nat, NEW w \in Nat, m <= w, w <= Len(s)
  PROVE  Slice(s, 0, m) \o Slice(s, m, w) = Slice(s, 0, w)
<1> DEFINE x == Slice(s, 0, m)
           y == Slice(s, m, w)
           z == Slice(s, 0, w)
<1>1. Len(s) \in Nat /\ m <= Len(s)
  BY LenProperties
<1>2. x \in Seq(Byte) /\ Len(x) = m /\ \A i \in 1..m : x[i] = s[i]
  BY <1>1, FrontFacts
<1>3. y \in Seq(Byte) /\ Len(y) = w - m /\ \A i \in 1..(w - m) : y[i] = s[m + i]
  BY <1>1, SliceFacts
<1>4. z \in Seq(Byte) /\ Len(z) = w /\ \A i \in 1..w : z[i] = s[i]
  BY FrontFacts
<1> HIDE DEF x, y, z
<1>5. /\ x \o y \in Seq(Byte) /\ Len(x \o y) = m + (w - m)
      /\ \A i \in 1..(m + (w - m)) : (x \o y)[i] = IF i <= m THEN x[i] ELSE y[i - m]
  BY <1>2, <1>3, ConcatProperties
<1>6. m + (w - m) = w
  OBVIOUS
<1>7. ASSUME NEW i \in 1..w PROVE (x \o y)[i] = z[i]
  <2>1. CASE i <= m
    <3>1. i \in 1..m
      BY <2>1
    <3>2. QED
      BY <3>1, <2>1, <1>2, <1>4, <1>5, <1>6
  <2>2. CASE ~(i <= m)
    <3>1. i - m \in 1..(w - m) /\ m + (i - m) = i
      BY <2>2
    <3>2. QED
      BY <3>1, <2>2, <1>3, <1>4, <1>5, <1>6
  <2>3. QED
    BY <2>1, <2>2
<1>8. x \o y = z
  BY <1>4, <1>5, <1>6, <1>7, SeqEqual
<1>9. QED
  BY <1>8 DEF x, y, z

\* All of a sequence.
LEMMA SliceAll ==
  ASSUME NEW s \in Seq(Byte)
  PROVE  Slice(s, 0, Len(s)) = s
<1> DEFINE n == Len(s)
           z == Slice(s, 0, n)
<1>1. n \in Nat /\ n <= Len(s)
  BY LenProperties
<1> HIDE DEF n
<1>2. z \in Seq(Byte) /\ Len(z) = n /\ \A i \in 1..n : z[i] = s[i]
  BY <1>1, FrontFacts
<1> HIDE DEF z
<1>3. Len(z) = Len(s) /\ \A i \in 1..Len(z) : z[i] = s[i]
  BY <1>1, <1>2 DEF n
<1>4. z = s
  BY <1>2, <1>3, SeqEqual
<1>5. QED
  BY <1>4 DEF z, n

\* The front of a concatenation.
LEMMA SliceOfConcat ==
  ASSUME NEW s \in Seq(Byte), NEW t \in Seq(Byte)
  PROVE  Slice(s \o t, 0, Len(s)) = s
<1> DEFINE n == Len(s)
           u == s \o t
           z == Slice(u, 0, n)
<1>1. n \in Nat /\ Len(t) \in Nat
  BY LenProperties
<1>2. /\ u \in Seq(Byte) /\ Len(u) = n + Len(t)
      /\ \A i \in 1..(n + Len(t)) : u[i] = IF i <= n THEN s[i] ELSE t[i - n]
  BY ConcatProperties
<1> HIDE DEF n, u
<1>3. n <= Len(u) /\ \A i \in 1..n : u[i] = s[i]
  BY <1>1, <1>2
<1>4. z \in Seq(Byte) /\ Len(z) = n /\ \A i \in 1..n : z[i] = u[i]
  BY <1>1, <1>2, <1>3, FrontFacts
<1> HIDE DEF z
<1>5. Len(z) = Len(s) /\ \A i \in 1..Len(z) : z[i] = s[i]
  BY <1>1, <1>3, <1>4 DEF n
<1>6. z = s
  BY <1>4, <1>5, SeqEqual
<1>7. QED
  BY <1>6 DEF z, n, u

\* strlen is determined by what it says.
LEMMA StrlenIs ==
  ASSUME NEW s, Len(s) \in Nat, NEW n \in 0..Len(s),
         \A i \in 1..n : s[i] # 0,
         n < Len(s) => s[n + 1] = 0
  PROVE  strlen(s) = n
<1> DEFINE P(m) == (\A i \in 1..m : s[i] # 0) /\ (m < Len(s) => s[m + 1] = 0)
<1>1. P(n)
  OBVIOUS
<1>2. ASSUME NEW m \in 0..Len(s), P(m) PROVE m = n
  <2>1. ASSUME m < n PROVE FALSE
    <3>1. m + 1 \in 1..n /\ m < Len(s)
      BY <2>1
    <3>2. QED
      BY <3>1, <1>1, <1>2
  <2>2. ASSUME n < m PROVE FALSE
    <3>1. n + 1 \in 1..m /\ n < Len(s)
      BY <2>2
    <3>2. QED
      BY <3>1, <1>1, <1>2
  <2>3. QED
    BY <2>1, <2>2
<1>3. strlen(s) = CHOOSE m \in 0..Len(s) : P(m)
  BY DEF strlen
<1> HIDE DEF P
<1>4. QED
  BY <1>1, <1>2, <1>3

\* Every byte string has a length as a C string.
LEMMA StrlenExists ==
  ASSUME NEW s, Len(s) \in Nat
  PROVE  /\ strlen(s) \in 0..Len(s)
         /\ \A i \in 1..strlen(s) : s[i] # 0
<1> DEFINE Z == {i \in 1..Len(s) : s[i] = 0}
<1>1. CASE Z = {}
  <2>1. Len(s) \in 0..Len(s) /\ (\A i \in 1..Len(s) : s[i] # 0) /\ ~(Len(s) < Len(s))
    BY <1>1
  <2>2. strlen(s) = Len(s)
    BY <2>1, StrlenIs
  <2>3. QED
    BY <2>1, <2>2
<1>2. CASE Z # {}
  <2>1. Z \in SUBSET Nat
    OBVIOUS
  <2>2. PICK z \in Z : \A y \in Z : z <= y
    BY <1>2, <2>1, LeastNat
  <2> DEFINE n == z - 1
  <2>3. z \in 1..Len(s) /\ s[z] = 0
    BY <2>2
  <2>4. n \in 0..Len(s) /\ n + 1 = z
    BY <2>3
  <2>5. ASSUME NEW i \in 1..n PROVE s[i] # 0
    <3>1. i \in 1..Len(s) /\ ~(z <= i)
      BY <2>3
    <3>2. QED
      BY <3>1, <2>2
  <2> HIDE DEF n
  <2>6. n < Len(s) => s[n + 1] = 0
    BY <2>3, <2>4
  <2>7. strlen(s) = n
    BY <2>4, <2>5, <2>6, StrlenIs
  <2>8. QED
    BY <2>4, <2>5, <2>7
<1>3. QED
  BY <1>1, <1>2

\* A string without NUL is its own C string.
LEMMA StrlenWhole ==
  ASSUME NEW s, Len(s) \in Nat, \A i \in 1..Len(s) : s[i] # 0
  PROVE  strlen(s) = Len(s)
<1>1. Len(s) \in 0..Len(s) /\ ~(Len(s) < Len(s))
  OBVIOUS
<1>2. QED
  BY <1>1, StrlenIs

\* Multiples of a block.
LEMMA Multiples ==
  ASSUME NEW B \in Nat \ {0}, NEW a \in Nat, NEW b \in Nat
  PROVE  /\ a * B \in Nat /\ b * B \in Nat
         /\ a <= b => a * B <= b * B
         /\ a * B < b * B => a < b
         /\ a < b => (a + 1) * B <= b * B
         /\ (a + 1) * B = a * B + B
<1>1. a * B \in Nat /\ b * B \in Nat /\ (a + 1) * B = a * B + B
  OBVIOUS
<1>2. a <= b => a * B <= b * B
  OBVIOUS
<1>3. b <= a => b * B <= a * B
  OBVIOUS
<1>4. a < b => (a + 1) * B <= b * B
  OBVIOUS
<1>5. QED
  BY <1>1, <1>2, <1>3, <1>4

\* The number of blocks of size B that a padded text of L bytes has.
Blocks(L, B) == (L \div B) + 1

\* PKCS padding to blocks of size B.
Padded(s, B) ==
  LET n == B - (Len(s) % B) IN s \o [i \in 1..n |-> n]

\* A text of L bytes reaches into its last block and not beyond.
LEMMA BlocksFacts ==
  ASSUME NEW B \in Nat \ {0}, NEW L \in Nat
  PROVE  /\ Blocks(L, B) \in Nat \ {0}
         /\ (Blocks(L, B) - 1) * B <= L /\ L < Blocks(L, B) * B
         /\ Blocks(L, B) * B = L + (B - (L % B))
         /\ (L % B) = L - (Blocks(L, B) - 1) * B
         /\ \A b \in Nat : b * B <= L <=> b < Blocks(L, B)
         /\ Blocks(L, B) <= L + 1
<1> DEFINE q == L \div B
           r == L % B
           N == Blocks(L, B)
<1>1. L = B * q + r /\ r \in 0..(B - 1) /\ q \in Nat
  BY DivMod
<1>2. N = q + 1
  BY DEF Blocks
<1> HIDE DEF q, r, N
<1>3. N \in Nat \ {0} /\ N - 1 = q /\ q * B = B * q /\ N * B = q * B + B
  BY <1>1, <1>2
<1>4. q * B \in Nat /\ q * B <= L /\ L < N * B /\ N * B = L + (B - r) /\ r = L - q * B
  BY <1>1, <1>3
<1>5. ASSUME NEW b \in Nat PROVE b * B <= L <=> b < N
  <2>1. ASSUME b < N PROVE b * B <= L
    <3>1. b <= q
      BY <2>1, <1>1, <1>2
    <3>2. b * B <= q * B
      BY <3>1, <1>1, Multiples
    <3>3. b * B \in Nat
      OBVIOUS
    <3>4. QED
      BY <3>2, <3>3, <1>4
  <2>2. ASSUME b * B <= L PROVE b < N
    <3>1. b * B \in Nat /\ N * B \in Nat
      BY <1>3
    <3>2. b * B < N * B
      BY <3>1, <2>2, <1>4
    <3>3. QED
      BY <3>2, <1>3, Multiples
  <2>3. QED
    BY <2>1, <2>2
<1>6. N <= L + 1
  <2>1. q <= B * q
    BY <1>1
  <2>2. QED
    BY <2>1, <1>1, <1>2
<1>7. QED
  BY <1>3, <1>4, <1>5, <1>6 DEF N, r

\* What the padding adds.
LEMMA PaddedFacts ==
  ASSUME NEW B \in 1..255, NEW s \in Seq(Byte)
  PROVE  /\ Len(s) \in Nat
         /\ B - (Len(s) % B) \in 1..B
         /\ Padded(s, B) \in Seq(Byte)
         /\ Len(Padded(s, B)) = Blocks(Len(s), B) * B
         /\ Len(Padded(s, B)) = Len(s) + (B - (Len(s) % B))
         /\ \A i \in 1..Len(s) : Padded(s, B)[i] = s[i]
         /\ \A i \in (Len(s) + 1)..Len(Padded(s, B)) : Padded(s, B)[i] = B - (Len(s) % B)
         /\ Slice(Padded(s, B), 0, Len(s)) = s
<1> DEFINE L == Len(s)
           n == B - (L % B)
           pad == [i \in 1..n |-> n]
           P == Padded(s, B)
<1>1. L \in Nat /\ B \in Nat \ {0}
  BY LenProperties
<1>2. n \in 1..B
  <2>1. (L % B) \in 0..(B - 1)
    BY <1>1, DivMod
  <2>2. QED
    BY <2>1
<1>3. P = s \o pad
  BY DEF Padded
<1>4. Blocks(L, B) * B = L + n
  BY <1>1, BlocksFacts
<1> HIDE DEF n, L
<1>5. n \in Nat /\ n \in Byte
  BY <1>2 DEF Byte
<1>6. pad \in [1..n -> Byte] /\ \A i \in 1..n : pad[i] = n
  BY <1>5
<1> HIDE DEF pad
<1>7. pad \in Seq(Byte) /\ Len(pad) = n
  BY <1>5, <1>6, SeqDef
<1>8. /\ P \in Seq(Byte) /\ Len(P) = L + n
      /\ \A i \in 1..(L + n) : P[i] = IF i <= L THEN s[i] ELSE pad[i - L]
  <2>1. /\ s \o pad \in Seq(Byte) /\ Len(s \o pad) = Len(s) + Len(pad)
        /\ \A i \in 1..(Len(s) + Len(pad)) :
             (s \o pad)[i] = IF i <= Len(s) THEN s[i] ELSE pad[i - Len(s)]
    BY <1>7, ConcatProperties
  <2>2. QED
    BY <2>1, <1>3, <1>7 DEF L
<1>9. Slice(P, 0, L) = s
  BY <1>3, <1>7, SliceOfConcat DEF L
<1> HIDE DEF P
<1>10. \A i \in 1..L : P[i] = s[i]
  BY <1>1, <1>5, <1>8
<1>11. ASSUME NEW i \in (L + 1)..Len(P) PROVE P[i] = n
  <2>1. i \in 1..(L + n) /\ ~(i <= L) /\ i - L \in 1..n
    BY <1>1, <1>5, <1>8
  <2>2. QED
    BY <2>1, <1>6, <1>8
<1>12. QED
  BY <1>1, <1>2, <1>4, <1>8, <1>9, <1>10, <1>11 DEF P, n, L

\* Padding fills a block.
LEMMA PaddingFacts ==
  ASSUME NEW s \in Seq(Byte), Len(s) <= KEYCODELENGTH
  PROVE  /\ Padding(s) \in Seq(Byte)
         /\ Len(Padding(s)) = KEYCODELENGTH
         /\ \A i \in 1..Len(s) : Padding(s)[i] = s[i]
         /\ \A i \in 1..KEYCODELENGTH : i > Len(s) => Padding(s)[i] = KEYCODELENGTH - Len(s)
<1> DEFINE L == Len(s)
           n == KEYCODELENGTH - L
           pad == [i \in 1..n |-> n]
           P == Padding(s)
<1>1. L \in Nat /\ KEYCODELENGTH \in Nat /\ n \in Nat /\ n \in Byte /\ L + n = KEYCODELENGTH
      /\ L <= KEYCODELENGTH
  <2>1. L \in Nat /\ L <= KEYCODELENGTH
    BY LenProperties
  <2>2. KEYCODELENGTH \in Nat /\ KEYCODELENGTH <= 255
    BY CipherAssumption
  <2> HIDE DEF L
  <2>3. QED
    BY <2>1, <2>2 DEF Byte
<1>2. P = s \o pad
  BY DEF Padding
<1> HIDE DEF n
<1>3. pad \in [1..n -> Byte] /\ \A i \in 1..n : pad[i] = n
  BY <1>1
<1> HIDE DEF pad
<1>4. pad \in Seq(Byte) /\ Len(pad) = n
  BY <1>1, <1>3, SeqDef
<1>5. /\ P \in Seq(Byte) /\ Len(P) = L + n
      /\ \A i \in 1..(L + n) : P[i] = IF i <= L THEN s[i] ELSE pad[i - L]
  <2>1. /\ s \o pad \in Seq(Byte) /\ Len(s \o pad) = Len(s) + Len(pad)
        /\ \A i \in 1..(Len(s) + Len(pad)) :
             (s \o pad)[i] = IF i <= Len(s) THEN s[i] ELSE pad[i - Len(s)]
    BY <1>4, ConcatProperties
  <2>2. QED
    BY <2>1, <1>2, <1>4
<1> HIDE DEF P, L
<1>6. \A i \in 1..L : P[i] = s[i]
  BY <1>1, <1>5
<1>7. ASSUME NEW i \in 1..KEYCODELENGTH, i > L PROVE P[i] = n
  <2>1. i \in 1..(L + n) /\ ~(i <= L) /\ i - L \in 1..n
    BY <1>1, <1>7
  <2>2. QED
    BY <2>1, <1>3, <1>5
<1>8. QED
  BY <1>1, <1>5, <1>6, <1>7 DEF P, n, L

\* One block from the front of a C string.
LEMMA StringToHexFacts ==
  ASSUME NEW s \in Seq(Byte)
  PROVE  /\ StringToHex(s) \in Seq(Byte)
         /\ Len(StringToHex(s)) = KEYCODELENGTH
         /\ \E m \in Nat :
              /\ m <= strlen(s) /\ m <= KEYCODELENGTH
              /\ m = strlen(s) \/ m = KEYCODELENGTH
              /\ \A i \in 1..m : StringToHex(s)[i] = s[i]
              /\ \A i \in 1..KEYCODELENGTH : i > m => StringToHex(s)[i] = KEYCODELENGTH - m
<1> DEFINE l == strlen(s)
           m == IF l > KEYCODELENGTH THEN KEYCODELENGTH ELSE l
           t == Slice(s, 0, m)
<1>1. Len(s) \in Nat /\ KEYCODELENGTH \in Nat
  BY LenProperties, CipherAssumption
<1>2. l \in 0..Len(s)
  BY <1>1, StrlenExists
<1>3. m \in Nat /\ m <= Len(s) /\ m <= l /\ m <= KEYCODELENGTH /\ (m = l \/ m = KEYCODELENGTH)
  BY <1>1, <1>2
<1>4. StringToHex(s) = Padding(t)
  <2>1. StringToHex(s) = Padding(SubSeq(s, 1, m)) /\ 0 + 1 = 1
    BY DEF StringToHex
  <2>2. QED
    BY <2>1 DEF Slice
<1> HIDE DEF m, l
<1>5. t \in Seq(Byte) /\ Len(t) = m /\ \A i \in 1..m : t[i] = s[i]
  BY <1>3, FrontFacts
<1> HIDE DEF t
<1>6. Len(t) <= KEYCODELENGTH
  BY <1>3, <1>5
<1>7. /\ StringToHex(s) \in Seq(Byte) /\ Len(StringToHex(s)) = KEYCODELENGTH
      /\ \A i \in 1..Len(t) : StringToHex(s)[i] = t[i]
      /\ \A i \in 1..KEYCODELENGTH : i > Len(t) => StringToHex(s)[i] = KEYCODELENGTH - Len(t)
  BY <1>4, <1>5, <1>6, PaddingFacts
<1>8. /\ \A i \in 1..m : StringToHex(s)[i] = s[i]
      /\ \A i \in 1..KEYCODELENGTH : i > m => StringToHex(s)[i] = KEYCODELENGTH - m
  BY <1>5, <1>7
<1>9. QED
  BY <1>3, <1>7, <1>8 DEF l

\* A block of a text without NUL, as AES_ECBEncrypt takes it, is that block
\* of the padded text.
LEMMA HexBlock ==
  ASSUME NEW d \in Seq(Byte), \A i \in 1..Len(d) : d[i] # 0,
         NEW b \in Nat, b < Blocks(Len(d), KEYCODELENGTH)
  PROVE  StringToHex(Slice(d, b * KEYCODELENGTH, Len(d))) =
           Slice(Padded(d, KEYCODELENGTH), b * KEYCODELENGTH, (b + 1) * KEYCODELENGTH)
<1> DEFINE K == KEYCODELENGTH
           L == Len(d)
           N == Blocks(L, K)
           o == b * K
           rest == Slice(d, o, L)
           P == Padded(d, K)
           n == K - (L % K)
           x == StringToHex(rest)
           y == Slice(P, o, o + K)
<1>1. L \in Nat /\ K \in Nat \ {0} /\ K \in 1..255
  BY LenProperties, CipherAssumption
<1>2. /\ N \in Nat \ {0} /\ o <= L /\ N * K = L + n /\ n = K - (L - (N - 1) * K)
      /\ L < N * K
  BY <1>1, BlocksFacts
<1>3. o \in Nat /\ (b + 1) * K = o + K /\ o + K <= N * K /\ N * K \in Nat
  BY <1>1, <1>2, Multiples
<1>4. /\ P \in Seq(Byte) /\ Len(P) = N * K /\ n \in 1..K
      /\ \A i \in 1..L : P[i] = d[i]
      /\ \A i \in (L + 1)..Len(P) : P[i] = n
  BY <1>1, PaddedFacts
<1>5. L - o < K => n = K - (L - o)
  <2>1. SUFFICES ASSUME L - o < K PROVE b = N - 1
    BY <1>2
  <2>2. N * K < (b + 1) * K + K
    BY <2>1, <1>1, <1>2, <1>3, <1>4
  <2>3. (b + 1) + 1 \in Nat /\ ((b + 1) + 1) * K = (b + 1) * K + K
    BY <1>1
  <2>4. N < (b + 1) + 1
    <3> DEFINE c == (b + 1) + 1
    <3> HIDE DEF c, N, K
    <3>1. N * K < c * K /\ c \in Nat /\ N \in Nat
      BY <2>2, <2>3, <1>2 DEF c
    <3>2. N < c
      BY <3>1, <1>1, Multiples
    <3>3. QED
      BY <3>2 DEF c
  <2>5. QED
    BY <2>4, <1>2
<1> HIDE DEF K, L, N, o, P, n
<1>6. /\ rest \in Seq(Byte) /\ Len(rest) = L - o
      /\ \A i \in 1..(L - o) : rest[i] = d[o + i]
  <2>1. L <= Len(d)
    BY <1>1 DEF L
  <2>2. QED
    BY <2>1, <1>1, <1>2, <1>3, SliceFacts
<1> HIDE DEF rest
<1>7. strlen(rest) = L - o
  <2>1. ASSUME NEW i \in 1..Len(rest) PROVE rest[i] # 0
    <3>1. o + i \in 1..L /\ i \in 1..(L - o)
      BY <1>1, <1>2, <1>3, <1>6
    <3>2. QED
      BY <3>1, <1>6 DEF L
  <2>2. Len(rest) \in Nat
    BY <1>1, <1>2, <1>3, <1>6
  <2>3. QED
    BY <2>1, <2>2, <1>6, StrlenWhole
<1>8. PICK m \in Nat :
        /\ m <= strlen(rest) /\ m <= K
        /\ m = strlen(rest) \/ m = K
        /\ \A i \in 1..m : x[i] = rest[i]
        /\ \A i \in 1..K : i > m => x[i] = K - m
  BY <1>6, StringToHexFacts DEF K
<1>9. x \in Seq(Byte) /\ Len(x) = K
  BY <1>6, StringToHexFacts DEF K
<1>10. /\ y \in Seq(Byte) /\ Len(y) = K
       /\ \A i \in 1..K : y[i] = P[o + i]
  <2> DEFINE e == o + K
  <2>1. e \in Nat /\ o <= e /\ e <= Len(P) /\ e - o = K
    BY <1>1, <1>3, <1>4
  <2> HIDE DEF e
  <2>2. /\ Slice(P, o, e) \in Seq(Byte) /\ Len(Slice(P, o, e)) = e - o
        /\ \A i \in 1..(e - o) : Slice(P, o, e)[i] = P[o + i]
    BY <2>1, <1>3, <1>4, SliceFacts
  <2>3. QED
    BY <2>1, <2>2 DEF e
<1> HIDE DEF x, y
<1>11. ASSUME NEW i \in 1..K PROVE x[i] = y[i]
  <2>1. CASE i <= m
    <3>1. i \in 1..m /\ i \in 1..(L - o) /\ o + i \in 1..L
      BY <2>1, <1>1, <1>2, <1>3, <1>7, <1>8
    <3>2. x[i] = d[o + i] /\ P[o + i] = d[o + i]
      BY <3>1, <1>4, <1>6, <1>8
    <3>3. QED
      BY <3>2, <1>10
  <2>2. CASE i > m
    <3>1. m = L - o /\ L - o < K
      BY <2>2, <1>1, <1>2, <1>3, <1>7, <1>8
    <3>2. x[i] = n
      BY <3>1, <2>2, <1>5, <1>8
    <3>3. o + i \in (L + 1)..Len(P)
      BY <3>1, <2>2, <1>1, <1>2, <1>3, <1>4
    <3>4. QED
      BY <3>2, <3>3, <1>4, <1>10
  <2>3. QED
    BY <2>1, <2>2, <1>1, <1>8
<1>12. x = y
  BY <1>9, <1>10, <1>11, SeqEqual
<1>13. QED
  BY <1>3, <1>12 DEF x, y, rest, P, o, L, K

\* A key of one block is taken as it is.
LEMMA HexKey ==
  ASSUME NEW k \in Keys, Len(k) = KEYCODELENGTH
  PROVE  StringToHex(k) = k
<1> DEFINE x == StringToHex(k)
<1>1. k \in Seq(Byte) /\ \A i \in 1..Len(k) : k[i] # 0
  <2>1. k \in Seq(Byte \ {0})
    BY CipherAssumption
  <2>2. \A i \in 1..Len(k) : k[i] \in Byte \ {0}
    BY <2>1, ElementOfSeq
  <2>3. k \in Seq(Byte)
    BY <2>1, <2>2, SeqDef, LenProperties
  <2>4. QED
    BY <2>2, <2>3
<1>2. strlen(k) = KEYCODELENGTH /\ KEYCODELENGTH \in Nat
  BY <1>1, LenProperties, StrlenWhole
<1>3. x \in Seq(Byte) /\ Len(x) = KEYCODELENGTH
  BY <1>1, StringToHexFacts
<1>4. PICK m \in Nat :
        m = KEYCODELENGTH /\ \A i \in 1..m : x[i] = k[i]
  BY <1>1, <1>2, StringToHexFacts
<1> HIDE DEF x
<1>5. \A i \in 1..Len(x) : x[i] = k[i]
  BY <1>3, <1>4
<1>6. x = k
  BY <1>1, <1>3, <1>5, SeqEqual
<1>7. QED
  BY <1>6 DEF x

\* Ending a byte string with a NUL behind its first L bytes.
LEMMA CutString ==
  ASSUME NEW s \in Seq(Byte), NEW L \in Nat, L < Len(s),
         \A i \in 1..L : s[i] # 0, NEW j, j = L + 1
  PROVE  CString([s EXCEPT ![j] = 0]) = Slice(s, 0, L)
<1> DEFINE n == Len(s)
           t == [s EXCEPT ![j] = 0]
<1>1. n \in Nat /\ s \in [1..n -> Byte] /\ j \in 1..n
  BY LenProperties, ElementOfSeq
<1> HIDE DEF n
<1>2. t \in [1..n -> Byte] /\ t[j] = 0 /\ \A i \in 1..n : i # j => t[i] = s[i]
  BY <1>1 DEF Byte
<1> HIDE DEF t
<1>3. t \in Seq(Byte) /\ Len(t) = n
  BY <1>1, <1>2, SeqDef
<1>4. strlen(t) = L
  <2>1. L \in 0..Len(t) /\ Len(t) \in Nat
    BY <1>1, <1>3 DEF n
  <2>2. ASSUME NEW i \in 1..L PROVE t[i] # 0
    <3>1. i \in 1..n /\ i # j
      BY <1>1
    <3>2. QED
      BY <3>1, <1>2
  <2>3. t[L + 1] = 0
    BY <1>2
  <2>4. QED
    BY <2>1, <2>2, <2>3, StrlenIs
<1>5. CString(t) = Slice(t, 0, L)
  BY <1>4 DEF CString, Slice
<1> DEFINE x == Slice(t, 0, L)
           y == Slice(s, 0, L)
<1>6. x \in Seq(Byte) /\ Len(x) = L /\ \A i \in 1..L : x[i] = t[i]
  <2>1. L <= Len(t)
    BY <1>1, <1>3 DEF n
  <2>2. QED
    BY <2>1, <1>3, FrontFacts
<1>7. y \in Seq(Byte) /\ Len(y) = L /\ \A i \in 1..L : y[i] = s[i]
  <2>1. L <= Len(s)
    BY <1>1 DEF n
  <2>2. QED
    BY <2>1, FrontFacts
<1> HIDE DEF x, y
<1>8. ASSUME NEW i \in 1..L PROVE x[i] = y[i]
  <2>1. i \in 1..n /\ i # j
    BY <1>1
  <2>2. QED
    BY <2>1, <1>2, <1>6, <1>7
<1>9. x = y
  BY <1>6, <1>7, <1>8, SeqEqual
<1>10. QED
  BY <1>5, <1>9 DEF x, y, t

\* Bytes are numbers.
LEMMA ByteIsInt == \A b \in Byte : b \in Int
BY DEF Byte

\* What AES_ECBDecrypt returns for the bytes dst.
Answer(dst) ==
  LET s == CString(dst)
  IN  IF s # <<>> /\ \A i \in 1..Len(s) : s[i] \in Printable THEN s ELSE <<>>

\* The padding of a printable text is taken off again, whatever the byte in
\* front of the array is.
LEMMA ClearPadded ==
  ASSUME NEW d \in Seq(Byte), \A i \in 1..Len(d) : d[i] \in Printable,
         NEW dst \in ClearPadding(Padded(d, KEYCODELENGTH))
  PROVE  Answer(dst) = d
<1> DEFINE K == KEYCODELENGTH
           L == Len(d)
           P == Padded(d, K)
           m == K - (L % K)
           n == Len(P)
           cut(i) == [P EXCEPT ![n - i + 1] = 0]
           ends == {i \in 2..K : i < n => P[n - i] # P[n]}
           first == {e \in ends : \A f \in ends : e <= f}
<1>1. L \in Nat /\ K \in 2..255 /\ K \in 1..255 /\ K \in Nat \ {0}
  BY LenProperties, CipherAssumption
<1>2. /\ m \in 1..K /\ P \in Seq(Byte) /\ n = L + m /\ n = Blocks(L, K) * K
      /\ \A i \in 1..L : P[i] = d[i]
      /\ \A i \in (L + 1)..n : P[i] = m
      /\ Slice(P, 0, L) = d
  BY <1>1, PaddedFacts
<1>3. n \in Nat /\ n >= 2
  <2>1. Blocks(L, K) \in Nat \ {0}
    BY <1>1, BlocksFacts
  <2>2. K <= Blocks(L, K) * K
    BY <2>1, <1>1
  <2>3. QED
    BY <2>2, <1>1, <1>2
<1>4. ClearPadding(P) =
        IF P[n] # P[n - 1]
          THEN {IF P[n] < K THEN cut(1) ELSE P}
          ELSE {cut(i) : i \in first} \cup {P : i \in {e \in first : e = n}}
                                      \cup (IF ends = {} THEN {P} ELSE {})
  BY DEF ClearPadding
<1>5. dst \in ClearPadding(P)
  OBVIOUS
<1> HIDE DEF K, L, P, m, n
<1>6. \A i \in 1..L : d[i] \in Printable /\ d[i] \in Int /\ d[i] > K /\ d[i] # 0
  <2> SUFFICES ASSUME NEW i \in 1..L
               PROVE  d[i] \in Printable /\ d[i] \in Int /\ d[i] > K /\ d[i] # 0
    OBVIOUS
  <2>1. d[i] \in Printable
    BY DEF L
  <2>2. d[i] \in Byte /\ d[i] > K
    BY <2>1, CipherAssumption DEF K
  <2>3. d[i] \in Int
    BY <2>2, ByteIsInt
  <2>4. QED
    BY <2>1, <2>2, <2>3, <1>1
<1>7. P[n] = m
  BY <1>1, <1>2, <1>3
<1>8. ASSUME NEW j, j = L + 1 PROVE Answer([P EXCEPT ![j] = 0]) = d
  <2>1. \A i \in 1..L : P[i] # 0
    BY <1>2, <1>6
  <2>2. L < Len(P)
    BY <1>1, <1>2 DEF n
  <2>3. CString([P EXCEPT ![j] = 0]) = d
    BY <2>1, <2>2, <1>1, <1>2, <1>8, CutString
  <2>4. \A i \in 1..Len(d) : d[i] \in Printable
    OBVIOUS
  <2>5. QED
    BY <2>3, <2>4 DEF Answer
<1>9. CASE m = 1
  <2>1. n - 1 = L /\ L \in 1..L
    BY <1>1, <1>2, <1>3, <1>9
  <2>2. P[n - 1] # P[n] /\ P[n] < K
    <3>1. P[n - 1] = d[L] /\ P[n] = 1
      BY <2>1, <1>2, <1>7, <1>9
    <3>2. d[L] \in Int /\ d[L] > K
      BY <2>1, <1>6
    <3>3. QED
      BY <3>1, <3>2, <1>1
  <2>3. dst = cut(1)
    BY <2>2, <1>4, <1>5
  <2>4. n - 1 + 1 = L + 1
    BY <2>1, <1>3
  <2>5. QED
    BY <2>3, <2>4, <1>8
<1>10. CASE m # 1
  <2>1. m \in 2..K /\ n - 1 \in (L + 1)..n
    BY <1>1, <1>2, <1>10
  <2>2. P[n] = P[n - 1]
    BY <2>1, <1>2, <1>7
  <2>3. m \in ends
    <3>1. ASSUME m < n PROVE P[n - m] # m
      <4>1. n - m = L /\ L \in 1..L
        BY <3>1, <1>1, <1>2
      <4>2. QED
        BY <4>1, <1>1, <1>2, <1>6
    <3>2. QED
      BY <3>1, <2>1, <1>7
  <2>4. ASSUME NEW i \in ends PROVE m <= i
    <3>1. SUFFICES ASSUME i < m PROVE FALSE
      BY <2>1, <1>1
    <3>2. i \in 2..K /\ i < n /\ n - i \in (L + 1)..n
      BY <3>1, <1>1, <1>2
    <3>3. P[n - i] = m
      BY <3>2, <1>2
    <3>4. QED
      BY <3>2, <3>3, <1>7
  <2>5. ends \subseteq 2..K
    OBVIOUS
  <2> HIDE DEF ends
  <2>6. first = {m}
    <3>1. m \in first
      BY <2>3, <2>4
    <3>2. ASSUME NEW e \in first PROVE e = m
      <4>1. e \in Int /\ m \in Int /\ e <= m /\ m <= e
        BY <2>1, <2>3, <2>4, <2>5, <1>1
      <4>2. QED
        BY <4>1
    <3>3. QED
      BY <3>1, <3>2
  <2> HIDE DEF first
  <2>7. dst = cut(m) \/ (dst = P /\ m = n)
    <3>1. dst \in {cut(i) : i \in first} \cup {P : i \in {e \in first : e = n}}
      BY <2>2, <2>3, <1>4, <1>5
    <3>2. QED
      BY <3>1, <2>6
  <2>8. CASE dst = cut(m)
    <3>1. n - m + 1 = L + 1
      BY <1>1, <1>2
    <3>2. QED
      BY <3>1, <2>8, <1>8
  <2>9. CASE dst = P /\ m = n
    <3>1. L = 0
      BY <2>9, <1>1, <1>2
    <3>2. d = <<>>
      BY <3>1, EmptySeq DEF L
    <3>3. \A i \in 1..n : P[i] = m
      BY <3>1, <1>2
    <3>4. strlen(P) = n
      <4>1. \A i \in 1..Len(P) : P[i] # 0
        BY <3>3, <1>2 DEF n
      <4>2. QED
        BY <4>1, <1>3, StrlenWhole DEF n
    <3>5. CString(P) = P
      <4>1. CString(P) = Slice(P, 0, Len(P))
        BY <3>4 DEF CString, Slice, n
      <4>2. QED
        BY <4>1, <1>2, SliceAll
    <3>6. 1 \in 1..n /\ P[1] = m /\ m \notin Printable
      <4>1. 1 \in 1..n
        BY <1>3
      <4>2. m \notin Printable
        BY <1>1, <1>2, CipherAssumption DEF K
      <4>3. QED
        BY <4>1, <4>2, <3>3
    <3>7. Answer(P) = <<>>
      BY <3>5, <3>6 DEF Answer, n
    <3>8. QED
      BY <3>2, <3>7, <2>9
  <2>10. QED
    BY <2>7, <2>8, <2>9
<1>11. QED
  BY <1>9, <1>10

\* Whatever bytes come out of the decryption, a byte string is returned.
LEMMA AnswerType ==
  ASSUME NEW c \in Seq(Byte), NEW dst \in ClearPadding(c)
  PROVE  Answer(dst) \in Seq(Byte)
<1>1. dst \in Seq(Byte)
  <2>1. \A j : [c EXCEPT ![j] = 0] \in Seq(Byte)
    <3> SUFFICES ASSUME NEW j PROVE [c EXCEPT ![j] = 0] \in Seq(Byte)
      OBVIOUS
    <3> DEFINE t == [c EXCEPT ![j] = 0]
               n == Len(c)
    <3>0. 0 \in Byte
      BY DEF Byte
    <3>1. n \in Nat /\ c \in [1..n -> Byte]
      BY LenProperties
    <3> HIDE DEF n
    <3>2. t \in [1..n -> Byte]
      BY <3>0, <3>1
    <3> HIDE DEF t
    <3>3. t \in Seq(Byte)
      BY <3>1, <3>2, SeqDef
    <3>4. QED
      BY <3>3 DEF t
  <2>2. dst = c \/ \E j : dst = [c EXCEPT ![j] = 0]
    BY DEF ClearPadding
  <2>3. QED
    BY <2>1, <2>2
<1>2. Len(dst) \in Nat /\ strlen(dst) \in 0..Len(dst)
  BY <1>1, LenProperties, StrlenExists
<1>3. CString(dst) = Slice(dst, 0, strlen(dst))
  BY DEF CString, Slice
<1>4. CString(dst) \in Seq(Byte)
  <2> DEFINE n == strlen(dst)
  <2>1. n \in Nat /\ n <= Len(dst)
    BY <1>2
  <2> HIDE DEF n
  <2>2. Slice(dst, 0, n) \in Seq(Byte)
    BY <2>1, <1>1, FrontFacts
  <2>3. QED
    BY <2>2, <1>3 DEF n
<1>5. QED
  BY <1>4, EmptySeq DEF Answer

\* The blocks that the two ciphers write.
CipherBlock == [schedule : Seq(Byte), plain : Seq(Byte)]

BlockSize(a) == IF a = "DES" THEN DesBlock ELSE KEYCODELENGTH

\* The block that encryption writes for the part of the text at block b.
BlockOf(a, d, k, b) ==
  IF a = "DES"
    THEN Crypt(DesSchedule(k), Slice(Padded(d, DesBlock), b * DesBlock, (b + 1) * DesBlock))
    ELSE Crypt(StringToHex(k), StringToHex(Slice(d, b * KEYCODELENGTH, Len(d))))

\* The cipher text is that of the text from its beginning.
Encrypts(a, d, k, t) ==
  /\ t \in Seq(CipherBlock)
  /\ \A b \in Nat : b < Len(t) => t[b + 1] = BlockOf(a, d, k, b)

\* Texts and keys are sequences of bytes.
LEMMA TextsAndKeys ==
  /\ \A d \in Texts \cup {<<>>} : d \in Seq(Byte)
  /\ \A k \in Keys \cup {<<>>} : k \in Seq(Byte)
  /\ \A k \in Keys : Len(k) >= DesBlock
  /\ KEYCODELENGTH \in 2..255 /\ KEYCODELENGTH \in 1..255 /\ KEYCODELENGTH \in Nat \ {0}
  /\ DesBlock \in 1..255 /\ DesBlock \in Nat \ {0}
<1>1. <<>> \in Seq(Byte)
  BY EmptySeq
<1>2. ASSUME NEW k \in Keys PROVE k \in Seq(Byte)
  <2>1. k \in Seq(Byte \ {0})
    BY CipherAssumption
  <2>2. \A i \in 1..Len(k) : k[i] \in Byte
    BY <2>1, ElementOfSeq
  <2>3. QED
    BY <2>1, <2>2, SeqDef, LenProperties
<1>3. \A d \in Texts \cup {<<>>} : d \in Seq(Byte)
  BY <1>1, CipherAssumption
<1>4. \A k \in Keys \cup {<<>>} : k \in Seq(Byte)
  BY <1>1, <1>2
<1>5. /\ KEYCODELENGTH \in 2..255 /\ DesBlock \in 1..255
      /\ \A k \in Keys : Len(k) >= DesBlock
  BY CipherAssumption
<1>6. QED
  BY <1>3, <1>4, <1>5

\* A block of the padded text, and what it adds to the blocks before it.
LEMMA PaddedBlock ==
  ASSUME NEW d \in Seq(Byte), NEW B \in 1..255, NEW b \in Nat, b < Blocks(Len(d), B)
  PROVE  /\ Slice(Padded(d, B), b * B, (b + 1) * B) \in Seq(Byte)
         /\ Slice(Padded(d, B), 0, b * B) \o Slice(Padded(d, B), b * B, (b + 1) * B)
              = Slice(Padded(d, B), 0, (b + 1) * B)
<1> DEFINE P == Padded(d, B)
           N == Blocks(Len(d), B)
           o == b * B
           e == (b + 1) * B
<1>1. Len(d) \in Nat /\ B \in Nat \ {0}
  BY LenProperties
<1>2. N \in Nat \ {0}
  BY <1>1, BlocksFacts
<1>3. P \in Seq(Byte) /\ Len(P) = N * B
  BY PaddedFacts
<1>4. b < N
  OBVIOUS
<1> HIDE DEF N, P
<1>5. o \in Nat /\ e \in Nat /\ e = o + B /\ e <= N * B
  BY <1>1, <1>2, <1>4, Multiples
<1> HIDE DEF o, e
<1>6. o <= e /\ e <= Len(P)
  BY <1>1, <1>3, <1>5
<1>7. Slice(P, o, e) \in Seq(Byte)
  BY <1>3, <1>5, <1>6, SliceFacts
<1>8. Slice(P, 0, o) \o Slice(P, o, e) = Slice(P, 0, e)
  BY <1>3, <1>5, <1>6, SliceJoin
<1>9. QED
  BY <1>7, <1>8 DEF P, o, e

\* Its length.
LEMMA PaddedBlockLen ==
  ASSUME NEW d \in Seq(Byte), NEW B \in 1..255, NEW b \in Nat, b < Blocks(Len(d), B)
  PROVE  Len(Slice(Padded(d, B), b * B, (b + 1) * B)) = B
<1> DEFINE P == Padded(d, B)
           N == Blocks(Len(d), B)
           o == b * B
           e == (b + 1) * B
<1>1. Len(d) \in Nat /\ B \in Nat \ {0}
  BY LenProperties
<1>2. N \in Nat \ {0}
  BY <1>1, BlocksFacts
<1>3. P \in Seq(Byte) /\ Len(P) = N * B
  BY PaddedFacts
<1>4. b < N
  OBVIOUS
<1> HIDE DEF N, P
<1>5. o \in Nat /\ e \in Nat /\ e = o + B /\ e <= N * B
  BY <1>1, <1>2, <1>4, Multiples
<1> HIDE DEF o, e
<1>6. o <= e /\ e <= Len(P)
  BY <1>1, <1>3, <1>5
<1>7. Len(Slice(P, o, e)) = e - o
  BY <1>3, <1>5, <1>6, SliceFacts
<1>8. e - o = B
  BY <1>1, <1>5
<1>9. QED
  BY <1>7, <1>8 DEF P, o, e

\* The schedule of a key is a part of it.
LEMMA ScheduleType ==
  ASSUME NEW k \in Keys
  PROVE  DesSchedule(k) \in Seq(Byte)
<1>1. k \in Seq(Byte) /\ DesBlock <= Len(k) /\ DesBlock \in Nat /\ Len(k) \in Nat
  BY TextsAndKeys, LenProperties
<1>2. Slice(k, 0, DesBlock) \in Seq(Byte) /\ 0 + 1 = 1
  BY <1>1, FrontFacts
<1>3. DesSchedule(k) = Slice(k, 0, DesBlock)
  BY <1>2 DEF DesSchedule, Slice
<1>4. QED
  BY <1>2, <1>3

\* What encryption writes are blocks.
LEMMA BlockOfType ==
  ASSUME NEW a \in {"AES", "DES"}, NEW d \in Seq(Byte), NEW k \in Keys, NEW b \in Nat,
         b < Blocks(Len(d), BlockSize(a))
  PROVE  BlockOf(a, d, k, b) \in CipherBlock
<1>1. CASE a = "DES"
  <2>1. DesBlock \in 1..255 /\ b < Blocks(Len(d), DesBlock)
    BY <1>1, TextsAndKeys DEF BlockSize
  <2>2. Slice(Padded(d, DesBlock), b * DesBlock, (b + 1) * DesBlock) \in Seq(Byte)
    BY <2>1, PaddedBlock
  <2>3. DesSchedule(k) \in Seq(Byte)
    BY ScheduleType
  <2>4. QED
    BY <1>1, <2>2, <2>3 DEF BlockOf, Crypt, CipherBlock
<1>2. CASE a = "AES"
  <2> DEFINE o == b * KEYCODELENGTH
             L == Len(d)
  <2>1. KEYCODELENGTH \in Nat \ {0} /\ b < Blocks(L, KEYCODELENGTH) /\ L \in Nat
    BY <1>2, TextsAndKeys, LenProperties DEF BlockSize
  <2>2. o \in Nat /\ o <= L /\ L <= Len(d)
    BY <2>1, BlocksFacts
  <2> HIDE DEF o
  <2>3. Slice(d, o, L) \in Seq(Byte)
    BY <2>1, <2>2, SliceFacts
  <2>4. StringToHex(Slice(d, o, L)) \in Seq(Byte)
    BY <2>3, StringToHexFacts
  <2>5. StringToHex(k) \in Seq(Byte)
    BY TextsAndKeys, StringToHexFacts
  <2>6. BlockOf(a, d, k, b) = Crypt(StringToHex(k), StringToHex(Slice(d, o, L)))
    BY <1>2 DEF BlockOf, o
  <2>7. QED
    BY <2>4, <2>5, <2>6 DEF Crypt, CipherBlock
<1>3. QED
  BY <1>1, <1>2

\* One more block.
LEMMA EncryptsNext ==
  ASSUME NEW a, NEW d, NEW k, NEW t, Encrypts(a, d, k, t), NEW c \in CipherBlock,
         c = BlockOf(a, d, k, Len(t))
  PROVE  /\ Len(t) \in Nat
         /\ Encrypts(a, d, k, Append(t, c))
         /\ Len(Append(t, c)) = Len(t) + 1
<1> DEFINE u == Append(t, c)
           n == Len(t)
<1>1. t \in Seq(CipherBlock) /\ \A b \in Nat : b < n => t[b + 1] = BlockOf(a, d, k, b)
  BY DEF Encrypts
<1>2. n \in Nat
  BY <1>1, LenProperties
<1>3. /\ u \in Seq(CipherBlock) /\ Len(u) = n + 1
      /\ \A i \in 1..n : u[i] = t[i]
      /\ u[n + 1] = c
  BY <1>1, AppendProperties
<1>4. c = BlockOf(a, d, k, n)
  OBVIOUS
<1> HIDE DEF u, n
<1>5. ASSUME NEW b \in Nat, b < n + 1 PROVE u[b + 1] = BlockOf(a, d, k, b)
  <2>1. CASE b = n
    BY <2>1, <1>3, <1>4
  <2>2. CASE b # n
    <3>1. b < n /\ b + 1 \in 1..n
      BY <2>2, <1>2, <1>5
    <3>2. QED
      BY <3>1, <1>1, <1>3
  <2>3. QED
    BY <2>1, <2>2
<1>6. Encrypts(a, d, k, u)
  BY <1>3, <1>5 DEF Encrypts
<1>7. QED
  BY <1>2, <1>3, <1>6 DEF u, n

\* What the loops have reached while a text is encrypted and decrypted.
EncryptInv(a, d, t, p) ==
  /\ a = "DES" => p = Len(t) /\ p <= Blocks(Len(d), DesBlock)
  /\ a = "AES" => p = Len(t) * KEYCODELENGTH /\ (Len(t) # 0 => p < Len(d) + KEYCODELENGTH)

\* The case in which AES promises to give the text back.
AesSuits(d, k, o) ==
  /\ o = k /\ Len(k) = KEYCODELENGTH
  /\ \A i \in 1..Len(d) : d[i] \in Printable

DecryptInv(a, d, k, o, t, p, c) ==
  /\ p <= Len(t)
  /\ a = "DES" => /\ Len(c) = p * DesBlock
                  /\ DesSchedule(o) = DesSchedule(k) =>
                       c = Slice(Padded(d, DesBlock), 0, p * DesBlock)
  /\ a = "AES" => /\ Len(o) \in AesKeyLengths
                  /\ AesSuits(d, k, o) =>
                       c = Slice(Padded(d, KEYCODELENGTH), 0, p * KEYCODELENGTH)

\* The inductive invariant.
CipherInv ==
  /\ CipherTypeOK
  /\ phase # "idle" => key \in Keys /\ Encrypts(algo, data, key, text)
  /\ phase = "encrypt" => EncryptInv(algo, data, text, pos)
  /\ phase \in {"text", "decrypt", "done"} => Len(text) = Blocks(Len(data), BlockSize(algo))
  /\ phase = "decrypt" => DecryptInv(algo, data, key, other, text, pos, clear)
  /\ CipherRoundTrip

\* Before the first call.
LEMMA CipherStart == CipherInit => CipherInv
<1> SUFFICES ASSUME CipherInit PROVE CipherInv
  OBVIOUS
<1>1. CipherTypeOK
  <2>1. <<>> \in Seq(Byte) /\ <<>> \in Seq([schedule : Seq(Byte), plain : Seq(Byte)]) /\ Len(<<>>) = 0
    BY EmptySeq
  <2>2. 0 \in 0..(Len(<<>>) + KEYCODELENGTH)
    BY <2>1, TextsAndKeys
  <2>3. QED
    BY <2>1, <2>2 DEF CipherInit, CipherTypeOK
<1>2. phase = "idle" /\ CipherRoundTrip
  BY DEF CipherInit, CipherRoundTrip, In
<1>3. QED
  BY <1>1, <1>2 DEF CipherInv

\* The parts of the invariant in the state that a step leads to.
LEMMA CipherInvNext ==
  ASSUME CipherTypeOK',
         phase' # "idle" => key' \in Keys /\ Encrypts(algo', data', key', text'),
         phase' = "encrypt" => EncryptInv(algo', data', text', pos'),
         phase' \in {"text", "decrypt", "done"} =>
           Len(text') = Blocks(Len(data'), BlockSize(algo')),
         phase' = "decrypt" => DecryptInv(algo', data', key', other', text', pos', clear'),
         phase' \in {"done", "undefined"} => CipherRoundTrip'
  PROVE  CipherInv'
<1>1. CipherRoundTrip'
  <2>1. CASE phase' \in {"done", "undefined"}
    BY <2>1
  <2>2. CASE phase' \notin {"done", "undefined"}
    BY <2>2 DEF CipherRoundTrip, In
  <2>3. QED
    BY <2>1, <2>2
<1>2. QED
  BY <1>1 DEF CipherInv, Encrypts, BlockOf, Crypt, DesSchedule, StringToHex, Padding, strlen,
              Slice, Padded, Blocks, BlockSize, EncryptInv, DecryptInv, AesSuits, CipherBlock, Byte

\* The types in the state that a step leads to.
LEMMA CipherTypeNext ==
  ASSUME algo' \in {"AES", "DES"},
         phase' \in {"idle", "encrypt", "text", "decrypt", "done", "undefined"},
         data' \in Texts \cup {<<>>},
         key' \in Keys \cup {<<>>}, other' \in Keys \cup {<<>>},
         pos' \in 0..(Len(data') + KEYCODELENGTH),
         clear' \in Seq(Byte), ret' \in Seq(Byte), text' \in Seq(CipherBlock)
  PROVE  CipherTypeOK'
BY DEF CipherTypeOK, Byte, CipherBlock

\* What the type invariant says of the sequences.
LEMMA CipherTypes ==
  ASSUME CipherTypeOK
  PROVE  /\ data \in Seq(Byte) /\ Len(data) \in Nat /\ data \in Texts \cup {<<>>}
         /\ key \in Keys \cup {<<>>} /\ other \in Keys \cup {<<>>}
         /\ algo \in {"AES", "DES"}
         /\ text \in Seq(CipherBlock) /\ Len(text) \in Nat
         /\ clear \in Seq(Byte) /\ ret \in Seq(Byte)
         /\ pos \in Nat /\ pos \in 0..(Len(data) + KEYCODELENGTH)
<1>1. /\ data \in Texts \cup {<<>>} /\ key \in Keys \cup {<<>>} /\ other \in Keys \cup {<<>>}
      /\ text \in Seq(CipherBlock) /\ clear \in Seq(Byte) /\ ret \in Seq(Byte)
      /\ pos \in 0..(Len(data) + KEYCODELENGTH) /\ algo \in {"AES", "DES"}
  BY DEF CipherTypeOK, CipherBlock
<1>2. data \in Seq(Byte)
  BY <1>1, TextsAndKeys
<1>3. Len(data) \in Nat /\ Len(text) \in Nat
  BY <1>1, <1>2, LenProperties
<1>4. QED
  BY <1>1, <1>2, <1>3

\* ECBEncrypt is called: nothing is encrypted yet.
LEMMA BeginEncryptInv ==
  ASSUME CipherInv, NEW a \in {"AES", "DES"}, NEW d \in Texts, NEW k \in Keys,
         BeginEncrypt(a, d, k)
  PROVE  CipherInv'
<1>1. /\ phase' = "encrypt" /\ algo' = a /\ data' = d /\ key' = k /\ pos' = 0
      /\ text' = <<>> /\ other' = other /\ clear' = clear /\ ret' = ret
  BY DEF BeginEncrypt
<1>2. /\ other \in Keys \cup {<<>>} /\ clear \in Seq(Byte) /\ ret \in Seq(Byte)
  BY CipherTypes DEF CipherInv
<1>3. d \in Seq(Byte) /\ Len(d) \in Nat /\ KEYCODELENGTH \in Nat \ {0} /\ DesBlock \in Nat \ {0}
  BY TextsAndKeys, LenProperties
<1>4. <<>> \in Seq(CipherBlock) /\ Len(<<>>) = 0
  BY EmptySeq
<1>5. 0 \in 0..(Len(d) + KEYCODELENGTH)
  BY <1>3
<1>6. CipherTypeOK'
  BY <1>1, <1>2, <1>4, <1>5, CipherTypeNext
<1>7. Encrypts(a, d, k, <<>>)
  BY <1>4 DEF Encrypts
<1>8. EncryptInv(a, d, <<>>, 0)
  <2>1. Blocks(Len(d), DesBlock) \in Nat
    BY <1>3, BlocksFacts
  <2>2. 0 * KEYCODELENGTH = 0
    BY <1>3
  <2>3. QED
    BY <2>1, <2>2, <1>4 DEF EncryptInv
<1>9. QED
  BY <1>1, <1>6, <1>7, <1>8, CipherInvNext

\* AES appends the block that it takes from the C string.
LEMMA AesEncryptBlockInv ==
  ASSUME CipherInv, AesEncryptBlock
  PROVE  CipherInv'
<1> DEFINE K == KEYCODELENGTH
           L == Len(data)
           n == Len(text)
           N == Blocks(L, K)
           c == Crypt(StringToHex(key), StringToHex(Slice(data, pos, L)))
           t == Append(text, c)
<1>1. /\ algo = "AES" /\ phase = "encrypt" /\ pos < L
      /\ text' = t /\ pos' = pos + K
      /\ algo' = algo /\ phase' = phase /\ data' = data /\ key' = key /\ other' = other
      /\ clear' = clear /\ ret' = ret
  BY DEF AesEncryptBlock, In, Slice
<1>2. /\ data \in Seq(Byte) /\ L \in Nat /\ data \in Texts \cup {<<>>}
      /\ key \in Keys \cup {<<>>} /\ other \in Keys \cup {<<>>} /\ algo \in {"AES", "DES"}
      /\ text \in Seq(CipherBlock) /\ n \in Nat
      /\ clear \in Seq(Byte) /\ ret \in Seq(Byte)
  BY CipherTypes DEF CipherInv
<1>3. /\ key \in Keys /\ Encrypts(algo, data, key, text)
      /\ EncryptInv(algo, data, text, pos)
  BY <1>1 DEF CipherInv
<1>4. pos = n * K /\ K \in Nat \ {0}
  BY <1>1, <1>3, TextsAndKeys DEF EncryptInv
<1>5. n < N
  <2>1. n * K <= L
    BY <1>1, <1>2, <1>4
  <2>2. QED
    BY <2>1, <1>2, <1>4, BlocksFacts
<1>6. c = BlockOf(algo, data, key, n)
  BY <1>1, <1>4 DEF BlockOf
<1>7. c \in CipherBlock
  <2>1. BlockSize(algo) = K
    BY <1>1 DEF BlockSize
  <2>2. BlockOf(algo, data, key, n) \in CipherBlock
    BY <2>1, <1>2, <1>3, <1>5, BlockOfType
  <2>3. QED
    BY <2>2, <1>6
<1> HIDE DEF c
<1>8. Encrypts(algo, data, key, t) /\ Len(t) = n + 1
  BY <1>3, <1>6, <1>7, EncryptsNext
<1>9. EncryptInv(algo, data, t, pos + K)
  <2>1. (n + 1) * K = pos + K /\ pos + K < L + K
    BY <1>1, <1>2, <1>4
  <2>2. algo # "DES"
    BY <1>1
  <2>3. QED
    BY <2>1, <2>2, <1>8 DEF EncryptInv
<1>10. pos + K \in 0..(L + K)
  BY <1>1, <1>2, <1>4
<1> HIDE DEF t
<1>11. CipherTypeOK'
  <2>1. t \in Seq(CipherBlock)
    BY <1>8 DEF Encrypts
  <2>2. QED
    BY <2>1, <1>1, <1>2, <1>10, CipherTypeNext
<1>12. QED
  BY <1>1, <1>3, <1>8, <1>9, <1>11, CipherInvNext

\* AES stops behind the padding block.
LEMMA AesEncryptEndInv ==
  ASSUME CipherInv, AesEncryptEnd
  PROVE  CipherInv'
<1> DEFINE K == KEYCODELENGTH
           L == Len(data)
           n == Len(text)
           N == Blocks(L, K)
           c == Crypt(StringToHex(key), StringToHex(<<>>))
           t == Append(text, c)
<1>1. /\ algo = "AES" /\ phase = "encrypt" /\ pos >= L /\ phase' = "text"
      /\ text' = IF n * K < (L \div K) * K + K THEN t ELSE text
      /\ algo' = algo /\ data' = data /\ key' = key /\ other' = other /\ pos' = pos
      /\ clear' = clear /\ ret' = ret
  BY DEF AesEncryptEnd, In
<1>2. /\ data \in Seq(Byte) /\ L \in Nat /\ data \in Texts \cup {<<>>}
      /\ key \in Keys \cup {<<>>} /\ other \in Keys \cup {<<>>} /\ algo \in {"AES", "DES"}
      /\ text \in Seq(CipherBlock) /\ n \in Nat
      /\ clear \in Seq(Byte) /\ ret \in Seq(Byte) /\ pos \in 0..(L + K)
  BY CipherTypes DEF CipherInv
<1>3. /\ key \in Keys /\ Encrypts(algo, data, key, text)
      /\ EncryptInv(algo, data, text, pos)
  BY <1>1 DEF CipherInv
<1>4. pos = n * K /\ (n # 0 => pos < L + K) /\ K \in Nat \ {0}
  BY <1>1, <1>3, TextsAndKeys DEF EncryptInv
<1>5. N \in Nat \ {0} /\ N * K = (L \div K) * K + K
  <2>1. L \div K \in Nat /\ N = (L \div K) + 1
    BY <1>2, <1>4, DivMod DEF Blocks
  <2>2. QED
    BY <2>1, <1>4
<1>6. \A b \in Nat : b * K <= L <=> b < N
  BY <1>2, <1>4, BlocksFacts
<1>7. n <= N
  <2>1. CASE n = 0
    BY <2>1, <1>5
  <2>2. CASE n # 0
    <3>1. n - 1 \in Nat /\ (n - 1) * K = pos - K /\ pos - K <= L
      BY <2>2, <1>2, <1>4
    <3>2. n - 1 < N
      BY <3>1, <1>6
    <3>3. QED
      BY <3>2, <1>2, <1>5
  <2>3. QED
    BY <2>1, <2>2
<1>8. Encrypts(algo, data, key, text') /\ Len(text') = N
  <2>1. CASE n = N
    <3>1. text' = text
      BY <2>1, <1>1, <1>2, <1>4, <1>5
    <3>2. QED
      BY <3>1, <2>1, <1>3
  <2>2. CASE n < N
    <3>1. n * K = L
      <4>1. n * K <= L
        BY <2>2, <1>2, <1>6
      <4>2. QED
        BY <4>1, <1>1, <1>2, <1>4
    <3>2. n + 1 = N
      <4>1. (n + 1) * K = L + K
        <5>1. (n + 1) * K = n * K + K
          BY <1>2, <1>4, Multiples
        <5>2. QED
          BY <5>1, <3>1
      <4>2. ~((n + 1) * K <= L)
        BY <4>1, <1>2, <1>4
      <4>3. ~(n + 1 < N)
        BY <4>2, <1>2, <1>6
      <4>4. QED
        BY <4>3, <2>2, <1>2, <1>5
    <3>3. text' = t
      <4>1. n * K < N * K
        BY <3>1, <3>2, <1>2, <1>4
      <4>2. QED
        BY <4>1, <1>1, <1>5
    <3>4. Slice(data, L, L) = <<>>
      <4>1. Slice(data, L, L) \in Seq(Byte) /\ Len(Slice(data, L, L)) = L - L
        <5>1. L <= L /\ L <= Len(data)
          BY <1>2
        <5>2. QED
          BY <5>1, <1>2, SliceFacts
      <4>2. L - L = 0
        BY <1>2
      <4>3. QED
        BY <4>1, <4>2, EmptySeq
    <3>5. c = BlockOf(algo, data, key, n)
      BY <3>1, <3>4, <1>1 DEF BlockOf
    <3>6. c \in CipherBlock
      <4>1. BlockSize(algo) = K
        BY <1>1 DEF BlockSize
      <4>2. BlockOf(algo, data, key, n) \in CipherBlock
        BY <4>1, <2>2, <1>2, <1>3, BlockOfType
      <4>3. QED
        BY <4>2, <3>5
    <3> HIDE DEF c
    <3>7. Encrypts(algo, data, key, t) /\ Len(t) = n + 1
      BY <1>3, <3>5, <3>6, EncryptsNext
    <3>8. QED
      BY <3>2, <3>3, <3>7
  <2>3. QED
    BY <2>1, <2>2, <1>2, <1>5, <1>7
<1> HIDE DEF c, t
<1>9. CipherTypeOK'
  <2>1. text' \in Seq(CipherBlock)
    BY <1>8 DEF Encrypts
  <2>2. QED
    BY <2>1, <1>1, <1>2, CipherTypeNext
<1>10. BlockSize(algo) = K
  BY <1>1 DEF BlockSize
<1>11. QED
  BY <1>1, <1>3, <1>8, <1>9, <1>10, CipherInvNext

\* DES appends a block of the padded text.
LEMMA DesEncryptBlockInv ==
  ASSUME CipherInv, DesEncryptBlock
  PROVE  CipherInv'
<1> DEFINE B == DesBlock
           L == Len(data)
           n == Len(text)
           N == Blocks(L, B)
           c == Crypt(DesSchedule(key), Slice(Padded(data, B), n * B, (n + 1) * B))
           t == Append(text, c)
<1>1. /\ algo = "DES" /\ phase = "encrypt" /\ pos < N
      /\ text' = Append(text, Crypt(DesSchedule(key),
                   Slice(Padded(data, B), pos * B, (pos + 1) * B)))
      /\ pos' = pos + 1
      /\ algo' = algo /\ phase' = phase /\ data' = data /\ key' = key /\ other' = other
      /\ clear' = clear /\ ret' = ret
  BY DEF DesEncryptBlock, DesLoop, In, Slice, Blocks, Padded, PKCS5Padding
<1>2. /\ data \in Seq(Byte) /\ L \in Nat /\ data \in Texts \cup {<<>>}
      /\ key \in Keys \cup {<<>>} /\ other \in Keys \cup {<<>>} /\ algo \in {"AES", "DES"}
      /\ text \in Seq(CipherBlock) /\ n \in Nat
      /\ clear \in Seq(Byte) /\ ret \in Seq(Byte)
  BY CipherTypes DEF CipherInv
<1>3. /\ key \in Keys /\ Encrypts(algo, data, key, text)
      /\ EncryptInv(algo, data, text, pos)
  BY <1>1 DEF CipherInv
<1>4. pos = n /\ B \in Nat \ {0} /\ KEYCODELENGTH \in Nat \ {0}
  BY <1>1, <1>3, TextsAndKeys DEF EncryptInv
<1>5. n < N /\ text' = t
  BY <1>1, <1>4
<1>6. c = BlockOf(algo, data, key, n)
  BY <1>1 DEF BlockOf
<1>7. c \in CipherBlock
  <2>1. BlockSize(algo) = B
    BY <1>1 DEF BlockSize
  <2>2. BlockOf(algo, data, key, n) \in CipherBlock
    BY <2>1, <1>2, <1>3, <1>5, BlockOfType
  <2>3. QED
    BY <2>2, <1>6
<1> HIDE DEF c
<1>8. Encrypts(algo, data, key, t) /\ Len(t) = n + 1
  BY <1>3, <1>6, <1>7, EncryptsNext
<1>9. N \in Nat /\ N <= L + 1
  BY <1>2, <1>4, BlocksFacts
<1> HIDE DEF N
<1>10. n + 1 <= N /\ n + 1 \in 0..(L + KEYCODELENGTH)
  BY <1>2, <1>4, <1>5, <1>9
<1>11. EncryptInv(algo, data, t, n + 1)
  <2>1. algo # "AES"
    BY <1>1
  <2>2. QED
    BY <2>1, <1>8, <1>10 DEF EncryptInv, N
<1> HIDE DEF t
<1>12. CipherTypeOK'
  <2>1. t \in Seq(CipherBlock)
    BY <1>8 DEF Encrypts
  <2>2. pos' \in 0..(Len(data') + KEYCODELENGTH)
    BY <1>1, <1>4, <1>10
  <2>3. QED
    BY <2>1, <2>2, <1>1, <1>2, <1>5, CipherTypeNext
<1>13. QED
  BY <1>1, <1>3, <1>4, <1>5, <1>8, <1>11, <1>12, CipherInvNext

\* A call that leaves its arrays changes nothing else.
LEMMA UndefinedInv ==
  ASSUME CipherInv, phase # "idle", phase' = "undefined",
         UNCHANGED <<algo, data, key, other, pos, text, clear, ret>>,
         algo = "DES", Len(PKCS5Padding(data)) > CommandSize \/ WrongKey
  PROVE  CipherInv'
<1>1. /\ algo' = algo /\ data' = data /\ key' = key /\ other' = other
      /\ pos' = pos /\ text' = text /\ clear' = clear /\ ret' = ret
  OBVIOUS
<1>2. key \in Keys /\ Encrypts(algo, data, key, text)
  BY DEF CipherInv
<1>3. CipherTypeOK'
  BY <1>1, CipherTypes, CipherTypeNext DEF CipherInv
<1>4. CipherRoundTrip'
  BY <1>1 DEF CipherRoundTrip, In, WrongKey, PKCS5Padding, DesSchedule
<1>5. QED
  BY <1>1, <1>2, <1>3, <1>4, CipherInvNext

\* DES leaves szCommand only with a text that does not fit it.
LEMMA DesOverrunInv ==
  ASSUME CipherInv, DesOverrun
  PROVE  CipherInv'
<1> DEFINE B == DesBlock
           L == Len(data)
           N == Blocks(L, B)
           P == Padded(data, B)
<1>1. /\ algo = "DES" /\ phase = "encrypt" /\ pos < N /\ (pos + 1) * B > CommandSize
      /\ phase' = "undefined"
      /\ UNCHANGED <<algo, data, key, other, pos, text, clear, ret>>
  BY DEF DesOverrun, DesLoop, In, Blocks
<1>2. data \in Seq(Byte) /\ L \in Nat /\ pos \in Nat /\ B \in 1..255 /\ B \in Nat \ {0}
  BY CipherTypes, TextsAndKeys DEF CipherInv
<1>3. N \in Nat \ {0}
  BY <1>2, BlocksFacts
<1>4. Len(P) = N * B
  BY <1>2, PaddedFacts
<1>5. PKCS5Padding(data) = P
  BY DEF Padded, PKCS5Padding
<1>6. CommandSize \in Nat
  BY CipherAssumption
<1> HIDE DEF N, P
<1>7. (pos + 1) * B \in Nat /\ (pos + 1) * B <= N * B
  BY <1>1, <1>2, <1>3, Multiples
<1>8. N * B \in Nat
  BY <1>2, <1>3
<1>9. Len(P) > CommandSize
  BY <1>1, <1>4, <1>6, <1>7, <1>8
<1>10. Len(PKCS5Padding(data)) > CommandSize
  BY <1>5, <1>9
<1>11. QED
  BY <1>1, <1>10, UndefinedInv

\* DES stops behind the last block.
LEMMA DesEncryptEndInv ==
  ASSUME CipherInv, DesEncryptEnd
  PROVE  CipherInv'
<1>1. /\ algo = "DES" /\ phase = "encrypt" /\ pos = Blocks(Len(data), DesBlock)
      /\ phase' = "text" /\ text' = text /\ pos' = pos
      /\ algo' = algo /\ data' = data /\ key' = key /\ other' = other
      /\ clear' = clear /\ ret' = ret
  BY DEF DesEncryptEnd, In, Blocks
<1>2. /\ key \in Keys /\ Encrypts(algo, data, key, text)
      /\ EncryptInv(algo, data, text, pos)
  BY <1>1 DEF CipherInv
<1>3. Len(text) = Blocks(Len(data), BlockSize(algo))
  BY <1>1, <1>2 DEF EncryptInv, BlockSize
<1>4. CipherTypeOK'
  BY <1>1, CipherTypes, CipherTypeNext DEF CipherInv
<1>5. QED
  BY <1>1, <1>2, <1>3, <1>4, CipherInvNext

\* DES begins to decrypt, with whatever key.
LEMMA DesBeginDecryptInv ==
  ASSUME CipherInv, NEW k \in Keys, DesBeginDecrypt(k)
  PROVE  CipherInv'
<1>1. /\ algo = "DES" /\ phase = "text"
      /\ other' = k /\ pos' = 0 /\ clear' = <<>> /\ phase' = "decrypt"
      /\ algo' = algo /\ data' = data /\ key' = key /\ text' = text /\ ret' = ret
  BY DEF DesBeginDecrypt, In
<1>2. /\ key \in Keys /\ Encrypts(algo, data, key, text)
      /\ Len(text) = Blocks(Len(data), BlockSize(algo))
  BY <1>1 DEF CipherInv
<1>3. /\ data \in Seq(Byte) /\ Len(data) \in Nat /\ Len(text) \in Nat
  BY CipherTypes DEF CipherInv
<1>4. /\ <<>> \in Seq(Byte) /\ 0 \in 0..(Len(data) + KEYCODELENGTH)
      /\ DesBlock \in Nat /\ 0 * DesBlock = 0 /\ DesBlock \in 1..255 /\ Len(<<>>) = 0
  BY <1>3, EmptySeq, TextsAndKeys
<1>5. CipherTypeOK'
  BY <1>1, <1>4, CipherTypes, CipherTypeNext DEF CipherInv
<1>6. Slice(Padded(data, DesBlock), 0, 0) = <<>>
  <2> DEFINE P == Padded(data, DesBlock)
             z == Slice(P, 0, 0)
  <2>1. P \in Seq(Byte) /\ Len(P) \in Nat
    BY <1>3, <1>4, PaddedFacts, LenProperties
  <2> HIDE DEF P
  <2>2. z \in Seq(Byte) /\ Len(z) = 0
    BY <2>1, FrontFacts
  <2> HIDE DEF z
  <2>3. z = <<>>
    BY <2>2, EmptySeq
  <2>4. QED
    BY <2>3 DEF z, P
<1>7. DecryptInv(algo, data, key, k, text, 0, <<>>)
  <2>1. 0 <= Len(text) /\ algo # "AES"
    BY <1>1, <1>3
  <2>2. QED
    BY <2>1, <1>1, <1>4, <1>6 DEF DecryptInv
<1>8. QED
  BY <1>1, <1>2, <1>5, <1>7, CipherInvNext

\* AES decrypts what is in front of the first NUL.
LEMMA AesBeginDecryptInv ==
  ASSUME CipherInv, NEW k \in Keys, AesBeginDecrypt(k)
  PROVE  CipherInv'
<1>1. /\ algo = "AES" /\ phase = "text"
      /\ other' = k /\ pos' = 0 /\ clear' = <<>>
      /\ IF text # <<>> /\ Len(k) \in AesKeyLengths
           THEN phase' = "decrypt" /\ ret' = ret
           ELSE phase' = "done" /\ ret' = <<>>
      /\ algo' = algo /\ data' = data /\ key' = key /\ text' = text
  BY DEF AesBeginDecrypt, In
<1>2. /\ key \in Keys /\ Encrypts(algo, data, key, text)
      /\ Len(text) = Blocks(Len(data), BlockSize(algo))
  BY <1>1 DEF CipherInv
<1>3. /\ data \in Seq(Byte) /\ Len(data) \in Nat /\ Len(text) \in Nat
  BY CipherTypes DEF CipherInv
<1>4. /\ <<>> \in Seq(Byte) /\ 0 \in 0..(Len(data) + KEYCODELENGTH) /\ Len(<<>>) = 0
      /\ KEYCODELENGTH \in Nat \ {0} /\ 0 * KEYCODELENGTH = 0 /\ KEYCODELENGTH \in 1..255
  BY <1>3, EmptySeq, TextsAndKeys
<1>5. text # <<>>
  <2>1. Len(text) # 0
    BY <1>1, <1>2, <1>3, <1>4, BlocksFacts DEF BlockSize
  <2>2. QED
    BY <2>1, <1>4
<1>6. CipherTypeOK'
  <2>1. ret' \in Seq(Byte)
    BY <1>1, <1>4, CipherTypes DEF CipherInv
  <2>2. phase' \in {"decrypt", "done"}
    BY <1>1
  <2>3. QED
    BY <2>1, <2>2, <1>1, <1>4, CipherTypes, CipherTypeNext DEF CipherInv
<1>7. Slice(Padded(data, KEYCODELENGTH), 0, 0) = <<>>
  <2> DEFINE P == Padded(data, KEYCODELENGTH)
             z == Slice(P, 0, 0)
  <2>1. P \in Seq(Byte) /\ Len(P) \in Nat
    BY <1>3, <1>4, PaddedFacts, LenProperties
  <2> HIDE DEF P
  <2>2. z \in Seq(Byte) /\ Len(z) = 0
    BY <2>1, FrontFacts
  <2> HIDE DEF z
  <2>3. z = <<>>
    BY <2>2, EmptySeq
  <2>4. QED
    BY <2>3 DEF z, P
<1>8. CASE Len(k) \in AesKeyLengths
  <2>1. phase' = "decrypt"
    BY <1>1, <1>5, <1>8
  <2>2. DecryptInv(algo, data, key, k, text, 0, <<>>)
    <3>1. 0 <= Len(text) /\ algo # "DES"
      BY <1>1, <1>3
    <3>2. QED
      BY <3>1, <1>4, <1>7, <1>8 DEF DecryptInv
  <2>3. QED
    BY <2>1, <2>2, <1>1, <1>2, <1>6, CipherInvNext
<1>9. CASE Len(k) \notin AesKeyLengths
  <2>1. phase' = "done" /\ ret' = <<>>
    BY <1>1, <1>9
  <2>2. CipherRoundTrip'
    <3>1. KEYCODELENGTH \in AesKeyLengths
      BY CipherAssumption
    <3>2. other' = key' => Len(key') # KEYCODELENGTH
      BY <3>1, <1>1, <1>9
    <3>3. algo' # "DES"
      BY <1>1
    <3>4. QED
      BY <2>1, <3>2, <3>3 DEF CipherRoundTrip, In
  <2>3. QED
    BY <2>1, <2>2, <1>1, <1>2, <1>6, CipherInvNext
<1>10. QED
  BY <1>8, <1>9

\* What decryption gives for a block is a sequence of bytes of its length, and
\* the plain block if the schedule is the right one.
LEMMA DecryptFacts ==
  ASSUME NEW c \in CipherBlock, NEW s, NEW plain \in Decrypt(s, c)
  PROVE  /\ plain \in Seq(Byte) /\ Len(plain) = Len(c.plain)
         /\ c.schedule = s => plain = c.plain
<1>1. Garbage \subseteq Seq(Byte)
  BY GarbageAssumption
<1>2. c.plain \in Seq(Byte)
  BY DEF CipherBlock
<1>3. QED
  BY <1>1, <1>2 DEF Decrypt

\* DES appends a decrypted block.
LEMMA DesDecryptBlockInv ==
  ASSUME CipherInv, DesDecryptBlock
  PROVE  CipherInv'
<1> DEFINE B == DesBlock
           L == Len(data)
           n == Len(text)
           N == Blocks(L, B)
           P == Padded(data, B)
           next == Slice(P, pos * B, (pos + 1) * B)
<1>1. /\ algo = "DES" /\ phase = "decrypt" /\ pos < n /\ pos' = pos + 1
      /\ algo' = algo /\ phase' = phase /\ data' = data /\ key' = key /\ other' = other
      /\ text' = text /\ ret' = ret
  BY DEF DesDecryptBlock, In
<1>2. PICK plain \in Decrypt(DesSchedule(other), text[pos + 1]) : clear' = clear \o plain
  BY DEF DesDecryptBlock
<1>3. /\ data \in Seq(Byte) /\ L \in Nat /\ data \in Texts \cup {<<>>}
      /\ key \in Keys \cup {<<>>} /\ other \in Keys \cup {<<>>} /\ algo \in {"AES", "DES"}
      /\ text \in Seq(CipherBlock) /\ n \in Nat /\ pos \in Nat
      /\ clear \in Seq(Byte) /\ ret \in Seq(Byte)
  BY CipherTypes DEF CipherInv
<1>4. /\ key \in Keys /\ Encrypts(algo, data, key, text)
      /\ n = Blocks(L, BlockSize(algo))
      /\ DecryptInv(algo, data, key, other, text, pos, clear)
  BY <1>1 DEF CipherInv
<1>5. /\ n = N /\ Len(clear) = pos * B
      /\ DesSchedule(other) = DesSchedule(key) => clear = Slice(P, 0, pos * B)
      /\ B \in 1..255 /\ B \in Nat \ {0} /\ KEYCODELENGTH \in Nat \ {0}
  BY <1>1, <1>4, TextsAndKeys DEF BlockSize, DecryptInv
<1>6. text[pos + 1] = Crypt(DesSchedule(key), next)
  BY <1>1, <1>3, <1>4 DEF Encrypts, BlockOf
<1>7. text[pos + 1] \in CipherBlock
  BY <1>1, <1>3, ElementOfSeq
<1>8. /\ plain \in Seq(Byte) /\ Len(plain) = Len(next)
      /\ DesSchedule(other) = DesSchedule(key) => plain = next
  <2>1. /\ plain \in Seq(Byte) /\ Len(plain) = Len(text[pos + 1].plain)
        /\ text[pos + 1].schedule = DesSchedule(other) => plain = text[pos + 1].plain
    BY <1>7, DecryptFacts
  <2>2. text[pos + 1].schedule = DesSchedule(key) /\ text[pos + 1].plain = next
    BY <1>6 DEF Crypt
  <2>3. QED
    BY <2>1, <2>2
<1>9. /\ Len(next) = B
      /\ DesSchedule(other) = DesSchedule(key) => clear' = Slice(P, 0, (pos + 1) * B)
  <2>1. pos < N
    BY <1>1, <1>5
  <2>2. Slice(P, 0, pos * B) \o next = Slice(P, 0, (pos + 1) * B)
    BY <2>1, <1>3, <1>5, PaddedBlock
  <2>3. Len(next) = B
    BY <2>1, <1>3, <1>5, PaddedBlockLen
  <2>4. QED
    BY <2>2, <2>3, <1>2, <1>5, <1>8
<1>10. clear' \in Seq(Byte) /\ Len(clear') = Len(clear) + Len(plain)
  BY <1>2, <1>3, <1>8, ConcatProperties
<1>11. pos + 1 <= n /\ pos + 1 \in 0..(L + KEYCODELENGTH) /\ Len(clear') = (pos + 1) * B
  <2>1. n <= L + 1
    BY <1>3, <1>5, BlocksFacts
  <2>2. Len(plain) = B
    BY <1>8, <1>9
  <2>3. pos * B + B = (pos + 1) * B
    BY <1>3, <1>5
  <2>4. Len(clear') = (pos + 1) * B
    BY <2>2, <2>3, <1>5, <1>10
  <2>5. QED
    BY <2>1, <2>4, <1>1, <1>3, <1>5
<1> HIDE DEF P, next
<1>12. DecryptInv(algo', data', key', other', text', pos', clear')
  <2>1. algo # "AES"
    BY <1>1
  <2>2. DesSchedule(other') = DesSchedule(other) /\ DesSchedule(key') = DesSchedule(key)
    BY <1>1
  <2>3. QED
    BY <2>1, <2>2, <1>1, <1>9, <1>11 DEF DecryptInv, P
<1>13. CipherTypeOK'
  BY <1>1, <1>3, <1>10, <1>11, CipherTypeNext
<1>14. QED
  BY <1>1, <1>4, <1>12, <1>13, CipherInvNext

\* What DES has decrypted at the end of its loop: as many bytes as it wrote,
\* and with the right key the padded text, whose last byte is the padding.
LEMMA DesDecrypted ==
  ASSUME CipherInv, In("DES", "decrypt"), pos = Len(text)
  PROVE  /\ data \in Seq(Byte) /\ clear \in Seq(Byte)
         /\ Len(clear) \in Nat \ {0} /\ nPadNum \in Byte
         /\ WrongKey \/ /\ nPadNum <= Len(clear)
                        /\ Slice(clear, 0, Len(clear) - nPadNum) = data
<1> DEFINE B == DesBlock
           L == Len(data)
           N == Blocks(L, B)
           P == Padded(data, B)
           m == B - (L % B)
<1>1. algo = "DES" /\ phase = "decrypt"
  BY DEF In
<1>2. data \in Seq(Byte) /\ L \in Nat /\ clear \in Seq(Byte)
  BY CipherTypes DEF CipherInv
<1>3. /\ Len(text) = Blocks(L, BlockSize(algo))
      /\ DecryptInv(algo, data, key, other, text, pos, clear)
  BY <1>1 DEF CipherInv
<1>4. /\ Len(text) = N /\ Len(clear) = N * B /\ B \in 1..255 /\ B \in Nat \ {0}
      /\ DesSchedule(other) = DesSchedule(key) => clear = Slice(P, 0, N * B)
  BY <1>1, <1>3, TextsAndKeys DEF BlockSize, DecryptInv
<1>5. N \in Nat \ {0}
  BY <1>2, <1>4, BlocksFacts
<1>6. /\ m \in 1..B /\ P \in Seq(Byte) /\ Len(P) = N * B /\ Len(P) = L + m
      /\ \A i \in (L + 1)..Len(P) : P[i] = m
      /\ Slice(P, 0, L) = data
  BY <1>2, <1>4, PaddedFacts
<1> HIDE DEF P, m, N
<1>7. Len(clear) \in Nat \ {0}
  <2>1. N * B >= 1
    BY <1>4, <1>5
  <2>2. Len(clear) \in Nat
    BY <1>2, LenProperties
  <2>3. QED
    BY <2>1, <2>2, <1>4
<1>8. nPadNum = clear[Len(clear)]
  BY <1>4 DEF nPadNum
<1>9. nPadNum \in Byte
  <2>1. Len(clear) \in 1..Len(clear)
    BY <1>7
  <2>2. QED
    BY <2>1, <1>2, <1>8, ElementOfSeq
<1>10. ASSUME ~WrongKey
       PROVE  nPadNum <= Len(clear) /\ Slice(clear, 0, Len(clear) - nPadNum) = data
  <2>1. clear = P
    BY <1>4, <1>6, <1>10, SliceAll DEF WrongKey
  <2>2. Len(P) \in (L + 1)..Len(P)
    BY <1>2, <1>4, <1>6
  <2>3. nPadNum = m
    BY <2>1, <2>2, <1>6, <1>8
  <2>4. m <= Len(P) /\ Len(P) - m = L
    BY <1>2, <1>4, <1>6
  <2>5. QED
    BY <2>1, <2>3, <2>4, <1>6
<1>11. QED
  BY <1>2, <1>7, <1>9, <1>10

\* DES takes the padding off.
LEMMA DesDecryptEndInv ==
  ASSUME CipherInv, DesDecryptEnd
  PROVE  CipherInv'
<1> DEFINE e == Len(clear) - nPadNum
<1>1. /\ algo = "DES" /\ phase = "decrypt" /\ pos = Len(text) /\ phase' = "done"
      /\ In("DES", "decrypt") /\ nPadNum <= Len(clear)
      /\ ret' = SubSeq(clear, 1, e)
      /\ algo' = algo /\ data' = data /\ key' = key /\ other' = other
      /\ text' = text /\ clear' = clear /\ pos' = pos
  BY DEF DesDecryptEnd, In
<1>2. /\ clear \in Seq(Byte) /\ Len(clear) \in Nat \ {0} /\ nPadNum \in Byte
      /\ WrongKey \/ Slice(clear, 0, e) = data
  BY <1>1, DesDecrypted
<1>3. /\ key \in Keys /\ Encrypts(algo, data, key, text)
      /\ Len(text) = Blocks(Len(data), BlockSize(algo))
  BY <1>1 DEF CipherInv
<1>4. e \in Nat /\ e <= Len(clear)
  BY <1>1, <1>2 DEF Byte
<1> HIDE DEF e
<1>5. ret' = Slice(clear, 0, e)
  <2>1. 0 + 1 = 1
    OBVIOUS
  <2>2. QED
    BY <2>1, <1>1 DEF Slice
<1>6. ret' \in Seq(Byte)
  BY <1>2, <1>4, <1>5, FrontFacts
<1>7. CipherTypeOK'
  BY <1>1, <1>6, CipherTypes, CipherTypeNext DEF CipherInv
<1>8. CipherRoundTrip'
  <2>1. WrongKey \/ ret' = data
    BY <1>2, <1>5
  <2>2. WrongKey' \/ ret' = data'
    BY <2>1, <1>1 DEF WrongKey, DesSchedule
  <2>3. algo' # "AES" /\ phase' # "undefined"
    BY <1>1
  <2>4. QED
    BY <2>2, <2>3 DEF CipherRoundTrip, In
<1>9. QED
  BY <1>1, <1>3, <1>7, <1>8, CipherInvNext

\* DES finds more padding than text only with another key.
LEMMA DesUnderrunInv ==
  ASSUME CipherInv, DesUnderrun
  PROVE  CipherInv'
<1>1. /\ algo = "DES" /\ phase = "decrypt" /\ pos = Len(text) /\ In("DES", "decrypt")
      /\ nPadNum > Len(clear) /\ phase' = "undefined"
      /\ UNCHANGED <<algo, data, key, other, pos, text, clear, ret>>
  BY DEF DesUnderrun, In
<1>2. /\ Len(clear) \in Nat \ {0} /\ nPadNum \in Byte
      /\ WrongKey \/ nPadNum <= Len(clear)
  BY <1>1, DesDecrypted
<1>3. WrongKey
  BY <1>1, <1>2 DEF Byte
<1>4. QED
  BY <1>1, <1>3, UndefinedInv

\* AES appends a decrypted block, if the text holds a whole one.
LEMMA AesDecryptBlockInv ==
  ASSUME CipherInv, AesDecryptBlock
  PROVE  CipherInv'
<1> DEFINE K == KEYCODELENGTH
           L == Len(data)
           n == Len(text)
           N == Blocks(L, K)
           P == Padded(data, K)
           hex == StringToHex(Slice(data, pos * K, L))
<1>1. /\ algo = "AES" /\ phase = "decrypt" /\ pos < n /\ pos' = pos + 1
      /\ algo' = algo /\ phase' = phase /\ data' = data /\ key' = key /\ other' = other
      /\ text' = text /\ ret' = ret
  BY DEF AesDecryptBlock, In
<1>2. PICK plain \in Decrypt(other, text[pos + 1]) : clear' = clear \o plain
  BY DEF AesDecryptBlock
<1>3. /\ data \in Seq(Byte) /\ L \in Nat /\ data \in Texts \cup {<<>>}
      /\ key \in Keys \cup {<<>>} /\ other \in Keys \cup {<<>>} /\ algo \in {"AES", "DES"}
      /\ text \in Seq(CipherBlock) /\ n \in Nat /\ pos \in Nat
      /\ clear \in Seq(Byte) /\ ret \in Seq(Byte)
  BY CipherTypes DEF CipherInv
<1>4. /\ key \in Keys /\ Encrypts(algo, data, key, text)
      /\ n = Blocks(L, BlockSize(algo))
      /\ DecryptInv(algo, data, key, other, text, pos, clear)
  BY <1>1 DEF CipherInv
<1>5. /\ n = N /\ Len(other) \in AesKeyLengths
      /\ AesSuits(data, key, other) => clear = Slice(P, 0, pos * K)
      /\ K \in 1..255 /\ K \in Nat \ {0}
  BY <1>1, <1>4, TextsAndKeys DEF BlockSize, DecryptInv
<1>6. text[pos + 1] = Crypt(StringToHex(key), hex)
  BY <1>1, <1>3, <1>4 DEF Encrypts, BlockOf
<1>7. text[pos + 1] \in CipherBlock
  BY <1>1, <1>3, ElementOfSeq
<1>8. plain \in Seq(Byte) /\ (StringToHex(key) = other => plain = hex)
  <2>1. plain \in Seq(Byte) /\ (text[pos + 1].schedule = other => plain = text[pos + 1].plain)
    BY <1>7, DecryptFacts
  <2>2. text[pos + 1].schedule = StringToHex(key) /\ text[pos + 1].plain = hex
    BY <1>6 DEF Crypt
  <2>3. QED
    BY <2>1, <2>2
<1>9. pos < N
  BY <1>1, <1>5
<1>10. ASSUME AesSuits(data, key, other) PROVE clear' = Slice(P, 0, (pos + 1) * K)
  <2>1. other = key /\ Len(key) = K /\ \A i \in 1..L : data[i] \in Printable
    BY <1>10 DEF AesSuits
  <2>2. StringToHex(key) = other
    BY <2>1, <1>4, HexKey
  <2>3. \A i \in 1..Len(data) : data[i] # 0
    <3>1. \A p \in Printable : p # 0
      <4> SUFFICES ASSUME NEW p \in Printable, p = 0 PROVE FALSE
        OBVIOUS
      <4>1. p > KEYCODELENGTH
        BY CipherAssumption
      <4>2. QED
        BY <4>1, <1>5
    <3>2. QED
      BY <3>1, <2>1
  <2>4. hex = Slice(P, pos * K, (pos + 1) * K)
    BY <2>3, <1>3, <1>9, HexBlock
  <2>5. Slice(P, 0, pos * K) \o Slice(P, pos * K, (pos + 1) * K) = Slice(P, 0, (pos + 1) * K)
    BY <1>3, <1>5, <1>9, PaddedBlock
  <2>6. QED
    BY <2>2, <2>4, <2>5, <1>2, <1>5, <1>8, <1>10
<1>11. clear' \in Seq(Byte)
  BY <1>2, <1>3, <1>8, ConcatProperties
<1>12. pos + 1 <= n /\ pos + 1 \in 0..(L + K)
  <2>1. n <= L + 1
    BY <1>3, <1>5, BlocksFacts
  <2>2. QED
    BY <2>1, <1>1, <1>3, <1>5
<1> HIDE DEF P, hex
<1>13. DecryptInv(algo', data', key', other', text', pos', clear')
  <2>1. algo # "DES" /\ Len(other') \in AesKeyLengths
    BY <1>1, <1>5
  <2>2. AesSuits(data', key', other') = AesSuits(data, key, other)
    BY <1>1
  <2>3. QED
    BY <2>1, <2>2, <1>1, <1>10, <1>12 DEF DecryptInv, P
<1>14. CipherTypeOK'
  BY <1>1, <1>3, <1>11, <1>12, CipherTypeNext
<1>15. QED
  BY <1>1, <1>4, <1>13, <1>14, CipherInvNext

\* AES takes the padding off.
LEMMA AesDecryptEndInv ==
  ASSUME CipherInv, AesDecryptEnd
  PROVE  CipherInv'
<1> DEFINE K == KEYCODELENGTH
           L == Len(data)
           N == Blocks(L, K)
           P == Padded(data, K)
<1>1. /\ algo = "AES" /\ phase = "decrypt" /\ pos = Len(text) /\ phase' = "done"
      /\ algo' = algo /\ data' = data /\ key' = key /\ other' = other
      /\ text' = text /\ clear' = clear /\ pos' = pos
  BY DEF AesDecryptEnd, In
<1>2. PICK dst \in ClearPadding(clear) : ret' = Answer(dst)
  BY DEF AesDecryptEnd, Answer
<1>3. /\ data \in Seq(Byte) /\ L \in Nat /\ data \in Texts \cup {<<>>}
      /\ key \in Keys \cup {<<>>} /\ other \in Keys \cup {<<>>} /\ algo \in {"AES", "DES"}
      /\ text \in Seq(CipherBlock) /\ pos \in 0..(L + K)
      /\ clear \in Seq(Byte)
  BY CipherTypes DEF CipherInv
<1>4. /\ key \in Keys /\ Encrypts(algo, data, key, text)
      /\ Len(text) = Blocks(L, BlockSize(algo))
      /\ DecryptInv(algo, data, key, other, text, pos, clear)
  BY <1>1 DEF CipherInv
<1>5. /\ Len(text) = N /\ Len(other) \in AesKeyLengths
      /\ AesSuits(data, key, other) => clear = Slice(P, 0, N * K)
      /\ K \in 1..255
  BY <1>1, <1>4, TextsAndKeys DEF BlockSize, DecryptInv
<1>6. ret' \in Seq(Byte)
  BY <1>2, <1>3, AnswerType
<1>7. ASSUME AesSuits(data, key, other) PROVE ret' = data
  <2>1. P \in Seq(Byte) /\ Len(P) = N * K
    BY <1>3, <1>5, PaddedFacts
  <2>2. clear = P
    BY <2>1, <1>5, <1>7, SliceAll
  <2>3. \A i \in 1..Len(data) : data[i] \in Printable
    BY <1>7 DEF AesSuits
  <2>4. Answer(dst) = data
    BY <2>2, <2>3, <1>3, ClearPadded
  <2>5. QED
    BY <2>4, <1>2
<1>8. CipherTypeOK'
  BY <1>1, <1>3, <1>6, CipherTypeNext
<1>9. CipherRoundTrip'
  <2>1. algo' # "DES" /\ (other' = key' => Len(key') \in AesKeyLengths)
    BY <1>1, <1>5
  <2>2. (other' = key' /\ Len(key') = KEYCODELENGTH
           /\ \A i \in 1..Len(data') : data'[i] \in Printable) => ret' = data'
    BY <1>1, <1>7 DEF AesSuits
  <2>3. phase' # "undefined"
    BY <1>1
  <2>4. QED
    BY <2>1, <2>2, <2>3 DEF CipherRoundTrip, In
<1>10. QED
  BY <1>1, <1>4, <1>8, <1>9, CipherInvNext

\* The result has been used.
LEMMA CipherReturnInv ==
  ASSUME CipherInv, CipherReturn
  PROVE  CipherInv'
<1>1. /\ algo' = "AES" /\ phase' = "idle" /\ data' = <<>> /\ key' = <<>> /\ other' = <<>>
      /\ pos' = 0 /\ text' = <<>> /\ clear' = <<>> /\ ret' = <<>>
  BY DEF CipherReturn
<1>2. <<>> \in Seq(Byte) /\ <<>> \in Seq(CipherBlock) /\ Len(<<>>) = 0
  BY EmptySeq
<1>3. 0 \in 0..(Len(<<>>) + KEYCODELENGTH)
  BY <1>2, TextsAndKeys
<1>4. CipherTypeOK'
  BY <1>1, <1>2, <1>3, CipherTypeNext
<1>5. QED
  BY <1>1, <1>4, CipherInvNext

\* Every step keeps the invariant.
LEMMA CipherStepInv ==
  ASSUME CipherInv, CipherNext \/ UNCHANGED cipherVars
  PROVE  CipherInv'
<1>1. CASE CipherStep
  BY <1>1, AesEncryptBlockInv, AesEncryptEndInv, DesEncryptBlockInv, DesEncryptEndInv,
     AesDecryptBlockInv, AesDecryptEndInv, DesDecryptBlockInv, DesDecryptEndInv,
     DesOverrunInv, DesUnderrunInv DEF CipherStep
<1>2. ASSUME NEW a \in {"AES", "DES"}, NEW d \in Texts, NEW k \in Keys, BeginEncrypt(a, d, k)
      PROVE  CipherInv'
  BY <1>2, BeginEncryptInv
<1>3. ASSUME NEW k \in Keys, AesBeginDecrypt(k) \/ DesBeginDecrypt(k) PROVE CipherInv'
  BY <1>3, AesBeginDecryptInv, DesBeginDecryptInv
<1>4. CASE CipherReturn
  BY <1>4, CipherReturnInv
<1>5. CASE UNCHANGED cipherVars
  <2>1. /\ algo' = algo /\ phase' = phase /\ data' = data /\ key' = key /\ other' = other
        /\ pos' = pos /\ text' = text /\ clear' = clear /\ ret' = ret
    BY <1>5 DEF cipherVars
  <2>2. CipherTypeOK'
    BY <2>1 DEF CipherInv, CipherTypeOK, Byte
  <2>3. CipherRoundTrip'
    BY <2>1 DEF CipherInv, CipherRoundTrip, In, WrongKey, PKCS5Padding, DesSchedule
  <2>4. QED
    BY <2>1, <2>2, <2>3, CipherInvNext DEF CipherInv
<1>6. QED
  BY <1>1, <1>2, <1>3, <1>4, <1>5 DEF CipherNext

-----------------------------------------------------------------------------
(* HTML: HtmlCodec. *)

Text == Seq(Tokens)

\* Texts, their lengths and their concatenations.
LEMMA TextFacts ==
  /\ <<>> \in Text /\ Len(<<>>) = 0
  /\ \A x \in Text : Len(x) \in Nat /\ x \o <<>> = x /\ <<>> \o x = x
  /\ \A x \in Text : \A i \in 1..Len(x) : x[i] \in Tokens
  /\ \A x, y \in Text : x \o y \in Text /\ Len(x \o y) = Len(x) + Len(y)
  /\ \A x, y, z \in Text : (x \o y) \o z = x \o (y \o z)
<1>1. <<>> \in Text /\ Len(<<>>) = 0
  BY EmptySeq DEF Text
<1>2. \A x \in Text : Len(x) \in Nat /\ x \o <<>> = x /\ <<>> \o x = x
  BY LenProperties, ConcatEmptySeq DEF Text
<1>3. \A x \in Text : \A i \in 1..Len(x) : x[i] \in Tokens
  BY ElementOfSeq DEF Text
<1>4. \A x, y \in Text : x \o y \in Text /\ Len(x \o y) = Len(x) + Len(y)
  BY ConcatProperties DEF Text
<1>5. \A x, y, z \in Text : (x \o y) \o z = x \o (y \o z)
  BY ConcatAssociative DEF Text
<1>6. QED
  BY <1>1, <1>2, <1>3, <1>4, <1>5

\* The tokens of a concatenation.
LEMMA TextAt ==
  ASSUME NEW x \in Text, NEW y \in Text
  PROVE  /\ \A i \in 1..Len(x) : (x \o y)[i] = x[i]
         /\ \A i \in 1..Len(y) : (x \o y)[Len(x) + i] = y[i]
<1> DEFINE m == Len(x)
           n == Len(y)
           u == x \o y
<1>1. m \in Nat /\ n \in Nat
  BY TextFacts
<1>2. \A i \in 1..(m + n) : u[i] = IF i <= m THEN x[i] ELSE y[i - m]
  BY ConcatProperties DEF Text
<1> HIDE DEF m, n, u
<1>3. ASSUME NEW i \in 1..m PROVE u[i] = x[i]
  <2>1. i \in 1..(m + n) /\ i <= m
    BY <1>1
  <2>2. QED
    BY <2>1, <1>2
<1>4. ASSUME NEW i \in 1..n PROVE u[m + i] = y[i]
  <2>1. m + i \in 1..(m + n) /\ ~(m + i <= m) /\ (m + i) - m = i
    BY <1>1
  <2>2. QED
    BY <2>1, <1>2
<1>5. QED
  BY <1>3, <1>4 DEF m, n, u

\* Texts of one and of two tokens.
LEMMA ShortTexts ==
  /\ \A a \in Tokens : <<a>> \in Text /\ Len(<<a>>) = 1 /\ <<a>>[1] = a
  /\ \A a, b \in Tokens : <<a, b>> \in Text /\ Len(<<a, b>>) = 2
                          /\ <<a, b>>[1] = a /\ <<a, b>>[2] = b
                          /\ <<a>> \o <<b>> = <<a, b>>
<1>1. ASSUME NEW a \in Tokens PROVE <<a>> \in Text /\ Len(<<a>>) = 1 /\ <<a>>[1] = a
  BY DEF Text
<1>2. ASSUME NEW a \in Tokens, NEW b \in Tokens
      PROVE  /\ <<a, b>> \in Text /\ Len(<<a, b>>) = 2
             /\ <<a, b>>[1] = a /\ <<a, b>>[2] = b
  BY DEF Text
<1>3. ASSUME NEW a \in Tokens, NEW b \in Tokens
      PROVE  <<a>> \o <<b>> = <<a, b>>
  <2> DEFINE u == <<a>> \o <<b>>
             v == <<a, b>>
  <2>1. u \in Text /\ Len(u) = 2
    BY <1>1, TextFacts
  <2>2. u[1] = a
    BY <1>1, TextAt
  <2>3. u[1 + 1] = b
    BY <1>1, TextAt
  <2>4. v \in Text /\ Len(v) = 2 /\ v[1] = a /\ v[2] = b
    BY <1>2
  <2> HIDE DEF u, v
  <2>5. \A i \in 1..Len(u) : u[i] = v[i]
    <3>1. \A i \in 1..2 : i = 1 \/ i = 2
      OBVIOUS
    <3>2. 1 + 1 = 2
      OBVIOUS
    <3>3. QED
      BY <2>1, <2>2, <2>3, <2>4, <3>1, <3>2
  <2>6. u = v
    BY <2>1, <2>4, <2>5, SeqEqual DEF Text
  <2>7. QED
    BY <2>6 DEF u, v
<1>4. QED
  BY <1>1, <1>2, <1>3

\* f[n] is the concatenation of the first n pieces.
Joining(p, f) ==
  /\ f \in [0..Len(p) -> Text] /\ f[0] = <<>>
  /\ \A n \in 1..Len(p) : f[n] = f[n - 1] \o p[n]

\* Every sequence of texts can be joined.
LEMMA JoiningExists ==
  ASSUME NEW p \in Seq(Text)
  PROVE  \E f : Joining(p, f)
<1> DEFINE L == Len(p)
           Is(f, m) == /\ f \in [0..m -> Text] /\ f[0] = <<>>
                       /\ \A n \in 1..m : f[n] = f[n - 1] \o p[n]
           T == {m \in 0..L : \E f \in [0..m -> Text] : Is(f, m)}
<1>1. L \in Nat /\ \A n \in 1..L : p[n] \in Text
  BY LenProperties, ElementOfSeq
<1> HIDE DEF L
<1>2. 0 \in T
  <2> DEFINE f == [n \in 0..0 |-> <<>>]
  <2>1. f \in [0..0 -> Text] /\ f[0] = <<>> /\ 0 \in 0..L /\ 1..0 = {}
    BY <1>1, TextFacts
  <2> HIDE DEF f
  <2>2. QED
    BY <2>1
<1>3. ASSUME NEW m \in 1..L, m - 1 \in T PROVE m \in T
  <2>1. PICK f \in [0..(m - 1) -> Text] : Is(f, m - 1)
    BY <1>3
  <2> DEFINE e == f[m - 1] \o p[m]
             g == [n \in 0..m |-> IF n = m THEN e ELSE f[n]]
  <2>2. /\ m \in Nat /\ m - 1 \in 0..(m - 1) /\ m \in 0..m /\ 0 \in 0..(m - 1) /\ m # 0
        /\ \A n \in 0..m : n # m => n \in 0..(m - 1)
        /\ \A n \in 0..(m - 1) : n \in 0..m /\ n # m
    BY <1>1
  <2>3. e \in Text
    <3>1. f[m - 1] \in Text /\ p[m] \in Text
      BY <2>1, <2>2, <1>1
    <3>2. QED
      BY <3>1, TextFacts
  <2> HIDE DEF e
  <2>4. g \in [0..m -> Text] /\ g[m] = e /\ \A n \in 0..(m - 1) : g[n] = f[n]
    BY <2>1, <2>2, <2>3
  <2> HIDE DEF g
  <2>5. ASSUME NEW n \in 1..m PROVE g[n] = g[n - 1] \o p[n]
    <3>1. CASE n = m
      BY <3>1, <2>2, <2>4 DEF e
    <3>2. CASE n # m
      <4>1. n \in 1..(m - 1) /\ n \in 0..(m - 1) /\ n - 1 \in 0..(m - 1)
        BY <3>2, <1>1
      <4>2. QED
        BY <4>1, <2>1, <2>4
    <3>3. QED
      BY <3>1, <3>2
  <2>6. Is(g, m)
    BY <2>1, <2>2, <2>4, <2>5
  <2>7. m \in 0..L
    BY <1>1
  <2>8. QED
    BY <2>4, <2>6, <2>7
<1>4. L \in T
  <2> HIDE DEF T
  <2>1. 0..L \subseteq T
    BY <1>1, <1>2, <1>3, Induct
  <2>2. QED
    BY <2>1, <1>1
<1>5. QED
  BY <1>4 DEF Joining, L

\* What FlattenSeq computes.
LEMMA FlattenIs ==
  ASSUME NEW p \in Seq(Text), NEW f, Joining(p, f)
  PROVE  FlattenSeq(p) = f[Len(p)]
<1> DEFINE L == Len(p)
<1>1. L \in Nat /\ \A n \in 1..L : p[n] \in Text
  BY LenProperties, ElementOfSeq
<1>2. /\ f \in [0..L -> Text] /\ f[0] = <<>>
      /\ \A n \in 1..L : f[n] = f[n - 1] \o p[n]
  BY DEF Joining
<1>3. CASE L = 0
  <2>1. FlattenSeq(p) = p /\ p = <<>>
    BY <1>3, EmptySeq DEF FlattenSeq
  <2>2. QED
    BY <2>1, <1>2, <1>3
<1>4. CASE L # 0
  <2> DEFINE Rec(g) == g = [i \in 1..L |-> IF i = 1 THEN p[i] ELSE g[i - 1] \o p[i]]
             h == CHOOSE g : Rec(g)
             k == [i \in 1..L |-> f[i]]
  <2>1. FlattenSeq(p) = h[L]
    BY <1>4 DEF FlattenSeq
  <2> HIDE DEF L
  <2>2. Rec(k)
    <3>1. ASSUME NEW i \in 1..L PROVE k[i] = IF i = 1 THEN p[i] ELSE k[i - 1] \o p[i]
      <4>1. k[i] = f[i - 1] \o p[i]
        BY <1>2
      <4>2. CASE i = 1
        <5>1. f[i - 1] = <<>> /\ p[i] \in Text
          BY <4>2, <1>1, <1>2
        <5>2. QED
          BY <5>1, <4>1, <4>2, TextFacts
      <4>3. CASE i # 1
        <5>1. i - 1 \in 1..L
          BY <4>3, <1>1
        <5>2. QED
          BY <5>1, <4>1, <4>3
      <4>4. QED
        BY <4>2, <4>3
    <3>2. QED
      BY <3>1
  <2>3. Rec(h)
    <3> HIDE DEF Rec
    <3>1. QED
      BY <2>2
  <2> HIDE DEF h
  <2>4. h = [i \in 1..L |-> IF i = 1 THEN p[i] ELSE h[i - 1] \o p[i]]
    BY <2>3
  <2> HIDE DEF Rec
  <2> DEFINE T == {i \in 0..L : i # 0 => h[i] = f[i]}
  <2>5. 0 \in T
    BY <1>1
  <2>6. ASSUME NEW i \in 1..L, i - 1 \in T PROVE i \in T
    <3>1. h[i] = IF i = 1 THEN p[i] ELSE h[i - 1] \o p[i]
      BY <2>4
    <3>2. f[i] = f[i - 1] \o p[i] /\ p[i] \in Text
      BY <1>1, <1>2
    <3>3. CASE i = 1
      <4>1. f[i - 1] = <<>>
        BY <3>3, <1>2
      <4>2. f[i] = p[i]
        BY <4>1, <3>2, TextFacts
      <4>3. QED
        BY <4>2, <3>1, <3>3, <1>1
    <3>4. CASE i # 1
      <4>1. i - 1 # 0
        BY <3>4
      <4>2. h[i - 1] = f[i - 1]
        BY <4>1, <2>6
      <4>3. QED
        <5>1. h[i] = h[i - 1] \o p[i]
          BY <3>1, <3>4
        <5>2. h[i] = f[i]
          BY <5>1, <4>2, <3>2
        <5>3. i \in 0..L
          BY <1>1
        <5>4. QED
          BY <5>2, <5>3
    <3>5. QED
      BY <3>3, <3>4
  <2>7. 0..L \subseteq T
    <3> HIDE DEF T
    <3>1. QED
      BY <2>5, <2>6, <1>1, Induct
  <2>8. h[L] = f[L]
    BY <2>7, <1>1, <1>4
  <2>9. QED
    BY <2>1, <2>8 DEF L
<1>5. QED
  BY <1>3, <1>4

\* The piece at i stands in the joined text behind the pieces before it.
StandsIn(p, f, i) ==
  /\ \A j \in 1..Len(p[i]) : f[Len(p)][Len(f[i - 1]) + j] = p[i][j]
  /\ \A j \in 1..Len(f[i - 1]) : f[Len(p)][j] = f[i - 1][j]

\* The elements of a piece in the concatenation.
LEMMA JoinedAt ==
  ASSUME NEW p \in Seq(Text), NEW f, Joining(p, f)
  PROVE  \A i \in 1..Len(p) :
           /\ f[i - 1] \in Text /\ p[i] \in Text
           /\ Len(f[i]) = Len(f[i - 1]) + Len(p[i])
           /\ Len(f[i]) <= Len(f[Len(p)])
           /\ StandsIn(p, f, i)
<1> TAKE i \in 1..Len(p)
<1> DEFINE L == Len(p)
<1>1. L \in Nat /\ \A n \in 1..L : p[n] \in Text
  BY LenProperties, ElementOfSeq
<1>2. /\ f \in [0..L -> Text] /\ f[0] = <<>>
      /\ \A n \in 1..L : f[n] = f[n - 1] \o p[n]
  BY DEF Joining
<1>3. i \in 1..L
  OBVIOUS
<1> HIDE DEF L
<1>4. \A n \in 1..L : /\ n - 1 \in 0..L /\ n \in 0..L /\ f[n - 1] \in Text /\ f[n] \in Text
                      /\ p[n] \in Text
  BY <1>1, <1>2
<1> DEFINE T == {n \in 0..L : n >= i => /\ Len(f[i]) <= Len(f[n])
                                        /\ \A j \in 1..Len(f[i]) : f[n][j] = f[i][j]}
<1>5. 0 \in T
  BY <1>1, <1>3
<1>6. ASSUME NEW n \in 1..L, n - 1 \in T PROVE n \in T
  <2>1. CASE n < i
    BY <2>1, <1>1, <1>3
  <2>2. CASE n = i
    <3>1. Len(f[i]) \in Nat
      BY <1>3, <1>4, TextFacts
    <3>2. QED
      BY <3>1, <2>2, <1>4
  <2>3. CASE n > i
    <3>1. n - 1 >= i
      BY <2>3, <1>1, <1>3
    <3>2. Len(f[i]) <= Len(f[n - 1]) /\ \A j \in 1..Len(f[i]) : f[n - 1][j] = f[i][j]
      BY <3>1, <1>6
    <3> DEFINE a == f[n - 1]
               b == p[n]
    <3>3. a \in Text /\ b \in Text /\ f[n] = a \o b
      BY <1>2, <1>4
    <3>a. Len(f[i]) <= Len(a) /\ \A j \in 1..Len(f[i]) : a[j] = f[i][j]
      BY <3>2
    <3> HIDE DEF a, b
    <3>4. Len(f[i]) \in Nat /\ Len(a) \in Nat /\ Len(b) \in Nat
      BY <3>3, <1>3, <1>4, TextFacts
    <3>5. Len(f[n]) = Len(a) + Len(b) /\ \A j \in 1..Len(a) : f[n][j] = a[j]
      BY <3>3, TextFacts, TextAt
    <3>6. Len(f[i]) <= Len(f[n])
      BY <3>a, <3>4, <3>5
    <3>7. ASSUME NEW j \in 1..Len(f[i]) PROVE f[n][j] = f[i][j]
      <4>1. j \in 1..Len(a)
        BY <3>a, <3>4
      <4>2. QED
        BY <4>1, <3>a, <3>5
    <3>8. QED
      BY <3>6, <3>7, <1>4
  <2>4. QED
    BY <2>1, <2>2, <2>3, <1>1, <1>3
<1>7. 0..L \subseteq T
  <2> HIDE DEF T
  <2>1. QED
    BY <1>1, <1>5, <1>6, Induct
<1>8. Len(f[i]) <= Len(f[L]) /\ \A j \in 1..Len(f[i]) : f[L][j] = f[i][j]
  BY <1>1, <1>3, <1>7
<1> HIDE DEF T
<1> DEFINE x == f[i - 1]
           y == p[i]
<1>9. x \in Text /\ y \in Text /\ f[i] = x \o y
  BY <1>2, <1>3, <1>4
<1> HIDE DEF x, y
<1>10. Len(f[i]) = Len(x) + Len(y) /\ Len(x) \in Nat /\ Len(y) \in Nat
  BY <1>9, TextFacts
<1>11. ASSUME NEW j \in 1..Len(y) PROVE f[L][Len(x) + j] = y[j]
  <2>1. f[i][Len(x) + j] = y[j]
    BY <1>9, TextAt
  <2>2. Len(x) + j \in 1..Len(f[i])
    BY <1>10
  <2>3. QED
    BY <2>1, <2>2, <1>8
<1>12. ASSUME NEW j \in 1..Len(x) PROVE f[L][j] = x[j]
  <2>1. f[i][j] = x[j]
    BY <1>9, TextAt
  <2>2. j \in 1..Len(f[i])
    BY <1>10
  <2>3. QED
    BY <2>1, <2>2, <1>8
<1>13. QED
  BY <1>8, <1>9, <1>10, <1>11, <1>12 DEF x, y, L, StandsIn

\* The lengths of the joined texts.
LEMMA JoinedLen ==
  ASSUME NEW p \in Seq(Text), NEW f, Joining(p, f)
  PROVE  \A i \in 1..Len(p) : /\ f[i - 1] \in Text
                              /\ Len(f[i]) = Len(f[i - 1]) + Len(p[i])
                              /\ Len(f[i]) <= Len(f[Len(p)])
<1>1. \A i \in 1..Len(p) : f[i - 1] \in Text
  BY JoinedAt
<1>2. \A i \in 1..Len(p) : Len(f[i]) = Len(f[i - 1]) + Len(p[i])
  <2> TAKE i \in 1..Len(p)
  <2> DEFINE x == f[i - 1]
             y == p[i]
  <2>1. f[i] = x \o y /\ x \in Text /\ y \in Text
    BY JoinedAt DEF Joining
  <2> HIDE DEF x, y
  <2>2. Len(f[i]) = Len(x) + Len(y)
    BY <2>1, TextFacts
  <2>3. QED
    BY <2>2 DEF x, y
<1>3. \A i \in 1..Len(p) : Len(f[i]) <= Len(f[Len(p)])
  BY JoinedAt
<1>4. QED
  BY <1>1, <1>2, <1>3

\* A piece in its place.
LEMMA JoinedStands ==
  ASSUME NEW p \in Seq(Text), NEW f, Joining(p, f), NEW i \in 1..Len(p)
  PROVE  StandsIn(p, f, i)
BY JoinedAt

\* A rewriting that works token by token works piece by piece: r holds what
\* the tokens of the joined text p become, q what its pieces become.
LEMMA JoinRewritten ==
  ASSUME NEW p \in Seq(Text), NEW q \in Seq(Text), NEW r \in Seq(Text), NEW f, Joining(p, f),
         Len(q) = Len(p), Len(r) = Len(f[Len(p)]),
         \A i \in 1..Len(p) :
           \/ Len(p[i]) = 0 /\ q[i] = <<>>
           \/ Len(p[i]) = 1 /\ q[i] = r[Len(f[i - 1]) + 1]
           \/ Len(p[i]) = 2 /\ q[i] = r[Len(f[i - 1]) + 1] \o r[Len(f[i - 1]) + 2]
  PROVE  FlattenSeq(r) = FlattenSeq(q)
<1> DEFINE n == Len(p)
<1>1. PICK g : Joining(q, g)
  BY JoiningExists
<1>2. PICK h : Joining(r, h)
  BY JoiningExists
<1>3. FlattenSeq(q) = g[n] /\ FlattenSeq(r) = h[Len(f[n])]
  BY <1>1, <1>2, FlattenIs
<1>4. n \in Nat /\ Len(r) \in Nat
  BY LenProperties
<1>5. /\ f \in [0..n -> Text] /\ f[0] = <<>>
      /\ g \in [0..n -> Text] /\ g[0] = <<>>
      /\ \A i \in 1..n : g[i] = g[i - 1] \o q[i]
  BY <1>1 DEF Joining
<1> DEFINE m == Len(r)
<1>6. /\ h \in [0..m -> Text] /\ h[0] = <<>>
      /\ \A i \in 1..m : h[i] = h[i - 1] \o r[i]
  BY <1>2 DEF Joining
<1>7. \A i \in 1..m : r[i] \in Text
  BY ElementOfSeq
<1>8. \A i \in 1..n :
           \/ Len(p[i]) = 0 /\ q[i] = <<>>
           \/ Len(p[i]) = 1 /\ q[i] = r[Len(f[i - 1]) + 1]
           \/ Len(p[i]) = 2 /\ q[i] = r[Len(f[i - 1]) + 1] \o r[Len(f[i - 1]) + 2]
  OBVIOUS
<1>9. \A i \in 1..n : /\ f[i - 1] \in Text /\ Len(f[i]) = Len(f[i - 1]) + Len(p[i])
                      /\ Len(f[i]) <= m
  BY JoinedLen
<1>10. m = Len(f[n]) /\ m \in Nat
  OBVIOUS
<1>16. ASSUME NEW u \in Nat, NEW v \in Nat, NEW w \in Nat, u + v <= w, v \in {1, 2}
       PROVE  /\ u + 1 \in 1..w /\ (u + 1) - 1 = u
              /\ v = 2 => u + 2 \in 1..w /\ (u + 2) - 1 = u + 1
  BY <1>16
<1> HIDE DEF n, m
<1> DEFINE T == {i \in 0..n : h[Len(f[i])] = g[i]}
<1>11. 0 \in T
  BY <1>4, <1>5, <1>6, TextFacts
<1>12. ASSUME NEW i \in 1..n, i - 1 \in T PROVE i \in T
  <2> DEFINE o == Len(f[i - 1])
  <2>1. o \in Nat /\ h[o] = g[i - 1] /\ g[i - 1] \in Text
    BY <1>4, <1>5, <1>9, <1>12, TextFacts
  <2>2. Len(f[i]) = o + Len(p[i]) /\ Len(f[i]) <= m
    BY <1>9
  <2>3. g[i] = g[i - 1] \o q[i] /\ i \in 0..n
    <3>1. g[i] = g[i - 1] \o q[i]
      BY <1>5
    <3>2. i \in 0..n
      BY <1>4
    <3>3. QED
      BY <3>1, <3>2
  <2>4. \/ Len(p[i]) = 0 /\ q[i] = <<>>
        \/ Len(p[i]) = 1 /\ q[i] = r[o + 1]
        \/ Len(p[i]) = 2 /\ q[i] = r[o + 1] \o r[o + 2]
    BY <1>8
  <2> HIDE DEF o
  <2>5. CASE Len(p[i]) = 0 /\ q[i] = <<>>
    <3>1. Len(f[i]) = o /\ g[i] = g[i - 1]
      BY <2>1, <2>2, <2>3, <2>5, TextFacts
    <3>2. QED
      BY <3>1, <2>1, <2>3
  <2>6. CASE Len(p[i]) = 1 /\ q[i] = r[o + 1]
    <3>1. Len(f[i]) = o + 1 /\ o + 1 \in 1..m /\ (o + 1) - 1 = o
      BY <2>1, <2>2, <2>6, <1>10, <1>16
    <3>2. h[o + 1] = h[o] \o r[o + 1]
      BY <3>1, <1>6
    <3>3. QED
      BY <3>1, <3>2, <2>1, <2>3, <2>6
  <2>7. CASE Len(p[i]) = 2 /\ q[i] = r[o + 1] \o r[o + 2]
    <3>1. /\ Len(f[i]) = o + 2 /\ o + 1 \in 1..m /\ o + 2 \in 1..m
          /\ (o + 1) - 1 = o /\ (o + 2) - 1 = o + 1
      BY <2>1, <2>2, <2>7, <1>10, <1>16
    <3>2. h[o + 1] = h[o] \o r[o + 1] /\ h[o + 2] = h[o + 1] \o r[o + 2]
      BY <3>1, <1>6
    <3>3. r[o + 1] \in Text /\ r[o + 2] \in Text
      BY <3>1, <1>7
    <3>4. h[o + 2] = h[o] \o (r[o + 1] \o r[o + 2])
      <4> DEFINE x == h[o]
                 y == r[o + 1]
                 z == r[o + 2]
      <4>1. x \in Text /\ y \in Text /\ z \in Text
        BY <3>3, <2>1
      <4>2. h[o + 2] = (x \o y) \o z
        BY <3>2
      <4> HIDE DEF x, y, z
      <4>3. (x \o y) \o z = x \o (y \o z)
        BY <4>1, TextFacts
      <4>4. QED
        BY <4>2, <4>3 DEF x, y, z
    <3>5. QED
      BY <3>1, <3>4, <2>1, <2>3, <2>7
  <2>8. QED
    BY <2>4, <2>5, <2>6, <2>7
<1>13. 0..n \subseteq T
  <2> HIDE DEF T
  <2>1. QED
    BY <1>4, <1>11, <1>12, Induct
<1>14. h[Len(f[n])] = g[n]
  BY <1>4, <1>13
<1>15. QED
  BY <1>3, <1>14

\* The name of a character that the table replaces, and the other way round.
Name(x) == codes[CHOOSE c \in 1..Len(codes) : codes[c].src = x].name

Src(x) == codes[CHOOSE c \in 1..Len(codes) : codes[c].name = x].src

\* What the table says.
LEMMA CodesFacts ==
  /\ Len(codes) \in Nat \ {0} /\ 1 \in 1..Len(codes)
  /\ codes[1].src = "&" /\ "&" \in Tokens
  /\ \A c \in 1..Len(codes) :
       /\ codes[c].src \in Tokens /\ codes[c].name \in Tokens
       /\ codes[c].name # "&" /\ (c # 1 => codes[c].src # "&")
       /\ Name(codes[c].src) = codes[c].name /\ Src(codes[c].name) = codes[c].src
  /\ \A c, d \in 1..Len(codes) :
       /\ codes[c].src # codes[d].name
       /\ c # d => codes[c].src # codes[d].src /\ codes[c].name # codes[d].name
<1> DEFINE N == Len(codes)
<1>1. N \in Nat \ {0} /\ 1 \in 1..N
  BY CodesAssumption, EmptySeq
<1>2. \A c \in 1..N : codes[c] \in [src : Tokens, name : Tokens]
  BY CodesAssumption, ElementOfSeq
<1>3. \A c \in 1..N : codes[c].src \in Tokens /\ codes[c].name \in Tokens
  BY <1>2
<1>4. /\ \A c, d \in 1..N : codes[c].src # codes[d].name
      /\ \A c, d \in 1..N : codes[c].src = codes[d].src => c = d
      /\ \A c, d \in 1..N : codes[c].name = codes[d].name => c = d
      /\ codes[1].src = "&"
  BY CodesAssumption
<1> HIDE DEF N
<1>5. ASSUME NEW c \in 1..N PROVE Name(codes[c].src) = codes[c].name
  <2> DEFINE e == CHOOSE d \in 1..N : codes[d].src = codes[c].src
  <2>1. e \in 1..N /\ codes[e].src = codes[c].src
    OBVIOUS
  <2>2. e = c
    BY <2>1, <1>4
  <2>3. QED
    BY <2>2 DEF Name, N
<1>6. ASSUME NEW c \in 1..N PROVE Src(codes[c].name) = codes[c].src
  <2> DEFINE e == CHOOSE d \in 1..N : codes[d].name = codes[c].name
  <2>1. e \in 1..N /\ codes[e].name = codes[c].name
    OBVIOUS
  <2>2. e = c
    BY <2>1, <1>4
  <2>3. QED
    BY <2>2 DEF Src, N
<1>7. ASSUME NEW c \in 1..N PROVE codes[c].name # "&" /\ (c # 1 => codes[c].src # "&")
  BY <1>1, <1>4
<1>8. "&" \in Tokens
  BY <1>1, <1>3, <1>4
<1>9. QED
  BY <1>1, <1>3, <1>4, <1>5, <1>6, <1>7, <1>8 DEF N

\* Whether s spells out an entity of the table at i, "&" itself aside, among
\* the first m entries.
Spelt(s, i, m) == \E c \in 2..m : EntityAt(s, codes[c], i)

\* Whether one of the entries lo..hi replaces x.
Coded(x, lo, hi) == \E c \in lo..hi : codes[c].src = x

\* What has become of the token at i of the text s when the entries lo..hi
\* are encoded and the entries before lo have been decoded.
Piece(s, i, lo, hi) ==
  IF Spelt(s, i, lo - 1) THEN <<Src(s[i + 1])>>
  ELSE IF Spelt(s, i - 1, lo - 1) THEN <<>>
  ELSE IF Coded(s[i], lo, hi) THEN <<"&", Name(s[i])>> ELSE <<s[i]>>

Pieces(s, lo, hi) == [i \in 1..Len(s) |-> Piece(s, i, lo, hi)]

\* The four cases of a piece.
LEMMA PieceCases ==
  ASSUME NEW s \in Text, NEW i \in 1..Len(s), NEW lo \in 1..(Len(codes) + 1),
         NEW hi \in 0..Len(codes)
  PROVE  \/ \E k \in 2..(lo - 1) : /\ k \in 1..Len(codes) /\ k # 1
                                   /\ EntityAt(s, codes[k], i)
                                   /\ Piece(s, i, lo, hi) = <<codes[k].src>>
         \/ \E k \in 2..(lo - 1) : /\ k \in 1..Len(codes)
                                   /\ EntityAt(s, codes[k], i - 1) /\ i - 1 \in 1..Len(s)
                                   /\ s[i] = codes[k].name
                                   /\ ~Spelt(s, i, lo - 1)
                                   /\ Piece(s, i, lo, hi) = <<>>
         \/ \E k \in lo..hi : /\ k \in 1..Len(codes) /\ s[i] = codes[k].src
                              /\ ~Spelt(s, i, lo - 1) /\ ~Spelt(s, i - 1, lo - 1)
                              /\ Piece(s, i, lo, hi) = <<"&", codes[k].name>>
         \/ /\ ~Spelt(s, i, lo - 1) /\ ~Spelt(s, i - 1, lo - 1) /\ ~Coded(s[i], lo, hi)
            /\ Piece(s, i, lo, hi) = <<s[i]>> /\ s[i] \in Tokens
<1> DEFINE P == Piece(s, i, lo, hi)
           N == Len(codes)
<1>1. N \in Nat \ {0} /\ Len(s) \in Nat
  BY CodesFacts, TextFacts
<1>2. \A c \in 1..N : Name(codes[c].src) = codes[c].name /\ Src(codes[c].name) = codes[c].src
  BY CodesFacts
<1>3. \A k \in 2..(lo - 1) : k \in 1..N /\ k # 1
  BY <1>1
<1>4. \A k \in lo..hi : k \in 1..N
  BY <1>1
<1>5. P = IF Spelt(s, i, lo - 1) THEN <<Src(s[i + 1])>>
          ELSE IF Spelt(s, i - 1, lo - 1) THEN <<>>
          ELSE IF Coded(s[i], lo, hi) THEN <<"&", Name(s[i])>> ELSE <<s[i]>>
  BY DEF Piece
<1> HIDE DEF P
<1>6. CASE Spelt(s, i, lo - 1)
  <2>1. PICK k \in 2..(lo - 1) : EntityAt(s, codes[k], i)
    BY <1>6 DEF Spelt
  <2>2. s[i + 1] = codes[k].name
    BY <2>1 DEF EntityAt
  <2>3. P = <<codes[k].src>>
    BY <2>2, <1>2, <1>3, <1>5, <1>6
  <2>4. QED
    BY <2>1, <2>3, <1>3 DEF P
<1>7. CASE ~Spelt(s, i, lo - 1) /\ Spelt(s, i - 1, lo - 1)
  <2>1. PICK k \in 2..(lo - 1) : EntityAt(s, codes[k], i - 1)
    BY <1>7 DEF Spelt
  <2>2. i - 1 \in 1..Len(s) /\ s[(i - 1) + 1] = codes[k].name /\ (i - 1) + 1 = i
    BY <2>1, <1>1 DEF EntityAt
  <2>3. P = <<>>
    BY <1>5, <1>7
  <2>4. QED
    BY <2>1, <2>2, <2>3, <1>3, <1>7 DEF P
<1>8. CASE ~Spelt(s, i, lo - 1) /\ ~Spelt(s, i - 1, lo - 1) /\ Coded(s[i], lo, hi)
  <2>1. PICK k \in lo..hi : codes[k].src = s[i]
    BY <1>8 DEF Coded
  <2>2. P = <<"&", codes[k].name>>
    BY <2>1, <1>2, <1>4, <1>5, <1>8
  <2>3. QED
    BY <2>1, <2>2, <1>4, <1>8 DEF P
<1>9. CASE ~Spelt(s, i, lo - 1) /\ ~Spelt(s, i - 1, lo - 1) /\ ~Coded(s[i], lo, hi)
  <2>1. P = <<s[i]>> /\ s[i] \in Tokens
    BY <1>5, <1>9, TextFacts
  <2>2. QED
    BY <2>1, <1>9 DEF P
<1>10. QED
  BY <1>6, <1>7, <1>8, <1>9

\* The pieces of a text are texts, one for each of its tokens.
LEMMA PiecesFacts ==
  ASSUME NEW s \in Text, NEW lo \in 1..(Len(codes) + 1), NEW hi \in 0..Len(codes)
  PROVE  /\ Pieces(s, lo, hi) \in Seq(Text) /\ Len(Pieces(s, lo, hi)) = Len(s)
         /\ \A i \in 1..Len(s) : Pieces(s, lo, hi)[i] = Piece(s, i, lo, hi)
<1> DEFINE P == Pieces(s, lo, hi)
<1>1. \A i \in 1..Len(s) : Piece(s, i, lo, hi) \in Text
  <2> TAKE i \in 1..Len(s)
  <2>1. \/ Piece(s, i, lo, hi) = <<>>
        \/ \E a \in Tokens : Piece(s, i, lo, hi) = <<a>>
        \/ \E a, b \in Tokens : Piece(s, i, lo, hi) = <<a, b>>
    <3>1. \A k \in 1..Len(codes) : codes[k].src \in Tokens /\ codes[k].name \in Tokens
      BY CodesFacts
    <3>2. "&" \in Tokens
      BY CodesFacts
    <3>3. QED
      BY <3>1, <3>2, PieceCases
  <2>2. QED
    BY <2>1, TextFacts, ShortTexts
<1>2. P = [i \in 1..Len(s) |-> Piece(s, i, lo, hi)] /\ Len(s) \in Nat
  BY TextFacts DEF Pieces
<1>3. P \in [1..Len(s) -> Text]
  BY <1>1, <1>2
<1>4. P \in Seq(Text) /\ Len(P) = Len(s)
  BY <1>2, <1>3, SeqDef
<1>5. QED
  BY <1>2, <1>4

\* Functions as sequences of texts.
LEMMA TextSeq ==
  ASSUME NEW n \in Nat, NEW r \in [1..n -> Text]
  PROVE  r \in Seq(Text) /\ Len(r) = n
BY SeqDef

\* The pieces of the tokens that replace_all writes are texts.
LEMMA SrcPieces ==
  ASSUME NEW t \in Text, NEW k \in 1..Len(codes),
         NEW r, r = [j \in 1..Len(t) |-> IF t[j] = codes[k].src THEN <<"&", codes[k].name>> ELSE <<t[j]>>]
  PROVE  /\ r \in Seq(Text) /\ Len(r) = Len(t)
         /\ \A j \in 1..Len(t) :
              r[j] = IF t[j] = codes[k].src THEN <<"&", codes[k].name>> ELSE <<t[j]>>
<1>1. "&" \in Tokens /\ codes[k].name \in Tokens
  BY CodesFacts
<1>2. Len(t) \in Nat /\ \A j \in 1..Len(t) : t[j] \in Tokens
  BY TextFacts
<1>3. <<"&", codes[k].name>> \in Text
  BY <1>1, ShortTexts
<1>4. \A j \in 1..Len(t) : <<t[j]>> \in Text
  BY <1>2, ShortTexts
<1>5. r \in [1..Len(t) -> Text]
  BY <1>3, <1>4
<1>6. r \in Seq(Text) /\ Len(r) = Len(t)
  BY <1>2, <1>5, TextSeq
<1>7. QED
  BY <1>6

\* What replace_all makes of the tokens of t when it looks for the entity of c.
Rewritten(t, c) ==
  [j \in 1..Len(t) |-> IF EntityAt(t, c, j) THEN <<c.src>>
                       ELSE IF EntityAt(t, c, j - 1) THEN <<>> ELSE <<t[j]>>]

RewrittenAs(t, c, r) ==
  \A j \in 1..Len(t) :
    /\ EntityAt(t, c, j) => r[j] = <<c.src>>
    /\ ~EntityAt(t, c, j) /\ EntityAt(t, c, j - 1) => r[j] = <<>>
    /\ ~EntityAt(t, c, j) /\ ~EntityAt(t, c, j - 1) => r[j] = <<t[j]>>

\* What replace_all writes for an entity are texts.
LEMMA EntityPieces ==
  ASSUME NEW t \in Text, NEW k \in 1..Len(codes)
  PROVE  /\ Rewritten(t, codes[k]) \in Seq(Text)
         /\ Len(Rewritten(t, codes[k])) = Len(t)
         /\ RewrittenAs(t, codes[k], Rewritten(t, codes[k]))
<1> DEFINE c == codes[k]
           r == Rewritten(t, c)
<1>1. c.src \in Tokens
  BY CodesFacts
<1>2. Len(t) \in Nat /\ \A j \in 1..Len(t) : t[j] \in Tokens
  BY TextFacts
<1>3. <<c.src>> \in Text /\ <<>> \in Text
  BY <1>1, ShortTexts, TextFacts
<1>4. \A j \in 1..Len(t) : <<t[j]>> \in Text
  BY <1>2, ShortTexts
<1> HIDE DEF c
<1>5. r \in [1..Len(t) -> Text] /\ RewrittenAs(t, c, r)
  BY <1>3, <1>4 DEF Rewritten, RewrittenAs
<1> HIDE DEF r
<1>6. r \in Seq(Text) /\ Len(r) = Len(t)
  BY <1>2, <1>5, TextSeq
<1>7. QED
  BY <1>5, <1>6 DEF r, c

\* What replace_all writes is a text again.
LEMMA ReplaceTypes ==
  ASSUME NEW t \in Text, NEW k \in 1..Len(codes)
  PROVE  ReplaceBySrc(t, codes[k]) \in Text /\ ReplaceByEntity(t, codes[k]) \in Text
<1>1. ASSUME NEW r \in Seq(Text) PROVE FlattenSeq(r) \in Text
  <2>1. PICK f : Joining(r, f)
    BY JoiningExists
  <2>2. FlattenSeq(r) = f[Len(r)]
    BY <2>1, FlattenIs
  <2>3. f \in [0..Len(r) -> Text] /\ Len(r) \in Nat
    BY <2>1, LenProperties DEF Joining
  <2>4. QED
    BY <2>2, <2>3
<1> DEFINE a == [j \in 1..Len(t) |-> IF t[j] = codes[k].src THEN <<"&", codes[k].name>> ELSE <<t[j]>>]
           b == Rewritten(t, codes[k])
<1>2. a \in Seq(Text)
  BY SrcPieces
<1>3. b \in Seq(Text)
  BY EntityPieces
<1>4. ReplaceBySrc(t, codes[k]) = FlattenSeq(a)
  BY DEF ReplaceBySrc
<1>5. ReplaceByEntity(t, codes[k]) = FlattenSeq(b)
  BY DEF ReplaceByEntity, Rewritten
<1> HIDE DEF a, b
<1>6. QED
  BY <1>1, <1>2, <1>3, <1>4, <1>5

\* One turn of Encode.
LEMMA EncodeTurn ==
  ASSUME NEW s \in Text, NEW m \in 0..(Len(codes) - 1)
  PROVE  ReplaceBySrc(FlattenSeq(Pieces(s, 1, m)), codes[m + 1])
           = FlattenSeq(Pieces(s, 1, m + 1))
<1> DEFINE N == Len(codes)
           n == Len(s)
           e == m + 1
           p == Pieces(s, 1, m)
           q == Pieces(s, 1, e)
           t == FlattenSeq(p)
           r == [j \in 1..Len(t) |-> IF t[j] = codes[e].src THEN <<"&", codes[e].name>> ELSE <<t[j]>>]
<1>1. N \in Nat \ {0} /\ n \in Nat /\ e \in 1..N /\ m \in 0..N /\ e \in 0..N /\ 1 \in 1..(N + 1)
  BY CodesFacts, TextFacts
<1> HIDE DEF e
<1>2. /\ p \in Seq(Text) /\ Len(p) = n /\ \A i \in 1..n : p[i] = Piece(s, i, 1, m)
      /\ q \in Seq(Text) /\ Len(q) = n /\ \A i \in 1..n : q[i] = Piece(s, i, 1, e)
  BY <1>1, PiecesFacts
<1>3. ReplaceBySrc(t, codes[e]) = FlattenSeq(r)
  BY DEF ReplaceBySrc
<1> HIDE DEF p, q
<1>4. PICK f : Joining(p, f)
  BY <1>2, JoiningExists
<1>5. t = f[n] /\ t \in Text
  <2>1. t = f[n] /\ f \in [0..n -> Text]
    BY <1>2, <1>4, FlattenIs DEF Joining
  <2>2. QED
    BY <2>1, <1>1
<1> HIDE DEF t
<1>6. /\ r \in Seq(Text) /\ Len(r) = Len(t)
      /\ \A j \in 1..Len(t) :
              r[j] = IF t[j] = codes[e].src THEN <<"&", codes[e].name>> ELSE <<t[j]>>
  BY <1>1, <1>5, SrcPieces
<1> HIDE DEF r
<1>7. \A c \in 1..N : /\ codes[c].name \in Tokens /\ codes[c].src \in Tokens
                      /\ codes[c].name # codes[e].src /\ codes[c].name # "&"
                      /\ (c # 1 => codes[c].src # "&")
                      /\ Name(codes[c].src) = codes[c].name
  BY <1>1, CodesFacts
<1>8. "&" \in Tokens
  BY CodesFacts
<1>9. ASSUME NEW i \in 1..n
      PROVE  \/ Len(p[i]) = 0 /\ q[i] = <<>>
             \/ Len(p[i]) = 1 /\ q[i] = r[Len(f[i - 1]) + 1]
             \/ Len(p[i]) = 2 /\ q[i] = r[Len(f[i - 1]) + 1] \o r[Len(f[i - 1]) + 2]
  <2> DEFINE o == Len(f[i - 1])
             P == p[i]
  <2>1. /\ f[i - 1] \in Text /\ Len(f[i]) = o + Len(P) /\ Len(f[i]) <= Len(t)
    BY <1>2, <1>4, <1>5, JoinedLen
  <2>a. i \in 1..Len(p)
    BY <1>2
  <2>2. /\ \A j \in 1..Len(P) : t[o + j] = P[j]
        /\ P \in Text
    <3>1. StandsIn(p, f, i) /\ p[i] \in Text
      BY <2>a, <1>2, <1>4, JoinedStands, JoinedAt
    <3>2. f[Len(p)] = t
      BY <1>2, <1>5
    <3>3. QED
      BY <3>1, <3>2 DEF StandsIn
  <2>3. o \in Nat /\ Len(t) \in Nat
    BY <2>1, <1>5, TextFacts
  <2>4. 1 - 1 = 0 /\ 2..0 = {}
    OBVIOUS
  <2>5. ~Spelt(s, i, 1 - 1) /\ ~Spelt(s, i - 1, 1 - 1)
    BY <2>4 DEF Spelt
  <2>6. q[i] = IF Coded(s[i], 1, e) THEN <<"&", Name(s[i])>> ELSE <<s[i]>>
    BY <2>5, <1>2 DEF Piece
  <2>7. P = IF Coded(s[i], 1, m) THEN <<"&", Name(s[i])>> ELSE <<s[i]>>
    BY <2>5, <1>2 DEF Piece
  <2>8. s[i] \in Tokens
    BY TextFacts
  <2>9. Coded(s[i], 1, e) <=> Coded(s[i], 1, m) \/ s[i] = codes[e].src
    <3>1. \A c : c \in 1..e <=> c \in 1..m \/ c = e
      BY <1>1 DEF e
    <3>2. QED
      BY <3>1 DEF Coded
  <2> HIDE DEF o, P
  <2>10. CASE Coded(s[i], 1, m)
    <3>1. PICK k \in 1..m : s[i] = codes[k].src
      BY <2>10 DEF Coded
    <3>2. k \in 1..N /\ e # 1
      BY <1>1 DEF e
    <3> DEFINE w == codes[k].name
    <3>3. w \in Tokens /\ Name(s[i]) = w /\ w # codes[e].src /\ codes[e].src # "&"
      BY <3>1, <3>2, <1>1, <1>7
    <3>4. P = <<"&", w>> /\ q[i] = <<"&", w>>
      BY <3>3, <2>6, <2>7, <2>9, <2>10
    <3> HIDE DEF w
    <3>5. Len(P) = 2 /\ P[1] = "&" /\ P[2] = w
      BY <3>3, <3>4, <1>8, ShortTexts
    <3>6. t[o + 1] = "&" /\ t[o + 2] = w /\ o + 1 \in 1..Len(t) /\ o + 2 \in 1..Len(t)
      <4>1. 1 \in 1..Len(P) /\ 2 \in 1..Len(P)
        BY <3>5
      <4>2. t[o + 1] = P[1] /\ t[o + 2] = P[2]
        BY <4>1, <2>2
      <4>3. o + 1 \in 1..Len(t) /\ o + 2 \in 1..Len(t)
        BY <3>5, <2>1, <2>3
      <4>4. QED
        BY <4>2, <4>3, <3>5
    <3>7. r[o + 1] = <<"&">> /\ r[o + 2] = <<w>>
      BY <3>3, <3>6, <1>6
    <3>8. r[o + 1] \o r[o + 2] = <<"&", w>>
      <4>1. <<"&">> \o <<w>> = <<"&", w>>
        BY <3>3, <1>8, ShortTexts
      <4>2. QED
        BY <4>1, <3>7
    <3>9. QED
      BY <3>4, <3>5, <3>8 DEF P, o
  <2>11. CASE ~Coded(s[i], 1, m)
    <3>1. P = <<s[i]>>
      BY <2>7, <2>11
    <3>2. Len(P) = 1 /\ P[1] = s[i] /\ 1 \in 1..Len(P)
      BY <3>1, <2>8, ShortTexts
    <3>3. t[o + 1] = s[i]
      BY <3>2, <2>2
    <3>4. o + 1 \in 1..Len(t)
      BY <3>2, <2>1, <2>3
    <3>5. r[o + 1] = IF s[i] = codes[e].src THEN <<"&", codes[e].name>> ELSE <<s[i]>>
      BY <3>3, <3>4, <1>6
    <3>6. q[i] = r[o + 1]
      BY <3>5, <2>6, <2>9, <2>11, <1>1, <1>7
    <3>7. QED
      BY <3>2, <3>6 DEF P, o
  <2>12. QED
    BY <2>10, <2>11
<1>10. FlattenSeq(r) = FlattenSeq(q)
  <2>1. Len(q) = Len(p) /\ Len(r) = Len(f[Len(p)])
    BY <1>2, <1>5, <1>6
  <2>2. \A i \in 1..Len(p) :
           \/ Len(p[i]) = 0 /\ q[i] = <<>>
           \/ Len(p[i]) = 1 /\ q[i] = r[Len(f[i - 1]) + 1]
           \/ Len(p[i]) = 2 /\ q[i] = r[Len(f[i - 1]) + 1] \o r[Len(f[i - 1]) + 2]
    BY <1>2, <1>9
  <2>3. p \in Seq(Text) /\ q \in Seq(Text) /\ r \in Seq(Text)
    BY <1>2, <1>6
  <2>4. QED
    BY <2>1, <2>2, <2>3, <1>4, JoinRewritten
<1>11. QED
  BY <1>3, <1>10 DEF t, p, q, e

\* Entities spelt out: "&" and a name.
LEMMA SpeltFacts ==
  ASSUME NEW s \in Text, NEW m \in 0..Len(codes), NEW i \in Int, Spelt(s, i, m)
  PROVE  /\ i \in 1..Len(s) /\ i + 1 \in 1..Len(s) /\ s[i] = "&" /\ m >= 2
         /\ \E c \in 1..Len(codes) : s[i + 1] = codes[c].name
<1>1. PICK c \in 2..m : EntityAt(s, codes[c], i)
  BY DEF Spelt
<1>2. Len(codes) \in Nat /\ Len(s) \in Nat
  BY CodesFacts, TextFacts
<1>3. i \in 1..(Len(s) - 1) /\ s[i] = "&" /\ s[i + 1] = codes[c].name
  BY <1>1 DEF EntityAt
<1>4. c \in 1..Len(codes) /\ m >= 2
  BY <1>2
<1>5. i \in 1..Len(s) /\ i + 1 \in 1..Len(s)
  BY <1>2, <1>3
<1>6. QED
  BY <1>3, <1>4, <1>5

\* One more entry.
LEMMA SpeltNext ==
  ASSUME NEW s, NEW m \in 0..(Len(codes) - 1), NEW i
  PROVE  Spelt(s, i, m + 1) <=> Spelt(s, i, m) \/ (m # 0 /\ EntityAt(s, codes[m + 1], i))
<1>1. \A c : c \in 2..(m + 1) <=> c \in 2..m \/ (m # 0 /\ c = m + 1)
  BY CodesFacts
<1>2. QED
  BY <1>1 DEF Spelt

\* While the entries from lo on are encoded, the pieces that are "&" are the
\* "&" of the text that belong to no entity decoded so far.
LEMMA PieceIsAmp ==
  ASSUME NEW s \in Text, NEW m \in 0..(Len(codes) - 1), NEW i \in 1..Len(s)
  PROVE  Piece(s, i, m + 1, Len(codes)) = <<"&">> <=> s[i] = "&" /\ ~Spelt(s, i, m) /\ m # 0
<1> DEFINE N == Len(codes)
           P == Piece(s, i, m + 1, N)
<1>1. /\ N \in Nat \ {0} /\ Len(s) \in Nat /\ (m + 1) - 1 = m /\ m + 1 \in 1..(N + 1)
      /\ N \in 0..N /\ m \in 0..N
  BY CodesFacts, TextFacts
<1>2. /\ \A c \in 1..N : codes[c].src \in Tokens /\ codes[c].name \in Tokens
                         /\ (c # 1 => codes[c].src # "&") /\ codes[c].name # "&"
      /\ "&" \in Tokens /\ codes[1].src = "&"
  BY CodesFacts
<1>3. \A a, b \in Tokens : <<a>> # <<>> /\ <<a, b>> # <<"&">> /\ (<<a>> = <<"&">> <=> a = "&")
  BY <1>2, ShortTexts
<1> HIDE DEF P
<1>4. ASSUME P = <<"&">> PROVE s[i] = "&" /\ ~Spelt(s, i, m) /\ m # 0
  <2>1. ~Spelt(s, i, m) /\ ~Coded(s[i], m + 1, N) /\ P = <<s[i]>> /\ s[i] \in Tokens
    <3>1. \/ \E k \in 1..N : k # 1 /\ P = <<codes[k].src>>
          \/ P = <<>>
          \/ \E k \in 1..N : P = <<"&", codes[k].name>>
          \/ ~Spelt(s, i, m) /\ ~Coded(s[i], m + 1, N) /\ P = <<s[i]>> /\ s[i] \in Tokens
      <4>1. \/ \E k \in 2..m : k \in 1..N /\ k # 1 /\ P = <<codes[k].src>>
            \/ P = <<>>
            \/ \E k \in (m + 1)..N : k \in 1..N /\ P = <<"&", codes[k].name>>
            \/ ~Spelt(s, i, m) /\ ~Coded(s[i], m + 1, N) /\ P = <<s[i]>> /\ s[i] \in Tokens
        BY <1>1, PieceCases DEF P
      <4>2. QED
        BY <4>1
    <3>2. \A k \in 1..N : (k # 1 => P # <<codes[k].src>>) /\ P # <<"&", codes[k].name>>
      BY <1>2, <1>3, <1>4
    <3>3. P # <<>>
      BY <1>2, <1>3, <1>4
    <3>4. QED
      BY <3>1, <3>2, <3>3
  <2>2. s[i] = "&"
    BY <2>1, <1>3, <1>4
  <2>3. m # 0
    <3>1. SUFFICES ASSUME m = 0 PROVE FALSE
      OBVIOUS
    <3>2. 1 \in (m + 1)..N
      BY <3>1, <1>1
    <3>3. QED
      BY <3>2, <2>1, <2>2, <1>2 DEF Coded
  <2>4. QED
    BY <2>1, <2>2, <2>3
<1>5. ASSUME s[i] = "&", ~Spelt(s, i, m), m # 0 PROVE P = <<"&">>
  <2>1. ~Spelt(s, i - 1, m)
    <3>1. SUFFICES ASSUME Spelt(s, i - 1, m) PROVE FALSE
      OBVIOUS
    <3>2. i - 1 \in Int /\ (i - 1) + 1 = i
      BY <1>1
    <3>3. \E c \in 1..N : s[i] = codes[c].name
      BY <3>1, <3>2, <1>1, SpeltFacts
    <3>4. QED
      BY <3>3, <1>2, <1>5
  <2>2. ~Coded(s[i], m + 1, N)
    <3>1. \A c \in (m + 1)..N : c \in 1..N /\ c # 1
      BY <1>1, <1>5
    <3>2. QED
      BY <3>1, <1>2, <1>5 DEF Coded
  <2>3. QED
    BY <2>1, <2>2, <1>1, <1>5 DEF P, Piece
<1>6. QED
  BY <1>4, <1>5 DEF P

\* Whether a text ends with "&".
Ends(x) == Len(x) > 0 /\ x[Len(x)] = "&"

\* A concatenation ends as its last part does.
LEMMA EndsConcat ==
  ASSUME NEW x \in Text, NEW y \in Text, Len(y) # 0
  PROVE  Ends(x \o y) <=> Ends(y)
<1> DEFINE a == Len(x)
           b == Len(y)
           u == x \o y
<1>1. a \in Nat /\ b \in Nat /\ Len(u) = a + b
  BY TextFacts
<1>2. b \in 1..b
  BY <1>1
<1>3. u[a + b] = y[b]
  BY <1>2, TextAt
<1>4. b # 0
  OBVIOUS
<1>5. Ends(u) <=> Len(u) > 0 /\ u[Len(u)] = "&"
  BY DEF Ends
<1>6. Ends(y) <=> b > 0 /\ y[b] = "&"
  BY DEF Ends
<1> HIDE DEF a, b, u
<1>7. Ends(u) <=> Ends(y)
  BY <1>1, <1>3, <1>4, <1>5, <1>6
<1>8. QED
  BY <1>7 DEF u

\* Where the pieces joined so far end with "&".
LEMMA EndsShort ==
  /\ \A a \in Tokens : Len(<<a>>) # 0 /\ <<a>> \in Text /\ (Ends(<<a>>) <=> a = "&")
  /\ \A a, b \in Tokens : /\ Len(<<a, b>>) # 0 /\ <<a, b>> \in Text
                           /\ (Ends(<<a, b>>) <=> b = "&")
<1>1. ASSUME NEW a \in Tokens
      PROVE  Len(<<a>>) # 0 /\ <<a>> \in Text /\ (Ends(<<a>>) <=> a = "&")
  <2>1. Len(<<a>>) = 1 /\ <<a>>[1] = a /\ <<a>> \in Text
    BY ShortTexts
  <2>2. QED
    BY <2>1 DEF Ends
<1>2. ASSUME NEW a \in Tokens, NEW b \in Tokens
      PROVE  Len(<<a, b>>) # 0 /\ <<a, b>> \in Text /\ (Ends(<<a, b>>) <=> b = "&")
  <2>1. Len(<<a, b>>) = 2 /\ <<a, b>>[2] = b /\ <<a, b>> \in Text
    BY ShortTexts
  <2>2. QED
    BY <2>1 DEF Ends
<1>3. QED
  BY <1>1, <1>2

\* The text joined so far ends in an ampersand if its last piece is one.
LEMMA JoinedEnds ==
  ASSUME NEW s \in Text, NEW m \in 0..(Len(codes) - 1), NEW f,
         Joining(Pieces(s, m + 1, Len(codes)), f), NEW i \in 1..Len(s)
  PROVE  Ends(f[i]) <=> Piece(s, i, m + 1, Len(codes)) = <<"&">>
<1> DEFINE N == Len(codes)
           n == Len(s)
           p == Pieces(s, m + 1, N)
<1>1. /\ N \in Nat \ {0} /\ n \in Nat /\ (m + 1) - 1 = m /\ m + 1 \in 1..(N + 1)
      /\ N \in 0..N /\ m \in 0..N
  <2>1. N \in Nat \ {0} /\ n \in Nat
    BY CodesFacts, TextFacts
  <2>2. m \in 0..(N - 1)
    OBVIOUS
  <2> HIDE DEF N, n
  <2>3. QED
    BY <2>1, <2>2
<1>2. /\ \A c \in 1..N : codes[c].src \in Tokens /\ codes[c].name \in Tokens
                         /\ (c # 1 => codes[c].src # "&") /\ codes[c].name # "&"
      /\ "&" \in Tokens
  BY CodesFacts
<1>3. p \in Seq(Text) /\ Len(p) = n /\ \A j \in 1..n : p[j] = Piece(s, j, m + 1, N)
  BY <1>1, PiecesFacts
<1>4. /\ \A a \in Tokens : Len(<<a>>) # 0 /\ <<a>> \in Text /\ (Ends(<<a>>) <=> a = "&")
      /\ \A a, b \in Tokens : Len(<<a, b>>) # 0 /\ <<a, b>> \in Text /\ (Ends(<<a, b>>) <=> b = "&")
  BY EndsShort
<1>5. \A a, b \in Tokens : (<<a>> = <<"&">> <=> a = "&") /\ <<a, b>> # <<"&">> /\ <<a>> # <<>>
  BY <1>2, ShortTexts
<1>6. Joining(p, f)
  OBVIOUS
<1> HIDE DEF p
<1>7. ASSUME NEW j \in 1..n
      PROVE  f[j - 1] \in Text /\ p[j] \in Text /\ f[j] = f[j - 1] \o p[j]
  BY <1>3, <1>6, JoinedAt DEF Joining
<1>8. ASSUME NEW j \in 1..n, NEW x \in Text, p[j] = x, Len(x) # 0
      PROVE  Ends(f[j]) <=> Ends(x)
  <2> DEFINE a == f[j - 1]
  <2>1. a \in Text /\ f[j] = a \o x
    BY <1>7, <1>8
  <2> HIDE DEF a
  <2>2. Ends(a \o x) <=> Ends(x)
    BY <2>1, <1>8, EndsConcat
  <2>3. QED
    BY <2>1, <2>2
<1> DEFINE P == Piece(s, i, m + 1, N)
<1>9. \/ \E k \in 1..N : k # 1 /\ P = <<codes[k].src>>
      \/ /\ P = <<>>
         /\ \E k \in 2..m : EntityAt(s, codes[k], i - 1) /\ i - 1 \in 1..n
      \/ \E k \in 1..N : P = <<"&", codes[k].name>>
      \/ P = <<s[i]>> /\ s[i] \in Tokens
  <2>1. \/ \E k \in 2..m : k \in 1..N /\ k # 1 /\ P = <<codes[k].src>>
        \/ \E k \in 2..m : EntityAt(s, codes[k], i - 1) /\ i - 1 \in 1..n /\ P = <<>>
        \/ \E k \in (m + 1)..N : k \in 1..N /\ P = <<"&", codes[k].name>>
        \/ P = <<s[i]>> /\ s[i] \in Tokens
    BY <1>1, PieceCases
  <2>2. QED
    BY <2>1
<1>10. p[i] = P
  BY <1>3
<1> HIDE DEF P
<1>11. ASSUME NEW k \in 1..N, k # 1, P = <<codes[k].src>> PROVE Ends(f[i]) <=> P = <<"&">>
  <2>1. codes[k].src \in Tokens /\ codes[k].src # "&"
    BY <1>2, <1>11
  <2>2. Ends(f[i]) <=> Ends(<<codes[k].src>>)
    BY <2>1, <1>4, <1>8, <1>10, <1>11
  <2>3. QED
    BY <2>1, <2>2, <1>4, <1>5, <1>11
<1>12. ASSUME NEW k \in 1..N, P = <<"&", codes[k].name>> PROVE Ends(f[i]) <=> P = <<"&">>
  <2>1. codes[k].name \in Tokens /\ codes[k].name # "&"
    BY <1>2
  <2>2. Ends(f[i]) <=> Ends(<<"&", codes[k].name>>)
    <3> DEFINE x == <<"&", codes[k].name>>
    <3>1. x \in Text /\ Len(x) # 0 /\ p[i] = x
      BY <2>1, <1>2, <1>4, <1>10, <1>12
    <3> HIDE DEF x
    <3>2. Ends(f[i]) <=> Ends(x)
      BY <3>1, <1>8
    <3>3. QED
      BY <3>2 DEF x
  <2>3. QED
    BY <2>1, <2>2, <1>2, <1>4, <1>5, <1>12
<1>13. ASSUME P = <<s[i]>>, s[i] \in Tokens PROVE Ends(f[i]) <=> P = <<"&">>
  <2>1. Ends(f[i]) <=> Ends(<<s[i]>>)
    <3> DEFINE x == <<s[i]>>
    <3>1. x \in Text /\ Len(x) # 0 /\ p[i] = x
      BY <1>4, <1>10, <1>13
    <3> HIDE DEF x
    <3>2. Ends(f[i]) <=> Ends(x)
      BY <3>1, <1>8
    <3>3. QED
      BY <3>2 DEF x
  <2>2. QED
    BY <2>1, <1>4, <1>5, <1>13
<1>14. ASSUME P = <<>>, NEW c \in 2..m, EntityAt(s, codes[c], i - 1), i - 1 \in 1..n
       PROVE  Ends(f[i]) <=> P = <<"&">>
  <2> DEFINE h == i - 1
             Q == Piece(s, h, m + 1, N)
  <2>1. f[i] = f[h]
    <3>1. f[h] \in Text /\ f[i] = f[h] \o <<>>
      BY <1>7, <1>10, <1>14
    <3>2. QED
      BY <3>1, TextFacts
  <2>2. h \in 1..n
    BY <1>14
  <2>3. Spelt(s, h, m)
    BY <1>14 DEF Spelt
  <2> HIDE DEF h
  <2>4. PICK k \in 1..N : k # 1 /\ Q = <<codes[k].src>>
    <3>1. \E k \in 2..m : k \in 1..N /\ k # 1 /\ Q = <<codes[k].src>>
      <4> DEFINE lo == m + 1
      <4>1. lo \in 1..(N + 1) /\ lo - 1 = m
        BY <1>1
      <4>2. Q = Piece(s, h, lo, N)
        OBVIOUS
      <4> HIDE DEF lo, Q
      <4>3. Spelt(s, h, lo - 1)
        BY <4>1, <2>3
      <4>4. \E k \in 2..(lo - 1) : k \in 1..N /\ k # 1 /\ Piece(s, h, lo, N) = <<codes[k].src>>
        BY <4>1, <4>3, <2>2, <1>1, PieceCases
      <4>5. QED
        BY <4>1, <4>2, <4>4
    <3>2. QED
      BY <3>1
  <2>5. codes[k].src \in Tokens /\ codes[k].src # "&"
    BY <2>4, <1>2
  <2>6. p[h] = Q
    BY <2>2, <1>3
  <2>7. Ends(f[h]) <=> Ends(<<codes[k].src>>)
    BY <2>2, <2>4, <2>5, <2>6, <1>4, <1>8
  <2>8. ~Ends(f[i])
    BY <2>1, <2>5, <2>7, <1>4
  <2>9. P # <<"&">>
    BY <1>2, <1>5, <1>14
  <2>10. QED
    BY <2>8, <2>9
<1>15. QED
  BY <1>9, <1>11, <1>12, <1>13, <1>14 DEF P

\* Where an "&" of the text that is still there is followed by a name.
LEMMA NextName ==
  ASSUME NEW s \in Text, NEW m \in 0..(Len(codes) - 1), NEW f,
         Joining(Pieces(s, m + 1, Len(codes)), f), NEW i \in 1..Len(s),
         Piece(s, i, m + 1, Len(codes)) = <<"&">>, NEW t, t = f[Len(s)]
  PROVE  EntityAt(t, codes[m + 1], Len(f[i - 1]) + 1) <=> EntityAt(s, codes[m + 1], i)
<1> DEFINE N == Len(codes)
           n == Len(s)
           lo == m + 1
           p == Pieces(s, lo, N)
           o == Len(f[i - 1])
<1>1. /\ N \in Nat \ {0} /\ n \in Nat /\ lo - 1 = m /\ lo \in 1..(N + 1) /\ lo \in 1..N
      /\ N \in 0..N /\ m \in 0..N
  <2>1. N \in Nat \ {0} /\ n \in Nat
    BY CodesFacts, TextFacts
  <2>2. m \in 0..(N - 1)
    OBVIOUS
  <2> HIDE DEF N, n
  <2>3. QED
    BY <2>1, <2>2
<1>2. /\ \A c \in 1..N : codes[c].src \in Tokens /\ codes[c].name \in Tokens
      /\ \A c \in 1..N : codes[c].src # codes[lo].name
      /\ codes[lo].name # "&"
      /\ "&" \in Tokens
  BY <1>1, CodesFacts
<1>3. p \in Seq(Text) /\ Len(p) = n /\ \A j \in 1..n : p[j] = Piece(s, j, lo, N)
  BY <1>1, PiecesFacts
<1>4. s[i] = "&" /\ ~Spelt(s, i, lo - 1)
  BY <1>1, PieceIsAmp
<1>5. Joining(p, f) /\ p[i] = <<"&">> /\ t = f[n] /\ i \in 1..n
  BY <1>3
<1> HIDE DEF p, lo, n
<1>6. \A j \in 1..n : /\ f[j - 1] \in Text
                      /\ Len(f[j]) = Len(f[j - 1]) + Len(p[j]) /\ Len(f[j]) <= Len(t)
  BY <1>3, <1>5, JoinedLen
<1>7. Len(p[i]) = 1 /\ p[i][1] = "&"
  BY <1>2, <1>5, ShortTexts
<1>8. o \in Nat /\ Len(f[i]) = o + 1 /\ Len(f[i]) <= Len(t)
  BY <1>5, <1>6, <1>7, TextFacts
<1>9. t \in Text /\ Len(t) \in Nat
  <2>1. f \in [0..n -> Text]
    BY <1>3, <1>5 DEF Joining
  <2>2. QED
    BY <2>1, <1>1, <1>5, TextFacts
<1>10. ASSUME NEW j \in 1..n, NEW k \in 1..Len(p[j])
       PROVE  t[Len(f[j - 1]) + k] = p[j][k]
  <2>1. j \in 1..Len(p) /\ f[Len(p)] = t
    BY <1>3, <1>5
  <2>2. StandsIn(p, f, j)
    BY <2>1, <1>3, <1>5, JoinedStands
  <2>3. QED
    BY <2>1, <2>2 DEF StandsIn
<1>11. t[o + 1] = "&"
  <2>1. 1 \in 1..Len(p[i])
    BY <1>7
  <2>2. QED
    BY <2>1, <1>5, <1>7, <1>10
<1> HIDE DEF o
<1>12. EntityAt(t, codes[lo], o + 1) <=> o + 1 \in 1..(Len(t) - 1) /\ t[(o + 1) + 1] = codes[lo].name
  BY <1>11 DEF EntityAt
<1>13. EntityAt(s, codes[lo], i) <=> i \in 1..(n - 1) /\ s[i + 1] = codes[lo].name
  BY <1>4 DEF EntityAt, n
<1>14. CASE i = n
  <2>1. Len(t) = o + 1
    BY <1>5, <1>8, <1>14
  <2>2. ~(o + 1 \in 1..(Len(t) - 1)) /\ ~(i \in 1..(n - 1))
    BY <2>1, <1>1, <1>8, <1>14
  <2>3. QED
    BY <2>2, <1>12, <1>13 DEF o, lo
<1>15. CASE i # n
  <2> DEFINE h == i + 1
             Q == Piece(s, h, lo, N)
  <2>1. h \in 1..n /\ i \in 1..(n - 1) /\ h - 1 = i
    BY <1>1, <1>5, <1>15
  <2>2. p[h] = Q
    BY <2>1, <1>3
  <2>3. \/ \E k \in 1..N : Q = <<codes[k].src>> /\ s[h] = "&"
        \/ \E k \in 1..N : Q = <<"&", codes[k].name>> /\ s[h] = codes[k].src
        \/ Q = <<s[h]>> /\ s[h] \in Tokens
    <3>1. ~Spelt(s, h - 1, lo - 1)
      BY <2>1, <1>4
    <3>2. h \in 1..Len(s)
      BY <2>1 DEF n
    <3> HIDE DEF h
    <3>3. \/ \E k \in 2..(lo - 1) : k \in 1..N /\ EntityAt(s, codes[k], h) /\ Q = <<codes[k].src>>
          \/ \E k \in 2..(lo - 1) : EntityAt(s, codes[k], h - 1)
          \/ \E k \in lo..N : k \in 1..N /\ s[h] = codes[k].src /\ Q = <<"&", codes[k].name>>
          \/ Q = <<s[h]>> /\ s[h] \in Tokens
      BY <3>2, <1>1, PieceCases
    <3>4. ~\E k \in 2..(lo - 1) : EntityAt(s, codes[k], h - 1)
      BY <3>1 DEF Spelt
    <3>5. \A k : EntityAt(s, codes[k], h) => s[h] = "&"
      BY DEF EntityAt
    <3>6. QED
      BY <3>3, <3>4, <3>5
  <2> HIDE DEF Q
  <2>4. /\ Len(p[h]) \in Nat /\ Len(p[h]) >= 1
        /\ p[h][1] = codes[lo].name <=> s[h] = codes[lo].name
    <3>1. ASSUME NEW k \in 1..N, Q = <<codes[k].src>>, s[h] = "&"
          PROVE  Len(Q) = 1 /\ (Q[1] = codes[lo].name <=> s[h] = codes[lo].name)
      <4>1. Len(Q) = 1 /\ Q[1] = codes[k].src
        BY <3>1, <1>2, ShortTexts
      <4>2. QED
        BY <4>1, <3>1, <1>2
    <3>2. ASSUME NEW k \in 1..N, Q = <<"&", codes[k].name>>, s[h] = codes[k].src
          PROVE  Len(Q) = 2 /\ (Q[1] = codes[lo].name <=> s[h] = codes[lo].name)
      <4>1. Len(Q) = 2 /\ Q[1] = "&"
        BY <3>2, <1>2, ShortTexts
      <4>2. QED
        BY <4>1, <3>2, <1>2
    <3>3. ASSUME Q = <<s[h]>>, s[h] \in Tokens
          PROVE  Len(Q) = 1 /\ (Q[1] = codes[lo].name <=> s[h] = codes[lo].name)
      <4>1. Len(Q) = 1 /\ Q[1] = s[h]
        BY <3>3, ShortTexts
      <4>2. QED
        BY <4>1
    <3>4. (Len(Q) = 1 \/ Len(Q) = 2) /\ (Q[1] = codes[lo].name <=> s[h] = codes[lo].name)
      BY <2>3, <3>1, <3>2, <3>3
    <3>5. QED
      BY <3>4, <2>2
  <2>5. t[(o + 1) + 1] = p[h][1]
    <3>1. 1 \in 1..Len(p[h])
      BY <2>4
    <3>2. t[Len(f[h - 1]) + 1] = p[h][1]
      BY <3>1, <2>1, <1>10
    <3>3. QED
      BY <3>2, <2>1, <1>8
  <2>6. o + 1 \in 1..(Len(t) - 1)
    <3>1. Len(f[h]) = Len(f[h - 1]) + Len(p[h]) /\ Len(f[h]) <= Len(t)
      BY <2>1, <1>6
    <3>2. Len(f[h - 1]) = o + 1
      BY <2>1, <1>8
    <3> DEFINE a == Len(p[h])
               b == Len(t)
               d == Len(f[h])
    <3>3. a \in Nat /\ a >= 1 /\ b \in Nat /\ d = (o + 1) + a /\ d <= b
      BY <3>1, <3>2, <2>4, <1>9
    <3> HIDE DEF a, b, d
    <3>4. o + 1 \in 1..(b - 1)
      BY <3>3, <1>8
    <3>5. QED
      BY <3>4 DEF b
  <2>7. EntityAt(t, codes[lo], o + 1) <=> EntityAt(s, codes[lo], i)
    BY <2>1, <2>4, <2>5, <2>6, <1>12, <1>13
  <2>8. QED
    BY <2>7 DEF o, lo
<1>16. QED
  BY <1>14, <1>15

\* P is the piece at i of the text s, and it stands in t behind the first o
\* tokens; r holds what a turn of Decode makes of the tokens of t.
PieceIn(s, e, i, t, r, o, P) ==
  /\ P = Piece(s, i, e, Len(codes))
  /\ o + Len(P) <= Len(t)
  /\ \A j \in 1..Len(P) : t[o + j] = P[j]
  /\ RewrittenAs(t, codes[e], r)
  /\ P = <<"&">> => (EntityAt(t, codes[e], o + 1) <=> EntityAt(s, codes[e], i))
  /\ o > 0 /\ t[o] = "&" <=> i > 1 /\ s[i - 1] = "&" /\ ~Spelt(s, i - 1, e - 1) /\ e # 1

\* Q is what r holds for the tokens of the piece P.
Becomes(P, Q, r, o) ==
  \/ Len(P) = 0 /\ Q = <<>>
  \/ Len(P) = 1 /\ Q = r[o + 1]
  \/ Len(P) = 2 /\ Q = r[o + 1] \o r[o + 2]

\* What one turn of Decode makes of one piece.
LEMMA PieceTurn ==
  ASSUME NEW s \in Text, NEW e \in 1..Len(codes), NEW i \in 1..Len(s),
         NEW t \in Text, NEW r, NEW o \in Nat, NEW P, PieceIn(s, e, i, t, r, o, P)
  PROVE  Becomes(P, Piece(s, i, e + 1, Len(codes)), r, o)
<1> DEFINE N == Len(codes)
           n == Len(s)
           m == e - 1
           E == codes[e]
           Q == Piece(s, i, e + 1, N)
<1>1. /\ N \in Nat \ {0} /\ n \in Nat /\ m \in 0..(N - 1) /\ e = m + 1 /\ m \in 0..N
      /\ N \in 0..N /\ e \in 1..(N + 1) /\ (e + 1) - 1 = e /\ Len(t) \in Nat
  <2>1. N \in Nat \ {0} /\ n \in Nat /\ Len(t) \in Nat
    BY CodesFacts, TextFacts
  <2>2. e \in 1..N
    OBVIOUS
  <2> HIDE DEF N, n
  <2>3. QED
    BY <2>1, <2>2
<1>2. /\ \A c \in 1..N : /\ codes[c].src \in Tokens /\ codes[c].name \in Tokens
                         /\ (c # 1 => codes[c].src # "&") /\ codes[c].name # "&"
                         /\ codes[c].src # E.name /\ codes[c].name # E.src
                         /\ (c # e => codes[c].src # E.src /\ codes[c].name # E.name)
                         /\ Name(codes[c].src) = codes[c].name
                         /\ Src(codes[c].name) = codes[c].src
      /\ "&" \in Tokens /\ codes[1].src = "&" /\ E.name # "&"
  BY CodesFacts
<1>3. \A j : Spelt(s, j, e) <=> Spelt(s, j, m) \/ (m # 0 /\ EntityAt(s, E, j))
  BY <1>1, SpeltNext
<1>4. Q = IF Spelt(s, i, e) THEN <<Src(s[i + 1])>>
          ELSE IF Spelt(s, i - 1, e) THEN <<>>
          ELSE IF Coded(s[i], e + 1, N) THEN <<"&", Name(s[i])>> ELSE <<s[i]>>
  BY <1>1 DEF Piece
<1>5. \A j \in 1..Len(t) :
        /\ EntityAt(t, E, j) => r[j] = <<E.src>>
        /\ ~EntityAt(t, E, j) /\ EntityAt(t, E, j - 1) => r[j] = <<>>
        /\ ~EntityAt(t, E, j) /\ ~EntityAt(t, E, j - 1) => r[j] = <<t[j]>>
  BY DEF PieceIn, RewrittenAs
<1>b. P = Piece(s, i, e, N)
  BY DEF PieceIn
<1>6. /\ o + Len(P) <= Len(t) /\ (\A j \in 1..Len(P) : t[o + j] = P[j])
      /\ P = <<"&">> => (EntityAt(t, E, o + 1) <=> EntityAt(s, E, i))
      /\ o > 0 /\ t[o] = "&" <=> i > 1 /\ s[i - 1] = "&" /\ ~Spelt(s, i - 1, m) /\ m # 0
  BY <1>1 DEF PieceIn
<1>7. \/ \E k \in 1..N : k # 1 /\ P = <<codes[k].src>> /\ s[i] = "&"
                         /\ s[i + 1] = codes[k].name /\ Spelt(s, i, m)
      \/ \E k \in 1..N : P = <<>> /\ s[i] = codes[k].name /\ Spelt(s, i - 1, m)
      \/ \E k \in e..N : k \in 1..N /\ P = <<"&", codes[k].name>> /\ s[i] = codes[k].src
      \/ /\ P = <<s[i]>> /\ s[i] \in Tokens
         /\ ~Spelt(s, i, m) /\ ~Spelt(s, i - 1, m) /\ ~Coded(s[i], e, N)
  <2>1. \/ \E k \in 2..m : k \in 1..N /\ k # 1 /\ EntityAt(s, codes[k], i) /\ P = <<codes[k].src>>
        \/ \E k \in 2..m : k \in 1..N /\ EntityAt(s, codes[k], i - 1) /\ s[i] = codes[k].name
                           /\ P = <<>>
        \/ \E k \in e..N : k \in 1..N /\ P = <<"&", codes[k].name>> /\ s[i] = codes[k].src
        \/ /\ P = <<s[i]>> /\ s[i] \in Tokens
           /\ ~Spelt(s, i, m) /\ ~Spelt(s, i - 1, m) /\ ~Coded(s[i], e, N)
    BY <1>1, <1>b, PieceCases
  <2>2. \A k, j : EntityAt(s, codes[k], j) => s[j] = "&" /\ s[j + 1] = codes[k].name
    BY DEF EntityAt
  <2>3. \A j : \A k \in 2..m : EntityAt(s, codes[k], j) => Spelt(s, j, m)
    BY DEF Spelt
  <2>4. QED
    BY <2>1, <2>2, <2>3
<1>8. /\ s[i] # "&" => ~Spelt(s, i, e)
      /\ \A c \in 1..N : s[i] = codes[c].src => ~Spelt(s, i - 1, e)
      /\ s[i] = "&" => ~Spelt(s, i - 1, e)
  <2>1. i \in Int /\ i - 1 \in Int /\ (i - 1) + 1 = i /\ e \in 0..N
    BY <1>1
  <2>2. Spelt(s, i, e) => s[i] = "&"
    BY <2>1, SpeltFacts
  <2>3. Spelt(s, i - 1, e) => \E c \in 1..N : s[i] = codes[c].name
    BY <2>1, SpeltFacts
  <2>4. \A c, d \in 1..N : codes[c].src # codes[d].name /\ codes[d].name # "&"
    BY CodesFacts
  <2>5. QED
    BY <2>2, <2>3, <2>4
<1>9. EntityAt(t, E, o) <=> o > 0 /\ o < Len(t) /\ t[o] = "&" /\ t[o + 1] = E.name
  <2>1. o \in 1..(Len(t) - 1) <=> o > 0 /\ o < Len(t)
    BY <1>1
  <2>2. QED
    BY <2>1 DEF EntityAt
<1>10. \A j : EntityAt(t, E, j) => t[j] = "&" /\ t[j + 1] = E.name
  BY DEF EntityAt
<1>11. (o + 1) - 1 = o /\ (o + 2) - 1 = o + 1 /\ (o + 1) + 1 = o + 2
  OBVIOUS
<1>a. e \in 1..N
  OBVIOUS
<1> HIDE DEF N, n, m, E, Q
\* An entity decoded before: its character stays.
<1>12. ASSUME NEW k \in 1..N, k # 1, P = <<codes[k].src>>, s[i + 1] = codes[k].name, Spelt(s, i, m)
       PROVE  Len(P) = 1 /\ Q = r[o + 1]
  <2> DEFINE x == codes[k].src
  <2>1. x \in Tokens /\ x # "&" /\ x # E.name /\ Src(s[i + 1]) = x
    BY <1>2, <1>12
  <2>2. Q = <<x>>
    BY <2>1, <1>3, <1>4, <1>12
  <2>3. Len(P) = 1 /\ P[1] = x
    BY <2>1, <1>12, ShortTexts
  <2> HIDE DEF x
  <2>4. t[o + 1] = x /\ o + 1 \in 1..Len(t)
    <3>1. 1 \in 1..Len(P)
      BY <2>3
    <3>2. t[o + 1] = P[1]
      BY <3>1, <1>6
    <3>3. o + 1 \in 1..Len(t)
      BY <2>3, <1>1, <1>6
    <3>4. QED
      BY <3>2, <3>3, <2>3
  <2>5. ~EntityAt(t, E, o + 1) /\ ~EntityAt(t, E, (o + 1) - 1)
    BY <2>1, <2>4, <1>10, <1>11
  <2>6. QED
    BY <2>2, <2>3, <2>4, <2>5, <1>5
\* Its name is gone.
<1>13. ASSUME NEW k \in 1..N, P = <<>>, s[i] = codes[k].name, Spelt(s, i - 1, m)
       PROVE  Len(P) = 0 /\ Q = <<>>
  <2>1. s[i] # "&"
    BY <1>2, <1>13
  <2>2. ~Spelt(s, i, e) /\ Spelt(s, i - 1, e)
    BY <2>1, <1>3, <1>8, <1>13
  <2>3. QED
    BY <2>2, <1>4, <1>13, TextFacts
\* A character that is still encoded: by this entry or by a later one.
<1>14. ASSUME NEW k \in e..N, k \in 1..N, P = <<"&", codes[k].name>>, s[i] = codes[k].src
       PROVE  Len(P) = 2 /\ Q = r[o + 1] \o r[o + 2]
  <2> DEFINE w == codes[k].name
  <2>1. w \in Tokens /\ w # "&" /\ "&" # E.name
    BY <1>2, <1>14
  <2>2. Len(P) = 2 /\ P[1] = "&" /\ P[2] = w
    BY <2>1, <1>2, <1>14, ShortTexts
  <2> HIDE DEF w
  <2>3. t[o + 1] = "&" /\ t[o + 2] = w
    <3>1. 1 \in 1..Len(P) /\ 2 \in 1..Len(P)
      BY <2>2
    <3>2. t[o + 1] = P[1] /\ t[o + 2] = P[2]
      BY <3>1, <1>6
    <3>3. QED
      BY <3>2, <2>2
  <2>4. o + 1 \in 1..Len(t) /\ o + 2 \in 1..Len(t) /\ o + 1 \in 1..(Len(t) - 1)
    BY <2>2, <1>1, <1>6
  <2>5. ~EntityAt(t, E, o + 2) /\ ~EntityAt(t, E, (o + 1) - 1)
    BY <2>1, <2>3, <1>10, <1>11
  <2>6. EntityAt(t, E, o + 1) <=> w = E.name
    BY <2>3, <2>4, <1>11 DEF EntityAt
  <2>7. ~Spelt(s, i, e) /\ ~Spelt(s, i - 1, e)
    <3>1. ~Spelt(s, i - 1, e)
      BY <1>8, <1>14
    <3>2. CASE k = 1
      <4>1. e = 1
        BY <3>2, <1>a, <1>1
      <4>2. 2..e = {}
        BY <4>1
      <4>3. QED
        BY <4>2, <3>1 DEF Spelt
    <3>3. CASE k # 1
      <4>1. s[i] # "&"
        BY <3>3, <1>2, <1>14
      <4>2. QED
        BY <4>1, <3>1, <1>8
    <3>4. QED
      BY <3>2, <3>3
  <2>8. CASE k = e
    <3>1. w = E.name /\ s[i] = E.src
      BY <2>8, <1>14 DEF w, E
    <3>2. r[o + 1] = <<E.src>>
      BY <3>1, <2>4, <2>6, <1>5
    <3>3. r[o + 2] = <<>>
      <4>1. EntityAt(t, E, (o + 2) - 1)
        BY <3>1, <2>6, <1>11
      <4>2. QED
        BY <4>1, <2>4, <2>5, <1>5
    <3>4. ~Coded(s[i], e + 1, N)
      <4>1. \A c \in (e + 1)..N : c \in 1..N /\ c # e
        BY <1>1, <1>a
      <4>2. QED
        BY <4>1, <3>1, <1>2 DEF Coded
    <3>5. Q = <<E.src>>
      BY <3>1, <3>4, <2>7, <1>4
    <3>6. <<E.src>> \o <<>> = <<E.src>>
      <4>1. E.src \in Tokens
        BY <1>2, <1>a DEF E
      <4>2. <<E.src>> \in Text
        BY <4>1, ShortTexts
      <4>3. QED
        BY <4>2, TextFacts
    <3>7. QED
      BY <3>2, <3>3, <3>5, <3>6, <2>2
  <2>9. CASE k # e
    <3>1. w # E.name
      BY <2>9, <1>2, <1>14 DEF w
    <3>2. r[o + 1] = <<"&">>
      BY <3>1, <2>3, <2>4, <2>5, <2>6, <1>5
    <3>3. r[o + 2] = <<w>>
      <4>1. ~EntityAt(t, E, (o + 2) - 1)
        BY <3>1, <2>6, <1>11
      <4>2. QED
        BY <4>1, <2>3, <2>4, <2>5, <1>5
    <3>4. Coded(s[i], e + 1, N)
      <4>1. k \in (e + 1)..N
        BY <2>9, <1>1
      <4>2. QED
        BY <4>1, <1>14 DEF Coded
    <3>5. Name(s[i]) = w
      BY <1>2, <1>14 DEF w
    <3>6. Q = <<"&", w>>
      BY <3>4, <3>5, <2>7, <1>4
    <3>7. <<"&">> \o <<w>> = <<"&", w>>
      BY <2>1, <1>2, ShortTexts
    <3>8. QED
      BY <3>2, <3>3, <3>6, <3>7, <2>2
  <2>10. QED
    BY <2>8, <2>9
\* A token of the text itself.
<1>15. ASSUME P = <<s[i]>>, s[i] \in Tokens, ~Spelt(s, i, m), ~Spelt(s, i - 1, m), ~Coded(s[i], e, N)
       PROVE  Len(P) = 1 /\ Q = r[o + 1]
  <2> DEFINE x == s[i]
  <2>1. Len(P) = 1 /\ P[1] = x
    BY <1>15, ShortTexts
  <2>2. t[o + 1] = x /\ o + 1 \in 1..Len(t) /\ o < Len(t)
    <3>1. 1 \in 1..Len(P)
      BY <2>1
    <3>2. t[o + 1] = P[1]
      BY <3>1, <1>6
    <3>3. o + 1 \in 1..Len(t) /\ o < Len(t)
      BY <2>1, <1>1, <1>6
    <3>4. QED
      BY <3>2, <3>3, <2>1
  <2>3. ~Coded(x, e + 1, N)
    <3>1. \A c \in (e + 1)..N : c \in e..N
      BY <1>1
    <3>2. QED
      BY <3>1, <1>15 DEF Coded
  <2>4. CASE x = "&"
    <3>1. m # 0
      <4>1. SUFFICES ASSUME m = 0 PROVE FALSE
        OBVIOUS
      <4>2. 1 \in e..N
        BY <4>1, <1>1
      <4>3. QED
        BY <4>2, <2>4, <1>2, <1>15 DEF Coded
    <3>2. EntityAt(t, E, o + 1) <=> EntityAt(s, E, i)
      BY <2>4, <1>6, <1>15
    <3>3. ~EntityAt(t, E, (o + 1) - 1)
      BY <2>2, <2>4, <1>2, <1>10, <1>11
    <3>4. Spelt(s, i, e) <=> EntityAt(s, E, i)
      BY <3>1, <1>3, <1>15
    <3>5. ~Spelt(s, i - 1, e)
      BY <2>4, <1>8
    <3>6. CASE EntityAt(s, E, i)
      <4>1. s[i + 1] = E.name
        BY <3>6 DEF EntityAt
      <4>2. Src(s[i + 1]) = E.src
        BY <4>1, <1>2, <1>a DEF E
      <4>3. Q = <<E.src>>
        BY <4>2, <3>4, <3>6, <1>4
      <4>4. r[o + 1] = <<E.src>>
        BY <3>2, <3>6, <2>2, <1>5
      <4>5. QED
        BY <4>3, <4>4, <2>1
    <3>7. CASE ~EntityAt(s, E, i)
      <4>1. Q = <<x>>
        BY <3>4, <3>5, <3>7, <2>3, <1>4
      <4>2. r[o + 1] = <<x>>
        BY <3>2, <3>3, <3>7, <2>2, <1>5
      <4>3. QED
        BY <4>1, <4>2, <2>1
    <3>8. QED
      BY <3>6, <3>7
  <2>5. CASE x # "&"
    <3>1. ~EntityAt(t, E, o + 1) /\ ~Spelt(s, i, e)
      BY <2>2, <2>5, <1>8, <1>10
    <3>2. Spelt(s, i - 1, e) <=> m # 0 /\ i > 1 /\ s[i - 1] = "&" /\ x = E.name
      <4>1. EntityAt(s, E, i - 1) <=> i > 1 /\ s[i - 1] = "&" /\ x = E.name
        <5>1. i - 1 \in 1..(Len(s) - 1) <=> i > 1
          BY <1>1 DEF n
        <5>2. (i - 1) + 1 = i
          OBVIOUS
        <5>3. QED
          BY <5>1, <5>2 DEF EntityAt
      <4>2. Spelt(s, i - 1, e) <=> m # 0 /\ EntityAt(s, E, i - 1)
        BY <1>3, <1>15
      <4>3. QED
        BY <4>1, <4>2
    <3>3. EntityAt(t, E, (o + 1) - 1) <=> Spelt(s, i - 1, e)
      BY <3>2, <2>2, <1>6, <1>9, <1>11, <1>15
    <3>4. CASE Spelt(s, i - 1, e)
      BY <3>1, <3>3, <3>4, <2>1, <2>2, <1>4, <1>5
    <3>5. CASE ~Spelt(s, i - 1, e)
      <4>1. Q = <<x>>
        BY <3>1, <3>5, <2>3, <1>4
      <4>2. r[o + 1] = <<x>>
        BY <3>1, <3>3, <3>5, <2>2, <1>5
      <4>3. QED
        BY <4>1, <4>2, <2>1
    <3>6. QED
      BY <3>4, <3>5
  <2>6. QED
    BY <2>4, <2>5
<1>16. QED
  BY <1>7, <1>12, <1>13, <1>14, <1>15 DEF Becomes, Q, N

\* One turn of Decode.
LEMMA DecodeTurn ==
  ASSUME NEW s \in Text, NEW m \in 0..(Len(codes) - 1)
  PROVE  ReplaceByEntity(FlattenSeq(Pieces(s, m + 1, Len(codes))), codes[m + 1])
           = FlattenSeq(Pieces(s, (m + 1) + 1, Len(codes)))
<1> DEFINE N == Len(codes)
           n == Len(s)
           e == m + 1
           p == Pieces(s, e, N)
           q == Pieces(s, e + 1, N)
           t == FlattenSeq(p)
           r == Rewritten(t, codes[e])
<1>1. /\ N \in Nat \ {0} /\ n \in Nat /\ e \in 1..N /\ m \in 0..N /\ N \in 0..N /\ e \in 0..N
      /\ e \in 1..(N + 1) /\ e + 1 \in 1..(N + 1) /\ e - 1 = m /\ (e + 1) - 1 = e
  BY CodesFacts, TextFacts
<1>2. /\ p \in Seq(Text) /\ Len(p) = n /\ \A i \in 1..n : p[i] = Piece(s, i, e, N)
  BY <1>1, PiecesFacts
<1>3. /\ q \in Seq(Text) /\ Len(q) = n /\ \A i \in 1..n : q[i] = Piece(s, i, e + 1, N)
  BY <1>1, PiecesFacts
<1>4. ReplaceByEntity(t, codes[e]) = FlattenSeq(r)
  BY DEF ReplaceByEntity, Rewritten
<1>5. PICK f : Joining(p, f)
  BY <1>2, JoiningExists
<1>6. /\ \A i \in 1..n : Ends(f[i]) <=> Piece(s, i, e, N) = <<"&">>
      /\ \A i \in 1..n : Piece(s, i, e, N) = <<"&">> <=> s[i] = "&" /\ ~Spelt(s, i, m) /\ m # 0
      /\ \A i : Spelt(s, i, e) <=> Spelt(s, i, m) \/ (m # 0 /\ EntityAt(s, codes[e], i))
  <2>1. \A i \in 1..n : Ends(f[i]) <=> Piece(s, i, e, N) = <<"&">>
    BY <1>5, JoinedEnds
  <2>2. \A i \in 1..n : Piece(s, i, e, N) = <<"&">> <=> s[i] = "&" /\ ~Spelt(s, i, m) /\ m # 0
    BY PieceIsAmp
  <2>3. \A i : Spelt(s, i, e) <=> Spelt(s, i, m) \/ (m # 0 /\ EntityAt(s, codes[e], i))
    BY SpeltNext
  <2>4. QED
    BY <2>1, <2>2, <2>3
<1>7. t = f[n]
  BY <1>2, <1>5, FlattenIs
<1>8. \A i \in 1..n : Piece(s, i, e, N) = <<"&">> =>
        (EntityAt(t, codes[e], Len(f[i - 1]) + 1) <=> EntityAt(s, codes[e], i))
  BY <1>5, <1>7, NextName
<1>9. t \in Text
  <2>1. f \in [0..n -> Text]
    BY <1>2, <1>5 DEF Joining
  <2>2. QED
    BY <2>1, <1>1, <1>7
<1> HIDE DEF p, q, t, e, N, n
<1>10. r \in Seq(Text) /\ Len(r) = Len(t) /\ RewrittenAs(t, codes[e], r)
  <2>1. e \in 1..Len(codes)
    BY <1>1 DEF N
  <2>2. QED
    BY <2>1, <1>9, EntityPieces
<1> HIDE DEF r
<1>11. ASSUME NEW i \in 1..n
       PROVE  \/ Len(p[i]) = 0 /\ q[i] = <<>>
              \/ Len(p[i]) = 1 /\ q[i] = r[Len(f[i - 1]) + 1]
              \/ Len(p[i]) = 2 /\ q[i] = r[Len(f[i - 1]) + 1] \o r[Len(f[i - 1]) + 2]
  <2> DEFINE o == Len(f[i - 1])
             P == p[i]
  <2>1. i \in 1..Len(p) /\ f[Len(p)] = t /\ i \in 1..Len(s)
    BY <1>2, <1>7 DEF n
  <2>2. f[i - 1] \in Text /\ Len(f[i]) = o + Len(P) /\ Len(f[i]) <= Len(t)
    BY <2>1, <1>2, <1>5, JoinedLen
  <2>3. /\ \A j \in 1..Len(P) : t[o + j] = P[j]
        /\ \A j \in 1..o : t[j] = f[i - 1][j]
    <3>a. i \in 1..Len(p) /\ p \in Seq(Text) /\ Joining(p, f)
      BY <2>1, <1>2, <1>5
    <3>1. StandsIn(p, f, i)
      BY <3>a, JoinedStands
    <3>2. QED
      BY <3>1, <2>1 DEF StandsIn
  <2>4. o \in Nat
    BY <2>2, TextFacts
  <2>5. o + Len(P) <= Len(t)
    BY <2>2
  <2>6. P = Piece(s, i, e, N)
    BY <1>2
  <2>7. P = <<"&">> => (EntityAt(t, codes[e], o + 1) <=> EntityAt(s, codes[e], i))
    BY <2>6, <1>8
  <2>8. o > 0 /\ t[o] = "&" <=>
          i > 1 /\ s[i - 1] = "&" /\ ~Spelt(s, i - 1, e - 1) /\ e # 1
    <3>1. o > 0 /\ t[o] = "&" <=> Ends(f[i - 1])
      <4>1. o > 0 => t[o] = f[i - 1][o]
        <5>1. o > 0 => o \in 1..o
          BY <2>4
        <5>2. QED
          BY <5>1, <2>3
      <4>2. Ends(f[i - 1]) <=> o > 0 /\ f[i - 1][o] = "&"
        BY DEF Ends
      <4>3. QED
        BY <4>1, <4>2
    <3>2. e # 1 <=> m # 0
      BY <1>1
    <3>3. CASE i = 1
      <4>1. o = 0
        <5>1. f[0] = <<>> /\ i - 1 = 0
          BY <3>3, <1>5 DEF Joining
        <5>2. QED
          BY <5>1, TextFacts
      <4>2. QED
        BY <4>1, <3>3
    <3>4. CASE i # 1
      <4> DEFINE h == i - 1
      <4>1. h \in 1..n /\ i > 1
        BY <3>4, <1>1
      <4>2. Ends(f[h]) <=> s[h] = "&" /\ ~Spelt(s, h, m) /\ m # 0
        BY <4>1, <1>6
      <4>3. QED
        BY <4>1, <4>2, <3>1, <3>2, <1>1
    <3>5. QED
      BY <3>3, <3>4
  <2> HIDE DEF o, P
  <2>9. \/ Len(P) = 0 /\ Piece(s, i, e + 1, N) = <<>>
        \/ Len(P) = 1 /\ Piece(s, i, e + 1, N) = r[o + 1]
        \/ Len(P) = 2 /\ Piece(s, i, e + 1, N) = r[o + 1] \o r[o + 2]
    <3>1. e \in 1..Len(codes)
      BY <1>1 DEF N
    <3>3. \A j \in 1..Len(P) : t[o + j] = P[j]
      BY <2>3
    <3>4. PieceIn(s, e, i, t, r, o, P)
      BY <3>3, <2>5, <2>6, <2>7, <2>8, <1>10 DEF PieceIn, N
    <3>5. Becomes(P, Piece(s, i, e + 1, Len(codes)), r, o)
      BY <3>1, <3>4, <2>1, <2>4, <1>9, PieceTurn
    <3>6. QED
      BY <3>5 DEF N, Becomes
  <2>10. q[i] = Piece(s, i, e + 1, N)
    BY <1>3
  <2>11. QED
    BY <2>9, <2>10 DEF o, P
<1>12. FlattenSeq(r) = FlattenSeq(q)
  <2>1. Len(q) = Len(p) /\ Len(r) = Len(f[Len(p)])
    BY <1>2, <1>3, <1>7, <1>10
  <2>2. \A i \in 1..Len(p) :
           \/ Len(p[i]) = 0 /\ q[i] = <<>>
           \/ Len(p[i]) = 1 /\ q[i] = r[Len(f[i - 1]) + 1]
           \/ Len(p[i]) = 2 /\ q[i] = r[Len(f[i - 1]) + 1] \o r[Len(f[i - 1]) + 2]
    BY <1>2, <1>11
  <2>3. p \in Seq(Text) /\ q \in Seq(Text) /\ r \in Seq(Text)
    BY <1>2, <1>3, <1>10
  <2>4. QED
    BY <2>1, <2>2, <2>3, <1>5, JoinRewritten
<1>13. QED
  BY <1>4, <1>12 DEF t, p, q, e, N

\* A text cut into its tokens is joined to itself.
LEMMA Singles ==
  ASSUME NEW s \in Text, NEW p \in Seq(Text), Len(p) = Len(s),
         \A i \in 1..Len(s) : p[i] = <<s[i]>>
  PROVE  FlattenSeq(p) = s
<1> DEFINE n == Len(s)
<1>1. PICK f : Joining(p, f)
  BY JoiningExists
<1>2. FlattenSeq(p) = f[n]
  BY <1>1, FlattenIs
<1>3. n \in Nat /\ \A i \in 1..n : s[i] \in Tokens
  BY TextFacts
<1>4. \A i \in 1..n : p[i] = <<s[i]>> /\ Len(p[i]) = 1 /\ p[i][1] = s[i]
  <2> TAKE i \in 1..n
  <2> DEFINE x == s[i]
  <2>1. x \in Tokens /\ p[i] = <<x>>
    BY <1>3
  <2> HIDE DEF x
  <2>2. Len(<<x>>) = 1 /\ <<x>>[1] = x
    BY <2>1, ShortTexts
  <2>3. QED
    BY <2>1, <2>2 DEF x
<1>5. f \in [0..n -> Text] /\ f[0] = <<>>
  BY <1>1 DEF Joining
<1>6. \A i \in 1..n : Len(f[i]) = Len(f[i - 1]) + Len(p[i])
  BY <1>1, JoinedLen
<1>7. \A i \in 1..n : StandsIn(p, f, i)
  BY <1>1, JoinedStands
<1>8. Len(p) = n
  OBVIOUS
<1> HIDE DEF n
<1> DEFINE T == {i \in 0..n : Len(f[i]) = i}
<1>9. 0 \in T
  BY <1>3, <1>5, TextFacts
<1>10. ASSUME NEW i \in 1..n, i - 1 \in T PROVE i \in T
  <2>1. Len(f[i]) = Len(f[i - 1]) + 1 /\ Len(f[i - 1]) = i - 1
    BY <1>4, <1>6, <1>10
  <2>2. QED
    BY <2>1, <1>3
<1>11. 0..n \subseteq T
  <2> HIDE DEF T
  <2>1. QED
    BY <1>3, <1>9, <1>10, Induct
<1>12. \A i \in 0..n : Len(f[i]) = i
  BY <1>11
<1>13. f[n] \in Text /\ Len(f[n]) = n
  BY <1>3, <1>5, <1>12
<1>14. ASSUME NEW i \in 1..n PROVE f[n][i] = s[i]
  <2> DEFINE o == Len(f[i - 1])
  <2>1. i - 1 \in 0..n /\ (i - 1) + 1 = i
    BY <1>3
  <2>2. o + 1 = i
    BY <2>1, <1>12
  <2>3. \A j \in 1..Len(p[i]) : f[n][o + j] = p[i][j]
    BY <1>7, <1>8 DEF StandsIn
  <2> HIDE DEF o
  <2>4. 1 \in 1..Len(p[i])
    BY <1>4
  <2>5. f[n][o + 1] = p[i][1]
    BY <2>3, <2>4
  <2>6. QED
    BY <2>2, <2>5, <1>4
<1>15. f[n] = s
  <2>1. s \in Seq(Tokens) /\ f[n] \in Seq(Tokens) /\ Len(f[n]) = Len(s)
    BY <1>13 DEF Text, n
  <2>2. \A i \in 1..Len(f[n]) : f[n][i] = s[i]
    BY <1>13, <1>14
  <2>3. QED
    BY <2>1, <2>2, SeqEqual
<1>16. QED
  BY <1>2, <1>15

\* Nothing has been replaced yet.
LEMMA Untouched ==
  ASSUME NEW s \in Text
  PROVE  FlattenSeq(Pieces(s, 1, 0)) = s
<1> DEFINE N == Len(codes)
           p == Pieces(s, 1, 0)
<1>1. N \in Nat \ {0} /\ 1 \in 1..(N + 1) /\ 0 \in 0..N
  BY CodesFacts
<1>2. p \in Seq(Text) /\ Len(p) = Len(s) /\ \A i \in 1..Len(s) : p[i] = Piece(s, i, 1, 0)
  BY <1>1, PiecesFacts
<1>3. ASSUME NEW i \in 1..Len(s) PROVE Piece(s, i, 1, 0) = <<s[i]>>
  <2>1. 1 - 1 = 0 /\ 2..0 = {} /\ 1..0 = {}
    OBVIOUS
  <2>2. ~Spelt(s, i, 1 - 1) /\ ~Spelt(s, i - 1, 1 - 1)
    BY <2>1 DEF Spelt
  <2>3. ~Coded(s[i], 1, 0)
    BY <2>1 DEF Coded
  <2>4. QED
    BY <2>2, <2>3 DEF Piece
<1> HIDE DEF p
<1>4. \A i \in 1..Len(s) : p[i] = <<s[i]>>
  BY <1>2, <1>3
<1>5. FlattenSeq(p) = s
  BY <1>2, <1>4, Singles
<1>6. QED
  BY <1>5 DEF p

\* Everything has been decoded again: what comes out is the text that went
\* in if that spells out no entity but "&amp;".
LEMMA RoundTrip ==
  ASSUME NEW s \in Text,
         ~\E c \in 2..Len(codes), i \in 1..Len(s) : EntityAt(s, codes[c], i)
  PROVE  FlattenSeq(Pieces(s, Len(codes) + 1, Len(codes))) = s
<1> DEFINE N == Len(codes)
           n == Len(s)
           p == Pieces(s, N + 1, N)
<1>1. /\ N \in Nat \ {0} /\ N + 1 \in 1..(N + 1) /\ N \in 0..N /\ (N + 1) - 1 = N
      /\ (N + 1)..N = {} /\ n \in Nat
  BY CodesFacts, TextFacts
<1>2. p \in Seq(Text) /\ Len(p) = n /\ \A i \in 1..n : p[i] = Piece(s, i, N + 1, N)
  BY <1>1, PiecesFacts
<1>3. ASSUME NEW i \in 1..n
      PROVE  Piece(s, i, N + 1, N) = IF Spelt(s, i, N) THEN <<Src(s[i + 1])>>
                                     ELSE IF Spelt(s, i - 1, N) THEN <<>> ELSE <<s[i]>>
  <2>1. ~Coded(s[i], N + 1, N)
    BY <1>1 DEF Coded
  <2>2. QED
    BY <2>1, <1>1 DEF Piece
<1>4. \A i : Spelt(s, i, N) <=> \E c \in 2..N : EntityAt(s, codes[c], i)
  BY DEF Spelt
<1>5. \A c, i : EntityAt(s, codes[c], i) =>
        i \in 1..n /\ i + 1 \in 1..n /\ s[i] = "&" /\ s[i + 1] = codes[c].name
  BY <1>1 DEF EntityAt
<1> HIDE DEF p
<1>6. \A i : ~Spelt(s, i, N)
  BY <1>4, <1>5
<1>7. \A i \in 1..n : p[i] = <<s[i]>>
  BY <1>6, <1>2, <1>3
<1>8. FlattenSeq(p) = s
  BY <1>7, <1>2, Singles
<1>9. QED
  BY <1>8 DEF p

\* The text that is being rewritten consists of the pieces of the original:
\* Encode has done the first entries of the table, or Decode has undone them.
HtmlInv ==
  /\ HtmlTypeOK
  /\ html = "encode" => rs = FlattenSeq(Pieces(source, 1, code))
  /\ html = "decode" => rs = FlattenSeq(Pieces(source, code + 1, Len(codes)))
  /\ HtmlRoundTrip

\* Before the first call.
LEMMA HtmlStart == HtmlInit => HtmlInv
<1>1. Len(codes) \in Nat
  BY CodesFacts
<1>2. <<>> \in Seq(Tokens)
  BY TextFacts DEF Text
<1>3. 0 \in 0..Len(codes)
  BY <1>1
<1>4. QED
  BY <1>2, <1>3 DEF HtmlInit, HtmlInv, HtmlTypeOK, HtmlRoundTrip

\* What the type invariant says of the texts.
LEMMA SourceIsText ==
  ASSUME HtmlTypeOK PROVE source \in Text /\ rs \in Text
BY CodesAssumption, TextFacts DEF HtmlTypeOK, Text

\* Every turn of the two loops keeps the invariant.
LEMMA HtmlStepInv ==
  ASSUME HtmlInv, HtmlNext \/ UNCHANGED htmlVars
  PROVE  HtmlInv'
<1> DEFINE N == Len(codes)
<1>1. N \in Nat \ {0}
  BY CodesFacts
<1>2. HtmlTypeOK /\ source \in Text /\ rs \in Text /\ code \in 0..N
  BY SourceIsText DEF HtmlInv, HtmlTypeOK
<1>3. ASSUME NEW t \in HtmlTexts, BeginEncode(t) PROVE HtmlInv'
  <2>1. t \in Text /\ 0 \in 0..N
    BY <1>1, CodesAssumption DEF Text
  <2>2. t = FlattenSeq(Pieces(t, 1, 0))
    BY <2>1, Untouched
  <2>3. HtmlTypeOK'
    BY <2>1, <1>3 DEF BeginEncode, HtmlTypeOK, Text
  <2>4. html' = "encode" /\ rs' = t /\ source' = t /\ code' = 0
    BY <1>3 DEF BeginEncode
  <2>5. rs' = FlattenSeq(Pieces(source', 1, code'))
    BY <2>2, <2>4
  <2>6. QED
    BY <2>3, <2>4, <2>5 DEF HtmlInv, HtmlRoundTrip, Pieces, Piece, Spelt, Coded, Src, Name, EntityAt
<1>4. CASE EncodeCode
  <2>1. /\ html = "encode" /\ html' = "encode" /\ source' = source /\ code' = code + 1
        /\ code < N /\ rs' = ReplaceBySrc(rs, codes[code + 1])
    BY <1>4 DEF EncodeCode
  <2>2. code \in 0..(N - 1) /\ code + 1 \in 1..N /\ code + 1 \in 0..N
    BY <2>1, <1>1, <1>2
  <2>3. rs = FlattenSeq(Pieces(source, 1, code))
    BY <2>1 DEF HtmlInv
  <2>4. rs' = FlattenSeq(Pieces(source, 1, code + 1))
    BY <2>1, <2>2, <2>3, <1>2, EncodeTurn
  <2>5. rs' \in Text
    BY <2>1, <2>2, <1>2, ReplaceTypes
  <2>6. HtmlTypeOK'
    BY <2>1, <2>2, <2>5, <1>2 DEF HtmlTypeOK, Text
  <2>7. rs' = FlattenSeq(Pieces(source', 1, code'))
    BY <2>1, <2>4
  <2>8. QED
    BY <2>1, <2>6, <2>7 DEF HtmlInv, HtmlRoundTrip, Pieces, Piece, Spelt, Coded, Src, Name, EntityAt
<1>5. CASE BeginDecode
  <2>1. /\ html = "encode" /\ html' = "decode" /\ source' = source /\ code = N
        /\ code' = 0 /\ rs' = rs
    BY <1>5 DEF BeginDecode
  <2>2. rs = FlattenSeq(Pieces(source, 1, N))
    BY <2>1 DEF HtmlInv
  <2>3. 0 \in 0..N /\ 0 + 1 = 1
    BY <1>1
  <2>4. HtmlTypeOK'
    BY <2>1, <2>3, <1>2 DEF HtmlTypeOK
  <2>5. rs' = FlattenSeq(Pieces(source', code' + 1, Len(codes)))
    BY <2>1, <2>2, <2>3
  <2>6. QED
    BY <2>1, <2>4, <2>5 DEF HtmlInv, HtmlRoundTrip, Pieces, Piece, Spelt, Coded, Src, Name, EntityAt
<1>6. CASE DecodeCode
  <2>1. /\ html = "decode" /\ html' = "decode" /\ source' = source /\ code' = code + 1
        /\ code < N /\ rs' = ReplaceByEntity(rs, codes[code + 1])
    BY <1>6 DEF DecodeCode
  <2>2. code \in 0..(N - 1) /\ code + 1 \in 1..N /\ code + 1 \in 0..N
    BY <2>1, <1>1, <1>2
  <2>3. rs = FlattenSeq(Pieces(source, code + 1, N))
    BY <2>1 DEF HtmlInv
  <2>4. rs' = FlattenSeq(Pieces(source, (code + 1) + 1, N))
    BY <2>1, <2>2, <2>3, <1>2, DecodeTurn
  <2>5. rs' \in Text
    BY <2>1, <2>2, <1>2, ReplaceTypes
  <2>6. HtmlTypeOK'
    BY <2>1, <2>2, <2>5, <1>2 DEF HtmlTypeOK, Text
  <2>7. rs' = FlattenSeq(Pieces(source', code' + 1, Len(codes)))
    BY <2>1, <2>4
  <2>8. QED
    BY <2>1, <2>6, <2>7 DEF HtmlInv, HtmlRoundTrip, Pieces, Piece, Spelt, Coded, Src, Name, EntityAt
<1>7. CASE DecodeEnd
  <2>1. html = "decode" /\ html' = "done" /\ code = N /\ source' = source /\ rs' = rs /\ code' = code
    BY <1>7 DEF DecodeEnd
  <2>2. rs = FlattenSeq(Pieces(source, N + 1, N))
    BY <2>1 DEF HtmlInv
  <2>3. \/ rs = source
        \/ \E c \in 2..Len(codes), i \in 1..Len(source) : EntityAt(source, codes[c], i)
    BY <2>2, <1>2, RoundTrip
  <2>4. HtmlTypeOK'
    BY <2>1, <1>2 DEF HtmlTypeOK
  <2>5. HtmlRoundTrip'
    BY <2>1, <2>3 DEF HtmlRoundTrip, EntityAt
  <2>6. QED
    BY <2>1, <2>4, <2>5 DEF HtmlInv
<1>8. CASE HtmlReturn
  <2>1. html' = "idle" /\ source' = <<>> /\ rs' = <<>> /\ code' = 0
    BY <1>8 DEF HtmlReturn
  <2>2. <<>> \in Seq(Tokens) /\ 0 \in 0..N
    BY <1>1, TextFacts DEF Text
  <2>3. QED
    BY <2>1, <2>2 DEF HtmlInv, HtmlTypeOK, HtmlRoundTrip
<1>9. CASE UNCHANGED htmlVars
  <2>1. html' = html /\ source' = source /\ rs' = rs /\ code' = code
    BY <1>9 DEF htmlVars
  <2>2. QED
    BY <2>1 DEF HtmlInv, HtmlTypeOK, HtmlRoundTrip, Pieces, Piece, Spelt, Coded, Src, Name, EntityAt
<1>10. QED
  BY <1>3, <1>4, <1>5, <1>6, <1>7, <1>8, <1>9 DEF HtmlNext, HtmlStep

-----------------------------------------------------------------------------
(* The helper classes together: Helpers. *)

\* The invariants of the three classes, which are used one at a time.
HelpersInv == CipherInv /\ HtmlInv /\ WeightsInv

\* The invariant holds before the first call and every step keeps it.
THEOREM HelpersInductive == Spec => []HelpersInv
<1>1. Init => HelpersInv
  BY CipherStart, HtmlStart, WeightsStart DEF Init, HelpersInv
<1>2. HelpersInv /\ [Next]_vars => HelpersInv'
  <2> SUFFICES ASSUME HelpersInv, [Next]_vars PROVE HelpersInv'
    OBVIOUS
  <2>1. CipherNext \/ UNCHANGED cipherVars
    BY DEF Next, vars
  <2>2. HtmlNext \/ UNCHANGED htmlVars
    BY DEF Next, vars
  <2>3. WeightsNext \/ UNCHANGED weightVars
    BY DEF Next, vars
  <2>4. CipherInv'
    BY <2>1, CipherStepInv DEF HelpersInv
  <2>5. HtmlInv'
    BY <2>2, HtmlStepInv DEF HelpersInv
  <2>6. WeightsInv'
    <3>1. CASE WeightsNext
      BY <3>1, WeightsStep DEF HelpersInv
    <3>2. CASE UNCHANGED weightVars
      BY <3>2 DEF HelpersInv, WeightsInv, WeightsTypeOK, Belongs, Total, Sums, weightVars
    <3>3. QED
      BY <2>3, <3>1, <3>2
  <2>7. QED
    BY <2>4, <2>5, <2>6 DEF HelpersInv
<1>3. QED
  BY <1>1, <1>2, PTL DEF Spec

\* The types of the variables of AES and DES, HTML and WeightImpl, for any
\* texts and keys, blocks of up to 255 bytes, any table of entities and any
\* weights: whatever bytes decryption with another key produces, a call that
\* returns returns a sequence of bytes, and an index that is drawn is one of
\* the list given to init().
THEOREM TypeCorrect == Spec => []TypeOK
<1>1. HelpersInv => TypeOK
  BY DEF HelpersInv, CipherInv, HtmlInv, WeightsInv, TypeOK
<1>2. QED
  BY <1>1, HelpersInductive, PTL

\* Des_Decrypt gives back every sequence of bytes that Des_Encrypt encrypted
\* with the same schedule, and the two leave their arrays only for a text that
\* does not fit szCommand with its padding, or for another schedule.
\* AES_ECBDecrypt gives back every printable text that was encrypted with a
\* key of one block; a key that only encryption accepts yields the empty text.
\* For any size of szCommand, blocks of up to 255 bytes and any keys.
THEOREM CipherAlwaysRoundTrips == Spec => []CipherRoundTrip
<1>1. HelpersInv => CipherRoundTrip
  BY DEF HelpersInv, CipherInv
<1>2. QED
  BY <1>1, HelpersInductive, PTL

\* Decode undoes Encode for the texts that spell out no entity but "&amp;":
\* for any table whose first entry is "&", and texts of any length.
THEOREM HtmlAlwaysRoundTrips == Spec => []HtmlRoundTrip
<1>1. HelpersInv => HtmlRoundTrip
  BY DEF HelpersInv, HtmlInv
<1>2. QED
  BY <1>1, HelpersInductive, PTL

\* After init() and any number of turns of shuffle(), getResult() returns each
\* index for exactly as many random numbers as its weight in the list given to
\* init() says, and recover() writes that list back: for any weights.
THEOREM ChoiceAlwaysFair == Spec => []ChoiceIsFair
<1>1. HelpersInv => ChoiceIsFair
  BY FairFromInv DEF HelpersInv
<1>2. QED
  BY <1>1, HelpersInductive, PTL
=============================================================================
