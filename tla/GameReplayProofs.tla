-------------------------- MODULE GameReplayProofs --------------------------
(***************************************************************************)
(* Proofs about GameReplay, for any set of items and any bound.            *)
(*                                                                         *)
(* Recorded is not usable by itself, because Valid(l) is a set: IInv says  *)
(* which set it is.  The first Len(added[l]) slots are valid and hold the  *)
(* entries of the round, the others are free, and there are as many slots  *)
(* as the longest round had entries.  The search of an add*() then stops   *)
(* at Len(added[l]) + 1, and nowhere else.                                 *)
(***************************************************************************)
EXTENDS GameReplay, TLAPS

\* The vector l at this moment: the round first, then free slots.
Shape(l) ==
  /\ Len(added[l]) <= Len(slots[l])
  /\ \A i \in DOMAIN slots[l] : slots[l][i].flag <=> i <= Len(added[l])
  /\ \A i \in 1..Len(added[l]) : slots[l][i].item = added[l][i]
  /\ Len(slots[l]) = peak[l]

IInv == TypeOK /\ \A l \in Lists : Shape(l)

-----------------------------------------------------------------------------
\* The search of an add*() stops right behind the entries of the round.
LEMMA StopsBehindRound ==
  ASSUME IInv, NEW l \in Lists, NEW it \in 1..(Len(slots[l]) + 1),
         StopsAt(slots[l], it)
  PROVE  it = Len(added[l]) + 1
<1> DEFINE s == slots[l]
           n == Len(added[l])
<1>1. s \in Seq(Slot) /\ added[l] \in Seq(Items) BY DEF IInv, TypeOK
<1>2. n \in Nat /\ Len(s) \in Nat /\ n <= Len(s) BY <1>1 DEF IInv, Shape
<1>3. \A i \in 1..Len(s) : s[i].flag <=> i <= n BY <1>1 DEF IInv, Shape
<1>4. ~(it <= n)
  <2> SUFFICES ASSUME it <= n PROVE FALSE OBVIOUS
  <2>1. it \in 1..Len(s) BY <1>2
  <2> QED BY <2>1, <1>3 DEF StopsAt
<1>5. ~(it > n + 1)
  <2> SUFFICES ASSUME it > n + 1 PROVE FALSE OBVIOUS
  <2>1. n + 1 \in 1..Len(s) /\ n + 1 \in 1..(it - 1) BY <1>2
  <2>2. s[n + 1].flag BY <2>1 DEF StopsAt
  <2> QED BY <2>1, <2>2, <1>2, <1>3
<1> QED BY <1>2, <1>4, <1>5

\* Put behind the round makes the vector hold one more entry.
LEMMA PutExtends ==
  ASSUME IInv, NEW l \in Lists, NEW x \in Items,
         Len(added[l]) < MaxLen
  PROVE  LET n == Len(added[l])
             t == Put(slots[l], n + 1, x)
         IN  /\ t \in Seq(Slot)
             /\ Len(t) = IF peak[l] <= n THEN n + 1 ELSE peak[l]
             /\ \A i \in 1..Len(t) : t[i].flag <=> i <= n + 1
             /\ \A i \in 1..n : t[i].item = added[l][i]
             /\ t[n + 1].item = x
<1> DEFINE s == slots[l]
           n == Len(added[l])
           r == [item |-> x, flag |-> TRUE]
           t == Put(s, n + 1, x)
<1>1. s \in Seq(Slot) /\ added[l] \in Seq(Items) BY DEF IInv, TypeOK
<1>2. n \in Nat /\ Len(s) \in Nat /\ n <= Len(s) /\ Len(s) = peak[l]
  BY <1>1 DEF IInv, Shape
<1>3. /\ \A i \in 1..Len(s) : s[i].flag <=> i <= n
      /\ \A i \in 1..n : s[i].item = added[l][i]
  BY <1>1 DEF IInv, Shape
<1>r. r \in Slot /\ r.flag = TRUE /\ r.item = x BY DEF Slot
<1>4. CASE n = Len(s)
  <2>1. t = Append(s, r) BY <1>2, <1>4 DEF Put
  <2> HIDE DEF t, r, s
  <2>2. /\ t \in Seq(Slot) /\ Len(t) = n + 1
        /\ \A i \in 1..n : t[i] = s[i]
        /\ t[n + 1] = r
    BY <2>1, <1>1, <1>r, <1>4
  <2>3. \A i \in 1..Len(t) : t[i].flag <=> i <= n + 1
    <3> TAKE i \in 1..Len(t)
    <3>1. CASE i = n + 1 BY <3>1, <2>2, <1>r, <1>2
    <3>2. CASE i # n + 1
      <4>1. i \in 1..n BY <3>2, <2>2, <1>2
      <4> QED BY <4>1, <2>2, <1>2, <1>3, <1>4
    <3> QED BY <3>1, <3>2
  <2>4. \A i \in 1..n : t[i].item = added[l][i] BY <2>2, <1>3
  <2> QED BY <2>2, <2>3, <2>4, <1>2, <1>4, <1>r DEF t, s
<1>5. CASE n # Len(s)
  <2>1. t = [s EXCEPT ![n + 1] = r] /\ n + 1 \in 1..Len(s)
    BY <1>2, <1>5 DEF Put
  <2> HIDE DEF t, r, s
  <2>2. /\ t \in Seq(Slot) /\ Len(t) = Len(s)
        /\ \A i \in 1..Len(s) : i # n + 1 => t[i] = s[i]
        /\ t[n + 1] = r
    BY <2>1, <1>1, <1>r
  <2>3. \A i \in 1..Len(t) : t[i].flag <=> i <= n + 1
    <3> TAKE i \in 1..Len(t)
    <3>1. CASE i = n + 1 BY <3>1, <2>2, <1>r, <1>2
    <3>2. CASE i # n + 1
      <4>1. t[i] = s[i] /\ (i <= n <=> i <= n + 1) BY <3>2, <2>2, <1>2
      <4> QED BY <4>1, <2>2, <1>3
    <3> QED BY <3>1, <3>2
  <2>4. \A i \in 1..n : t[i].item = added[l][i] BY <2>2, <1>2, <1>3
  <2> QED BY <2>2, <2>3, <2>4, <1>2, <1>5, <1>r DEF t, s
<1> QED BY <1>4, <1>5

-----------------------------------------------------------------------------
\* An empty record has the shape.
LEMMA InitIInv == Init => IInv
BY MaxLenAssumption DEF Init, IInv, TypeOK, Shape

\* Every add*() preserves the shape of the vector it works on and touches
\* no other.
LEMMA AddIInv ==
  ASSUME IInv, NEW l \in Lists, NEW x \in Items, Add(l, x)
  PROVE  IInv'
<1> DEFINE n == Len(added[l])
           t == Put(slots[l], n + 1, x)
           a == Append(added[l], x)
           p == IF peak[l] <= n THEN n + 1 ELSE peak[l]
<1>1. PICK it \in 1..(Len(slots[l]) + 1) :
        StopsAt(slots[l], it) /\ slots' = [slots EXCEPT ![l] = Put(@, it, x)]
  BY DEF Add
<1>2. it = n + 1 BY <1>1, StopsBehindRound
<1>3. n < MaxLen BY DEF Add
<1>4. /\ t \in Seq(Slot)
      /\ Len(t) = p
      /\ \A i \in 1..Len(t) : t[i].flag <=> i <= n + 1
      /\ \A i \in 1..n : t[i].item = added[l][i]
      /\ t[n + 1].item = x
  BY <1>3, PutExtends
<1>5. TypeOK BY DEF IInv
<1>6. /\ slots' = [slots EXCEPT ![l] = t]
      /\ added' = [added EXCEPT ![l] = a]
      /\ peak' = [peak EXCEPT ![l] = p]
  BY <1>1, <1>2, <1>5 DEF Add, TypeOK
<1>7. /\ added[l] \in Seq(Items) /\ n \in Nat /\ peak[l] \in 0..MaxLen
      /\ a \in Seq(Items) /\ Len(a) = n + 1
      /\ \A i \in 1..n : a[i] = added[l][i]
      /\ a[n + 1] = x
  BY <1>5 DEF TypeOK
<1>8. p \in 0..MaxLen /\ n + 1 <= p BY <1>3, <1>7, MaxLenAssumption
<1> HIDE DEF t, a, p
<1>9. TypeOK' BY <1>4, <1>5, <1>6, <1>7, <1>8 DEF TypeOK
<1>10. ASSUME NEW m \in Lists PROVE Shape(m)'
  <2>1. CASE m = l
    <3>1. slots'[m] = t /\ added'[m] = a /\ peak'[m] = p
      BY <2>1, <1>5, <1>6 DEF TypeOK
    <3>2. DOMAIN t = 1..Len(t) BY <1>4
    <3>3. \A i \in 1..Len(a) : t[i].item = a[i] BY <1>4, <1>7
    <3> QED BY <3>1, <3>2, <3>3, <1>4, <1>7, <1>8 DEF Shape
  <2>2. CASE m # l
    <3>1. slots'[m] = slots[m] /\ added'[m] = added[m] /\ peak'[m] = peak[m]
      BY <2>2, <1>5, <1>6 DEF TypeOK
    <3>2. Shape(m) BY DEF IInv
    <3> QED BY <3>1, <3>2 DEF Shape
  <2> QED BY <2>1, <2>2
<1> QED BY <1>9, <1>10 DEF IInv

\* clear() leaves every vector as long as it was, with an empty round.
LEMMA ClearIInv ==
  ASSUME IInv, Clear
  PROVE  IInv'
<1>1. TypeOK BY DEF IInv
<1>2. ASSUME NEW l \in Lists
      PROVE  /\ slots'[l] \in Seq(Slot)
             /\ Len(slots'[l]) = Len(slots[l])
             /\ DOMAIN slots'[l] = 1..Len(slots[l])
             /\ \A i \in DOMAIN slots'[l] : slots'[l][i].flag = FALSE
  <2> DEFINE s == slots[l]
  <2>1. s \in Seq(Slot) BY <1>1 DEF TypeOK
  <2>2. slots'[l] = [i \in 1..Len(s) |-> [s[i] EXCEPT !.flag = FALSE]]
    BY <2>1 DEF Clear
  <2> HIDE DEF s
  <2>3. \A i \in 1..Len(s) :
          /\ [s[i] EXCEPT !.flag = FALSE] \in Slot
          /\ [s[i] EXCEPT !.flag = FALSE].flag = FALSE
    <3> TAKE i \in 1..Len(s)
    <3>1. s[i] \in Slot BY <2>1
    <3> QED BY <3>1 DEF Slot
  <2>4. Len(s) \in Nat BY <2>1
  <2> QED BY <2>2, <2>3, <2>4 DEF s
<1>3. \A l \in Lists : added'[l] = <<>> /\ peak'[l] = peak[l] BY DEF Clear
<1>4. TypeOK'
  <2>1. slots' \in [Lists -> Seq(Slot)] BY <1>2 DEF Clear
  <2>2. added' \in [Lists -> Seq(Items)] /\ peak' \in [Lists -> 0..MaxLen]
    BY <1>1 DEF Clear, TypeOK
  <2> QED BY <2>1, <2>2 DEF TypeOK
<1>5. ASSUME NEW l \in Lists PROVE Shape(l)'
  <2>1. Len(slots[l]) = peak[l] /\ Len(slots[l]) \in Nat
    BY <1>1 DEF IInv, Shape, TypeOK
  <2>2. Len(added'[l]) = 0 /\ peak'[l] = peak[l] BY <1>3
  <2>a. Len(slots'[l]) = Len(slots[l]) BY <1>2
  <2>b. DOMAIN slots'[l] = 1..Len(slots[l]) BY <1>2
  <2>3. \A i \in DOMAIN slots'[l] : slots'[l][i].flag <=> i <= Len(added'[l])
    <3> TAKE i \in DOMAIN slots'[l]
    <3>1. slots'[l][i].flag = FALSE BY <1>2
    <3>2. ~(i <= 0) BY <2>b, <2>1
    <3> QED BY <3>1, <3>2, <2>2
  <2>4. \A i \in 1..Len(added'[l]) : slots'[l][i].item = added'[l][i] BY <2>2
  <2>5. Len(slots'[l]) = peak'[l] /\ Len(added'[l]) <= Len(slots'[l])
    BY <2>1, <2>2, <2>a
  <2> QED BY <2>3, <2>4, <2>5 DEF Shape
<1> QED BY <1>4, <1>5 DEF IInv

-----------------------------------------------------------------------------
\* The shape holds in every state the record can be in.
THEOREM Invariance == Spec => []IInv
<1>1. IInv /\ [Next]_vars => IInv'
  <2> SUFFICES ASSUME IInv, [Next]_vars PROVE IInv' OBVIOUS
  <2>1. CASE Clear BY <2>1, ClearIInv
  <2>2. ASSUME NEW x \in Items, AddResult(x) \/ AddPlayer(x) \/ AddStep(x)
        PROVE  IInv'
    <3>1. \E l \in Lists : Add(l, x)
      BY <2>2 DEF AddResult, AddPlayer, AddStep, Lists
    <3> QED BY <3>1, AddIInv
  <2>3. CASE UNCHANGED vars BY <2>3 DEF vars, IInv, TypeOK, Shape
  <2> QED BY <2>1, <2>2, <2>3 DEF Next
<1> QED BY <1>1, InitIInv, PTL DEF Spec

\* The record is always a well-typed one.
THEOREM TypeCorrect == Spec => []TypeOK
<1>1. IInv => TypeOK BY DEF IInv
<1> QED BY <1>1, Invariance, PTL

\* The valid slots are exactly what was added since clear(), in order,
\* whatever rounds came before.
THEOREM RoundIsRecorded == Spec => []Recorded
<1>1. IInv => Recorded
  <2> SUFFICES ASSUME IInv, NEW l \in Lists
               PROVE  [i \in Valid(l) |-> slots[l][i].item] = added[l]
    BY DEF Recorded
  <2>1. slots[l] \in Seq(Slot) /\ added[l] \in Seq(Items) BY DEF IInv, TypeOK
  <2>2. Valid(l) = 1..Len(added[l]) BY <2>1 DEF Valid, IInv, Shape
  <2>3. \A i \in 1..Len(added[l]) : slots[l][i].item = added[l][i]
    BY DEF IInv, Shape
  <2>4. added[l] = [i \in 1..Len(added[l]) |-> added[l][i]] BY <2>1
  <2> QED BY <2>2, <2>3, <2>4
<1> QED BY <1>1, Invariance, PTL

\* The vectors hold as many slots as the longest round needed, never more.
THEOREM StorageIsBounded == Spec => []NoGrowth
<1>1. IInv => NoGrowth BY DEF IInv, Shape, NoGrowth, TypeOK
<1> QED BY <1>1, Invariance, PTL
=============================================================================
