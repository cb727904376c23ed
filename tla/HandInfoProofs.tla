--------------------------- MODULE HandInfoProofs ---------------------------
(***************************************************************************)
(* Proofs about HandInfo, for any number of hands, players and trees: the  *)
(* ownership of trees is inductive together with the types.  A swap        *)
(* permutes the roots of two hands and releases nothing, so it maps owners *)
(* to owners.                                                              *)
(***************************************************************************)
EXTENDS HandInfo, TLAPS

IInv == TypeOK /\ OwnedOnce

\* A constructed hand is a hand.
LEMMA EmptyIsHand == Empty \in Hand /\ Empty.root = None
BY DEF Empty, Hand

\* A copy has every member of its source.
LEMMA CopyIsSource ==
  ASSUME NEW this \in Hand, NEW ref \in Hand
  PROVE  Copy(this, ref) = ref
BY DEF Copy, Hand

\* Analysing a hand gives it a tree nobody else has.
LEMMA AnalyseIInv ==
  ASSUME IInv, NEW h \in Hands, NEW p \in Players, Analyse(h, p)
  PROVE  IInv'
<1> DEFINE new(t) == [Empty EXCEPT !.chair = p, !.root = t, !.enums = p,
                                   !.groups = {<<h, "enums">>}]
<1>1. PICK t \in Trees \ live :
        live' = live \cup {t} /\ hand' = [hand EXCEPT ![h] = new(t)]
  BY DEF Analyse
<1>2. new(t) \in Hand /\ new(t).root = t
  <2> DEFINE G == {<<h, "enums">>}
  <2>1. G \in SUBSET Pointer BY DEF Pointer
  <2> HIDE DEF G
  <2>2. new(t) = [Empty EXCEPT !.chair = p, !.root = t, !.enums = p, !.groups = G]
    BY DEF G
  <2> HIDE DEF new
  <2> QED BY <2>1, <2>2, EmptyIsHand DEF Hand
<1> HIDE DEF new
<1>3. h \in alive /\ alive' = alive /\ hand[h].root = None BY DEF Analyse
<1>4. TypeOK' BY <1>1, <1>2, <1>3 DEF IInv, TypeOK
<1>5. /\ hand'[h].root = t
      /\ \A g \in Hands : g # h => hand'[g] = hand[g]
  BY <1>1, <1>2 DEF IInv, TypeOK
<1>6. t # None BY NoneAssumption
<1>7. OwnedOnce'
  <2>0. alive \subseteq Hands BY DEF IInv, TypeOK
  <2>1. \A u \in live' : \E g \in alive' : hand'[g].root = u
    <3> TAKE u \in live'
    <3>1. CASE u = t BY <3>1, <1>3, <1>5
    <3>2. CASE u # t
      <4>1. PICK g \in alive : hand[g].root = u BY <3>2, <1>1 DEF IInv, OwnedOnce
      <4>2. g # h
        <5> SUFFICES ASSUME g = h PROVE FALSE OBVIOUS
        <5>1. u = None BY <4>1, <1>3
        <5>2. u \in Trees BY <3>2, <1>1 DEF IInv, TypeOK
        <5> QED BY <5>1, <5>2, NoneAssumption
      <4> QED BY <4>1, <4>2, <1>3, <1>5, <2>0
    <3> QED BY <3>1, <3>2
  <2>2. \A g \in alive' : hand'[g].root # None => hand'[g].root \in live'
    BY <2>0, <1>1, <1>3, <1>5 DEF IInv, OwnedOnce
  <2>3. ASSUME NEW g \in alive, g # h PROVE hand'[g].root # t
    <3>1. hand'[g].root = hand[g].root BY <2>0, <2>3, <1>5
    <3> QED BY <3>1, <1>6 DEF IInv, OwnedOnce
  <2>4. \A f, g \in alive' :
          hand'[f].root = hand'[g].root /\ f # g => hand'[f].root = None
    <3> TAKE f, g \in alive'
    <3>1. CASE f = h \/ g = h BY <3>1, <2>3, <1>3, <1>5
    <3>2. CASE f # h /\ g # h BY <3>2, <2>0, <1>3, <1>5 DEF IInv, OwnedOnce
    <3> QED BY <3>1, <3>2
  <2> QED BY <2>1, <2>2, <2>4 DEF OwnedOnce
<1> QED BY <1>4, <1>7 DEF IInv

\* Arranging or choosing a group leaves the tree where it is.
LEMMA ChooseIInv ==
  ASSUME IInv, NEW h \in Hands,
         SelectAs(h) \/ \E ptr \in Pointer : Select(h, ptr)
  PROVE  IInv'
<1>1. alive' = alive /\ live' = live BY DEF SelectAs, Select
<1>2. /\ hand' \in [Hands -> Hand]
      /\ \A g \in Hands : hand'[g].root = hand[g].root
  <2>0. hand \in [Hands -> Hand] BY DEF IInv, TypeOK
  <2>1. CASE SelectAs(h)
    <3> DEFINE r == [hand[h] EXCEPT !.manual = hand[h].chair,
                                    !.groups = @ \cup {<<h, "manual">>}]
    <3>1. hand' = [hand EXCEPT ![h] = r] BY <2>0, <2>1 DEF SelectAs
    <3>2. r \in Hand /\ r.root = hand[h].root
      <4> DEFINE P == <<h, "manual">>
      <4>1. P \in Pointer BY DEF Pointer
      <4>2. hand[h] \in Hand BY <2>0
      <4> HIDE DEF P
      <4>3. r = [hand[h] EXCEPT !.manual = hand[h].chair, !.groups = @ \cup {P}] BY DEF P
      <4> HIDE DEF r
      <4> QED BY <4>1, <4>2, <4>3 DEF Hand
    <3> HIDE DEF r
    <3> QED BY <2>0, <3>1, <3>2
  <2>2. ASSUME NEW ptr \in Pointer, Select(h, ptr)
        PROVE  /\ hand' \in [Hands -> Hand]
               /\ \A g \in Hands : hand'[g].root = hand[g].root
    <3> DEFINE r == [hand[h] EXCEPT !.selected = ptr]
    <3>1. hand' = [hand EXCEPT ![h] = r] BY <2>0, <2>2 DEF Select
    <3>2. r \in Hand /\ r.root = hand[h].root BY <2>0, <2>2 DEF Hand
    <3> HIDE DEF r
    <3> QED BY <2>0, <3>1, <3>2
  <2> QED BY <2>1, <2>2
<1>3. TypeOK' BY <1>1, <1>2 DEF IInv, TypeOK
<1>4. OwnedOnce' BY <1>1, <1>2 DEF IInv, TypeOK, OwnedOnce
<1> QED BY <1>3, <1>4 DEF IInv

\* A swap exchanges the trees of two hands and releases none.
LEMMA SwapIInv ==
  ASSUME IInv, NEW src \in Hands, NEW dst \in Hands, Swap(src, dst)
  PROVE  IInv'
<1>0. hand \in [Hands -> Hand] BY DEF IInv, TypeOK
<1>1. Copy(hand[dst], Copy(Empty, hand[src])) = hand[src]
  BY <1>0, CopyIsSource, EmptyIsHand
<1>2. Copy(hand[src], hand[dst]) = hand[dst] BY <1>0, CopyIsSource
<1>3. /\ src \in alive /\ dst \in alive /\ src # dst
      /\ hand' = [hand EXCEPT ![src] = hand[dst], ![dst] = hand[src]]
      /\ alive' = alive
  BY <1>1, <1>2 DEF Swap
<1>4. live' = live BY DEF Swap, Released
<1>5. /\ hand'[src] = hand[dst] /\ hand'[dst] = hand[src]
      /\ \A g \in Hands \ {src, dst} : hand'[g] = hand[g]
      /\ hand' \in [Hands -> Hand]
  BY <1>0, <1>3
<1>6. TypeOK' BY <1>3, <1>4, <1>5 DEF IInv, TypeOK
<1>7. OwnedOnce'
  <2>0. alive \subseteq Hands BY DEF IInv, TypeOK
  <2>1. \A t \in live : \E h \in alive : hand'[h].root = t
    <3> TAKE t \in live
    <3>1. PICK h \in alive : hand[h].root = t BY DEF IInv, OwnedOnce
    <3>2. CASE h = src BY <3>1, <3>2, <1>3, <1>5
    <3>3. CASE h = dst BY <3>1, <3>3, <1>3, <1>5
    <3>4. CASE h \notin {src, dst} BY <3>1, <3>4, <1>5, <2>0
    <3> QED BY <3>2, <3>3, <3>4
  <2>2. \A h \in alive : hand'[h].root # None => hand'[h].root \in live
    BY <2>0, <1>3, <1>5 DEF IInv, OwnedOnce
  <2>3. \A g, h \in alive :
          hand'[g].root = hand'[h].root /\ g # h => hand'[g].root = None
    BY <2>0, <1>3, <1>5 DEF IInv, OwnedOnce
  <2> QED BY <2>1, <2>2, <2>3, <1>3, <1>4 DEF OwnedOnce
<1> QED BY <1>6, <1>7 DEF IInv

\* A hand's destructor deletes its tree, and a new hand has none.
LEMMA LifetimeIInv ==
  ASSUME IInv, NEW h \in Hands, Destroy(h) \/ Construct(h)
  PROVE  IInv'
<1>1. CASE Destroy(h)
  <2>1. TypeOK' BY <1>1 DEF Destroy, IInv, TypeOK
  <2>2. OwnedOnce' BY <1>1, NoneAssumption DEF Destroy, Released, IInv, TypeOK, OwnedOnce
  <2> QED BY <2>1, <2>2 DEF IInv
<1>2. CASE Construct(h)
  <2>1. TypeOK' BY <1>2, EmptyIsHand DEF Construct, IInv, TypeOK
  <2>2. /\ hand'[h].root = None
        /\ \A g \in Hands : g # h => hand'[g] = hand[g]
    BY <1>2, EmptyIsHand DEF Construct, IInv, TypeOK
  <2>3. OwnedOnce' BY <1>2, <2>2, NoneAssumption DEF Construct, IInv, TypeOK, OwnedOnce
  <2> QED BY <2>1, <2>3 DEF IInv
<1> QED BY <1>1, <1>2

-----------------------------------------------------------------------------
\* The inductive invariant holds in every reachable state.
THEOREM Invariance == Spec => []IInv
<1>1. Init => IInv
  BY EmptyIsHand DEF Init, IInv, TypeOK, OwnedOnce
<1>2. IInv /\ [Next]_vars => IInv'
  <2> SUFFICES ASSUME IInv, [Next]_vars PROVE IInv' OBVIOUS
  <2>1. ASSUME NEW h \in Hands, NEW p \in Players, Analyse(h, p) PROVE IInv'
    BY <2>1, AnalyseIInv
  <2>2. ASSUME NEW h \in Hands, SelectAs(h) \/ \E ptr \in Pointer : Select(h, ptr)
        PROVE  IInv'
    BY <2>2, ChooseIInv
  <2>3. ASSUME NEW h \in Hands, NEW g \in Hands, Swap(h, g) PROVE IInv'
    BY <2>3, SwapIInv
  <2>4. ASSUME NEW h \in Hands, Destroy(h) \/ Construct(h) PROVE IInv'
    BY <2>4, LifetimeIInv
  <2>5. CASE UNCHANGED vars BY <2>5 DEF vars, IInv, TypeOK, OwnedOnce
  <2> QED BY <2>1, <2>2, <2>3, <2>4, <2>5 DEF Next
<1> QED BY <1>1, <1>2, PTL DEF Spec

\* Hands and trees are always well typed.
THEOREM TypeCorrect == Spec => []TypeOK
<1>1. IInv => TypeOK BY DEF IInv
<1> QED BY <1>1, Invariance, PTL

\* However hands are swapped and destroyed, every tree has one owner.
THEOREM TreesAreOwnedOnce == Spec => []OwnedOnce
<1>1. IInv => OwnedOnce BY DEF IInv
<1> QED BY <1>1, Invariance, PTL
=============================================================================
