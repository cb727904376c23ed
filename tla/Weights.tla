------------------------------ MODULE Weights -------------------------------
(***************************************************************************)
(* STD::WeightImpl (thirdpart/Logger/src/rand/impl/StdRandomImpl.h): draws *)
(* an index with the probability its weight gives it.  The weights may be  *)
(* shuffled between draws, together with the indices they belong to, and   *)
(* the object may be initialised anew.                                     *)
(*                                                                         *)
(* Random numbers are external: a draw takes any number of the range set   *)
(* by betweenInt.  A shuffle is one step per turn of its loop.             *)
(***************************************************************************)
EXTENDS Integers, Sequences, FiniteSets

CONSTANTS
  WeightLists   \* the lists of weights that objects are initialised with

ASSUME WeightListsAssumption ==
  \A w \in WeightLists : w \in Seq(Nat) /\ \E i \in 1..Len(w) : w[i] > 0

VARIABLES
  weight_,   \* the weights, in their present order
  indxId_,   \* the index, counted from 0, that each weight belongs to
  sum_,      \* the upper end of the range of rand_
  turn,      \* the loop variable of shuffle(), 0 when none is under way
  given,     \* history: the weights of the last init()
  drawn,     \* the index the last draw returned, <<>> if none has
  restored   \* the weights recover() has written, <<>> if it has not

weightVars == <<weight_, indxId_, sum_, turn, given, drawn, restored>>

-----------------------------------------------------------------------------
\* The sums that the loops of init() and getResult() add up turn by turn.
Sums(w) ==
  LET sum[n \in 0..Len(w)] == IF n = 0 THEN 0 ELSE sum[n - 1] + w[n] IN sum

Total(w) == Sums(w)[Len(w)]

\* Positions at which the loop of getResult finds c <= 0, after r was drawn.
Stops(r) == {n \in 1..Len(weight_) : r - Sums(weight_)[n] <= 0}

\* What getResult returns when r is drawn.  The function has no result if
\* the loop runs to its end: the set is empty.
Results(r) == {indxId_[n] : n \in {k \in Stops(r) : \A l \in Stops(r) : k <= l}}

Exchange(s, i, j) == [s EXCEPT ![i] = s[j], ![j] = s[i]]

-----------------------------------------------------------------------------
WeightsInit ==
  /\ weight_ = <<>> /\ indxId_ = <<>> /\ sum_ = 0
  /\ turn = 0 /\ given = <<>> /\ drawn = <<>> /\ restored = <<>>

\* init(), also of an object that has been used before.
InitWeights(w) ==
  /\ turn = 0
  /\ weight_' = w /\ indxId_' = [i \in 1..Len(w) |-> i - 1]
  /\ sum_' = Total(w)
  /\ given' = w
  /\ drawn' = <<>> /\ restored' = <<>>
  /\ UNCHANGED turn

BeginShuffle ==
  /\ turn = 0 /\ weight_ # <<>>
  /\ turn' = Len(weight_) - 1
  /\ UNCHANGED <<weight_, indxId_, sum_, given, drawn, restored>>

\* Mutant of ShuffleTurn: the indices stay where they are.
ShuffleTurnWeightsOnly ==
  /\ turn > 0
  /\ \E j \in 0..turn : weight_' = Exchange(weight_, turn + 1, j + 1)
  /\ turn' = turn - 1
  /\ UNCHANGED <<indxId_, sum_, given, drawn, restored>>

ShuffleTurn ==
  /\ turn > 0
  /\ \E j \in 0..turn :
       /\ weight_' = Exchange(weight_, turn + 1, j + 1)
       /\ indxId_' = Exchange(indxId_, turn + 1, j + 1)
  /\ turn' = turn - 1
  /\ UNCHANGED <<sum_, given, drawn, restored>>

GetResult ==
  /\ turn = 0 /\ weight_ # <<>>
  /\ \E r \in 1..sum_ : \E k \in Results(r) : drawn' = <<k>>
  /\ UNCHANGED <<weight_, indxId_, sum_, turn, given, restored>>

\* recover(): the weights are written back to the places they came from, in
\* an array of the same length.
Recover ==
  /\ turn = 0 /\ weight_ # <<>>
  /\ restored' = [p \in 1..Len(weight_) |->
               weight_[CHOOSE n \in 1..Len(weight_) : indxId_[n] = p - 1]]
  /\ UNCHANGED <<weight_, indxId_, sum_, turn, given, drawn>>

\* The object goes out of scope.
DestroyWeights ==
  /\ turn = 0 /\ weight_ # <<>>
  /\ weight_' = <<>> /\ indxId_' = <<>> /\ sum_' = 0
  /\ given' = <<>> /\ drawn' = <<>> /\ restored' = <<>>
  /\ UNCHANGED turn

WeightsNext ==
  \/ \E w \in WeightLists : InitWeights(w)
  \/ BeginShuffle \/ ShuffleTurn \/ GetResult \/ Recover \/ DestroyWeights

-----------------------------------------------------------------------------
WeightsTypeOK ==
  /\ {weight_, given, restored} \subseteq Seq(Nat) /\ sum_ \in Nat
  /\ indxId_ \in Seq(Nat) /\ Len(indxId_) = Len(weight_)
  /\ turn \in 0..Len(weight_)
  /\ drawn \in {<<>>} \cup {<<k>> : k \in 0..(Len(given) - 1)}

\* An index is drawn with the probability that its weight has in the list
\* given to init(), however often the weights were shuffled since: as many
\* of the numbers that can be drawn lead to it as its weight says, so that
\* every draw has a result and an index of weight 0 is never one.  And
\* recover() writes every weight back to the place it came from.
ChoiceIsFair ==
  /\ \A k \in 1..Len(given) :
       Cardinality({r \in 1..sum_ : Results(r) = {k - 1}}) = given[k]
  /\ restored # <<>> => restored = given
=============================================================================
