----------------------------- MODULE GameReplay -----------------------------
(***************************************************************************)
(* tagGameReplay of public/gameStruct.h: the record of one round that a    *)
(* table keeps for replay and reuses for every round.                      *)
(*                                                                         *)
(* players, steps and results are vectors of slots with a validity flag.   *)
(* clear() only lowers the flags; an add*() overwrites the first slot      *)
(* whose flag is down and grows the vector when there is none.  What a     *)
(* slot says (ids, bets, times, card types) is one abstract item: both     *)
(* branches of every add*() assign all its fields.                         *)
(***************************************************************************)
EXTENDS Naturals, Sequences

CONSTANTS Items, \* what a slot can say
          MaxLen \* bound: entries of a list in one round

ASSUME MaxLenAssumption == MaxLen \in Nat

Lists == {"players", "steps", "results"}

Slot == [item : Items, flag : BOOLEAN]

VARIABLES slots, \* slots[l]: the vector l
          added, \* history: added[l] is what was added to l since clear()
          peak   \* history: peak[l] is the length of the longest round so far

vars == <<slots, added, peak>>

TypeOK ==
  /\ slots \in [Lists -> Seq(Slot)]
  /\ added \in [Lists -> Seq(Items)]
  /\ peak \in [Lists -> 0..MaxLen]

-----------------------------------------------------------------------------
\* The indices of the slots of l that belong to the round.
Valid(l) == {i \in DOMAIN slots[l] : slots[l][i].flag}

\* Mutant of StopsAt: the search takes any slot that is free.
StopsAtAnyFree(s, it) == it <= Len(s) => ~s[it].flag

\* Mutant of StopsAt: the search never looks for a free slot.
StopsAtEnd(s, it) == it = Len(s) + 1

\* Where the search of an add*() stops: the end, or the first free slot.
StopsAt(s, it) ==
  /\ \A i \in 1..(it - 1) : s[i].flag
  /\ it <= Len(s) => ~s[it].flag

\* Mutant of Put: a reused slot keeps what an earlier round wrote.
PutFlagOnly(s, it, x) ==
  IF it > Len(s) THEN Append(s, [item |-> x, flag |-> TRUE])
                 ELSE [s EXCEPT ![it].flag = TRUE]

\* Mutant of Put: push_back of a slot that was not filled in.
PutUnfilled(s, it, x) ==
  IF it > Len(s) THEN Append(s, [flag |-> TRUE])
                 ELSE [s EXCEPT ![it] = [item |-> x, flag |-> TRUE]]

\* push_back of a new slot, or every field of the found one assigned.
Put(s, it, x) ==
  IF it > Len(s) THEN Append(s, [item |-> x, flag |-> TRUE])
                 ELSE [s EXCEPT ![it] = [item |-> x, flag |-> TRUE]]

Add(l, x) ==
  /\ Len(added[l]) < MaxLen
  /\ \E it \in 1..(Len(slots[l]) + 1) :
       /\ StopsAt(slots[l], it)
       /\ slots' = [slots EXCEPT ![l] = Put(@, it, x)]
  /\ added' = [added EXCEPT ![l] = Append(@, x)]
  /\ peak' = [peak EXCEPT ![l] = IF @ <= Len(added[l]) THEN Len(added[l]) + 1 ELSE @]

-----------------------------------------------------------------------------
Init ==
  /\ slots = [l \in Lists |-> <<>>]
  /\ added = [l \in Lists |-> <<>>]
  /\ peak = [l \in Lists |-> 0]

\* Mutant of Clear: the loop over players is missing.
ClearKeepsPlayers ==
  /\ slots' = [l \in Lists |-> IF l = "players" THEN slots[l] ELSE
                 [i \in DOMAIN slots[l] |-> [slots[l][i] EXCEPT !.flag = FALSE]]]
  /\ added' = [l \in Lists |-> <<>>]
  /\ UNCHANGED peak

Clear ==
  /\ slots' = [l \in Lists |->
                 [i \in DOMAIN slots[l] |-> [slots[l][i] EXCEPT !.flag = FALSE]]]
  /\ added' = [l \in Lists |-> <<>>]
  /\ UNCHANGED peak

AddResult(x) == Add("results", x)

AddPlayer(x) == Add("players", x)

AddStep(x) == Add("steps", x)

Next == Clear \/ \E x \in Items : AddResult(x) \/ AddPlayer(x) \/ AddStep(x)

Spec == Init /\ [][Next]_vars

-----------------------------------------------------------------------------
(* Properties *)

\* The valid slots are exactly what was added since clear(), in that order,
\* and they come first: no slot shows what an earlier round wrote, and a
\* reader that stops at the first slot whose flag is down misses nothing.
Recorded ==
  \A l \in Lists : [i \in Valid(l) |-> slots[l][i].item] = added[l]

\* A vector never holds more slots than the longest round needed: clear()
\* without erase() does not make the record of a long-lived table grow.
NoGrowth == \A l \in Lists : Len(slots[l]) <= peak[l]
=============================================================================
