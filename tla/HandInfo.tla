------------------------------ MODULE HandInfo ------------------------------
(***************************************************************************)
(* handinfo_t of Games/Game_s13s/s13s.h, what the thirteen-card game knows *)
(* of one player's hand: who owns the tree of enumerated groups, and where *)
(* the pointers in groups lead, when hands are copied and swapped.         *)
(*                                                                         *)
(* Cards are abstracted to the player who was dealt them.  groups points   *)
(* to the members enum_groups and manual_group of a hand object (a special *)
(* group behaves like an enumerated one); select_group_index is the        *)
(* pointer it selects.  The bodies of AnalyseHandCards, SelectAs and       *)
(* Select are not in the repository: they are modelled from their          *)
(* declarations and the comments on the members they set.                  *)
(***************************************************************************)
EXTENDS Naturals

CONSTANTS Hands,   \* the hand objects (addresses): handInfos_ of a table
          Players, \* chairID
          Trees,   \* the EnumTree objects ever allocated
          None     \* NULL, -1, or no cards

ASSUME NoneAssumption == None \notin Players \cup Trees

Pointer == Hands \X {"enums", "manual"}

Hand == [chair : Players \cup {None},
         root : Trees \cup {None},      \* rootEnumList
         enums : Players \cup {None},   \* whose cards enum_groups arranges
         manual : Players \cup {None},  \* whose cards manual_group arranges
         groups : SUBSET Pointer,
         selected : Pointer \cup {None}]

VARIABLES hand,  \* hand[h]: the members of the object at h
          alive, \* constructed and not yet destroyed
          live   \* trees allocated and not yet deleted

vars == <<hand, alive, live>>

TypeOK ==
  /\ hand \in [Hands -> Hand]
  /\ alive \in SUBSET Hands
  /\ live \in SUBSET Trees

-----------------------------------------------------------------------------
\* Mutant of Empty: chairID starts as 0 instead of the -1 that None stands
\* for (Players are the chairs, so 0 is neither).
EmptyChairZero == [chair |-> 0, root |-> None, enums |-> None, manual |-> None,
                   groups |-> {}, selected |-> None]

\* handinfo_t(): no tree, no cards, nothing selected.
Empty == [chair |-> None, root |-> None, enums |-> None, manual |-> None,
          groups |-> {}, selected |-> None]

\* handinfo_t::copy, which operator= and the copy constructor call: every
\* member but forswap, the pointers as they are.  Only swap uses it in the
\* repository; a copy kept beside its original would share the tree.
Copy(this, ref) ==
  [this EXCEPT !.chair = ref.chair, !.root = ref.root, !.enums = ref.enums,
               !.manual = ref.manual, !.groups = ref.groups,
               !.selected = ref.selected]

\* ~handinfo_t: the trees it deletes.
Released(this, forswap) == IF forswap THEN {} ELSE {this.root} \ {None}

Init ==
  /\ hand = [h \in Hands |-> Empty]
  /\ alive = Hands
  /\ live = {}

\* Init and AnalyseHandCards: the hand of p is enumerated.
Analyse(h, p) ==
  /\ h \in alive
  /\ hand[h].root = None
  /\ \E t \in Trees \ live :
       /\ live' = live \cup {t}
       /\ hand' = [hand EXCEPT ![h] = [Empty EXCEPT !.chair = p, !.root = t, !.enums = p,
                                                    !.groups = {<<h, "enums">>}]]
  /\ UNCHANGED alive

\* SelectAs: the player arranges the hand himself.
SelectAs(h) ==
  /\ h \in alive
  /\ hand[h].chair # None
  /\ hand' = [hand EXCEPT ![h].manual = hand[h].chair,
                          ![h].groups = @ \cup {<<h, "manual">>}]
  /\ UNCHANGED <<alive, live>>

\* Select: one of groups becomes the player's choice.
Select(h, ptr) ==
  /\ h \in alive
  /\ ptr \in hand[h].groups
  /\ hand' = [hand EXCEPT ![h].selected = ptr]
  /\ UNCHANGED <<alive, live>>

\* Mutant of Swap: the temporary releases the tree it holds.
SwapReleasingTemporary(src, dst) ==
  LET t == Copy(Empty, hand[src])
  IN /\ src \in alive /\ dst \in alive /\ src # dst
     /\ hand' = [hand EXCEPT ![src] = Copy(hand[src], hand[dst]),
                             ![dst] = Copy(hand[dst], t)]
     /\ live' = live \ Released(t, FALSE)
     /\ UNCHANGED alive

\* swap: three copies through a temporary that is destroyed at the end.
Swap(src, dst) ==
  LET t == Copy(Empty, hand[src])
  IN /\ src \in alive /\ dst \in alive /\ src # dst
     /\ hand' = [hand EXCEPT ![src] = Copy(hand[src], hand[dst]),
                             ![dst] = Copy(hand[dst], t)]
     /\ live' = live \ Released(t, TRUE)
     /\ UNCHANGED alive

\* ~handinfo_t of a table's hand.
Destroy(h) ==
  /\ h \in alive
  /\ alive' = alive \ {h}
  /\ live' = live \ Released(hand[h], FALSE)
  /\ UNCHANGED hand

\* handinfo_t() in its place.
Construct(h) ==
  /\ h \notin alive
  /\ alive' = alive \cup {h}
  /\ hand' = [hand EXCEPT ![h] = Empty]
  /\ UNCHANGED live

Next ==
  \E h \in Hands :
    \/ \E p \in Players : Analyse(h, p)
    \/ SelectAs(h)
    \/ \E ptr \in Pointer : Select(h, ptr)
    \/ \E g \in Hands : Swap(h, g)
    \/ Destroy(h)
    \/ Construct(h)

Spec == Init /\ [][Next]_vars

-----------------------------------------------------------------------------
(* Properties *)

\* Every tree belongs to exactly one hand: the one whose destructor will
\* delete it.  None is leaked, deleted twice or used after it was deleted,
\* however hands are swapped.
OwnedOnce ==
  /\ \A t \in live : \E h \in alive : hand[h].root = t
  /\ \A h \in alive : hand[h].root # None => hand[h].root \in live
  /\ \A g, h \in alive : hand[g].root = hand[h].root /\ g # h => hand[g].root = None

\* The group that ptr leads to is an arrangement of whose cards?
Cards(ptr) == IF ptr[2] = "enums" THEN hand[ptr[1]].enums ELSE hand[ptr[1]].manual

\* groups merges the hand's own spec_groups, enum_groups and manual_group,
\* so the selected group arranges the cards of the hand's own player.
SelectsOwnCards ==
  \A h \in alive : hand[h].selected # None => Cards(hand[h].selected) = hand[h].chair
=============================================================================
