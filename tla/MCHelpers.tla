----------------------------- MODULE MCHelpers ------------------------------
(***************************************************************************)
(* An instance of Helpers for TLC: blocks of three and of two bytes, a DES *)
(* array of three blocks, texts that end inside, at and behind a block and *)
(* behind the array, with NUL and padding values, keys that differ within  *)
(* and behind the DES key; texts with entities spelled out; lists of       *)
(* weights of different lengths, with zeros and with ties.                 *)
(***************************************************************************)
EXTENDS Helpers

MCTexts == BoundedSeq({65}, 6) \cup BoundedSeq({65, 66}, 4) \cup BoundedSeq({0, 2, 65}, 3)

MCKeys == {<<65, 66, 67>>, <<67, 66, 65>>, <<65, 66>>, <<65, 66, 67, 68>>, <<65, 66, 67, 68, 69>>}

\* The last byte of a block is what Des_Decrypt takes for the padding: none, a
\* part of the text, more than a short text, more than any.
MCGarbage == {<<65, 65, 65>>, <<66, 2, 2>>, <<0, 1, 1>>,
              <<65, 0>>, <<0, 1>>, <<2, 3>>, <<65, 65>>}

MCCodes == <<[src |-> "&", name |-> "amp;"],
             [src |-> "<", name |-> "lt;"],
             [src |-> " ", name |-> "nbsp;"]>>

MCTokens == {"&", "<", " ", "amp;", "lt;", "nbsp;", "x"}

MCHtmlTexts == BoundedSeq(MCTokens \ {" "}, 4)

MCWeightLists == {w \in BoundedSeq(0..3, 3) : \E i \in 1..Len(w) : w[i] > 0}
=============================================================================
