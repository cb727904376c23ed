------------------------------ MODULE MCBuffer ------------------------------
(***************************************************************************)
(* An instance of Buffer for TLC: strings that contain parts of line ends, *)
(* integers of one and of two bytes.                                       *)
(***************************************************************************)
EXTENDS Buffer

MCChunks == {<<10>>, <<13, 10>>}

MCInts == {<<13>>, <<10, 13>>}
=============================================================================
