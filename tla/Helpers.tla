------------------------------ MODULE Helpers -------------------------------
(***************************************************************************)
(* The helper classes of the servers as a handler uses them: one call at a *)
(* time, in one thread.  A handler encrypts and decrypts, encodes and      *)
(* decodes, or draws by weight from an object of its own.                  *)
(***************************************************************************)
EXTENDS Cipher, HtmlCodec, Weights

vars == <<cipherVars, htmlVars, weightVars>>

Init == CipherInit /\ HtmlInit /\ WeightsInit

Next ==
  \/ html = "idle" /\ given = <<>> /\ CipherNext /\ UNCHANGED <<htmlVars, weightVars>>
  \/ phase = "idle" /\ given = <<>> /\ HtmlNext /\ UNCHANGED <<cipherVars, weightVars>>
  \/ phase = "idle" /\ html = "idle" /\ WeightsNext /\ UNCHANGED <<cipherVars, htmlVars>>

\* A call that has begun runs on: its loops are plain code of one thread.
Spec ==
  /\ Init /\ [][Next]_vars
  /\ WF_vars(CipherStep /\ UNCHANGED <<htmlVars, weightVars>>)
  /\ WF_vars(HtmlStep /\ UNCHANGED <<cipherVars, weightVars>>)
  /\ WF_vars(ShuffleTurn /\ UNCHANGED <<cipherVars, htmlVars>>)

\* The types of the variables of the three classes.
TypeOK == CipherTypeOK /\ HtmlTypeOK /\ WeightsTypeOK

\* Every call ends, whatever bytes the text holds: its loops advance, also
\* over a NUL, or leave their array.
Finishes ==
  /\ phase = "encrypt" ~> phase \in {"text", "undefined"}
  /\ phase = "decrypt" ~> phase \in {"done", "undefined"}
  /\ html = "encode" ~> html = "done"
  /\ turn > 0 ~> turn = 0
=============================================================================
