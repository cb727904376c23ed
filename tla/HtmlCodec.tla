----------------------------- MODULE HtmlCodec ------------------------------
(***************************************************************************)
(* HTML::Encode and HTML::Decode (thirdpart/https/htmlcodec.h): one        *)
(* boost::replace_all over the text per entry of the table codes, in the   *)
(* order of the table, in both directions.                                 *)
(*                                                                         *)
(* A text is a sequence of tokens: the character "&", the characters the   *)
(* other entries replace, the rest of an entity's spelling (its name and   *)
(* the semicolon, "lt;"), and ordinary characters.  An entity is "&"       *)
(* followed by its name.                                                   *)
(***************************************************************************)
EXTENDS Integers, Sequences, SequencesExt

CONSTANTS
  Tokens,     \* what texts are made of
  codes,      \* the table: a sequence of records [src, name]
  HtmlTexts   \* the texts that are encoded

ASSUME CodesAssumption ==
  /\ codes \in Seq([src : Tokens, name : Tokens]) /\ codes # <<>>
  /\ HtmlTexts \subseteq Seq(Tokens)
  /\ codes[1].src = "&"
  /\ \A i, j \in 1..Len(codes) : codes[i].src # codes[j].name
  /\ \A i, j \in 1..Len(codes) :
       codes[i].src = codes[j].src \/ codes[i].name = codes[j].name => i = j

VARIABLES
  html,     \* "idle", "encode", "decode" or "done"
  source,   \* the text that was given to Encode
  rs,       \* the text being rewritten
  code      \* entries of codes already applied

htmlVars == <<html, source, rs, code>>

-----------------------------------------------------------------------------
\* replace_all of the character src by its entity.
ReplaceBySrc(t, c) ==
  FlattenSeq([i \in 1..Len(t) |-> IF t[i] = c.src THEN <<"&", c.name>> ELSE <<t[i]>>])

\* Whether the entity of c stands at position i of t.
EntityAt(t, c, i) == i \in 1..(Len(t) - 1) /\ t[i] = "&" /\ t[i + 1] = c.name

\* Mutant of ReplaceByEntity: only the first occurrence is replaced.
ReplaceFirstEntity(t, c) ==
  LET at == {i \in 1..Len(t) : EntityAt(t, c, i)}
      first(i) == i \in at /\ \A j \in at : i <= j
  IN  FlattenSeq([i \in 1..Len(t) |-> IF first(i) THEN <<c.src>>
                                      ELSE IF first(i - 1) THEN <<>> ELSE <<t[i]>>])

\* replace_all of the entity of c by its character: occurrences cannot
\* overlap, and what has been replaced is not looked at again.
ReplaceByEntity(t, c) ==
  FlattenSeq([i \in 1..Len(t) |-> IF EntityAt(t, c, i) THEN <<c.src>>
                                  ELSE IF EntityAt(t, c, i - 1) THEN <<>> ELSE <<t[i]>>])

-----------------------------------------------------------------------------
HtmlInit == html = "idle" /\ source = <<>> /\ rs = <<>> /\ code = 0

\* HTML::Encode(t) is called.
BeginEncode(t) ==
  /\ html = "idle"
  /\ html' = "encode" /\ source' = t /\ rs' = t /\ code' = 0

\* One turn of the loop of Encode.
EncodeCode ==
  /\ html = "encode" /\ code < Len(codes)
  /\ rs' = ReplaceBySrc(rs, codes[code + 1])
  /\ code' = code + 1
  /\ UNCHANGED <<html, source>>

\* Encode has returned and its result is given to Decode.
BeginDecode ==
  /\ html = "encode" /\ code = Len(codes)
  /\ html' = "decode" /\ code' = 0
  /\ UNCHANGED <<source, rs>>

\* One turn of the loop of Decode.
DecodeCode ==
  /\ html = "decode" /\ code < Len(codes)
  /\ rs' = ReplaceByEntity(rs, codes[code + 1])
  /\ code' = code + 1
  /\ UNCHANGED <<html, source>>

DecodeEnd ==
  /\ html = "decode" /\ code = Len(codes)
  /\ html' = "done"
  /\ UNCHANGED <<source, rs, code>>

\* The result has been used; nothing of the calls remains.
HtmlReturn ==
  /\ html = "done"
  /\ html' = "idle" /\ source' = <<>> /\ rs' = <<>> /\ code' = 0

HtmlStep == EncodeCode \/ BeginDecode \/ DecodeCode \/ DecodeEnd

HtmlNext == (\E t \in HtmlTexts : BeginEncode(t)) \/ HtmlStep \/ HtmlReturn

-----------------------------------------------------------------------------
HtmlTypeOK ==
  /\ html \in {"idle", "encode", "decode", "done"}
  /\ source \in HtmlTexts \cup {<<>>}
  /\ code \in 0..Len(codes)
  /\ rs \in Seq(Tokens)

\* A text that spells out no entity but "&amp;" survives Encode and Decode,
\* whatever characters of the table it holds and in whatever order: no entry
\* of the table destroys what an earlier one has written, in either loop.
HtmlRoundTrip ==
  html = "done" =>
    \/ rs = source
    \/ \E c \in 2..Len(codes), i \in 1..Len(source) : EntityAt(source, codes[c], i)

\* The comment on Decode: "&amp;" is turned back behind all other entities,
\* so that what Encode made of any text comes back as that text.
DecodeUndoesEncode == html = "done" => rs = source
=============================================================================
