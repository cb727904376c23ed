----------------------------- MODULE ByteStream -----------------------------
(***************************************************************************)
(* What muduo::net::Buffer promises: a string of bytes that grows at       *)
(* either end and is consumed from the front.  Where the bytes are kept,   *)
(* and when they are moved or the storage grows, is not visible here.      *)
(***************************************************************************)
EXTENDS Naturals, Sequences

CONSTANTS Data          \* the strings that writers add

VARIABLES content,      \* the bytes written and not yet consumed
          got           \* the bytes the last operation handed out

vars == <<content, got>>

Init == content = <<>> /\ got = <<>>

\* A writer adds bytes behind the ones that are there.
Put(d) == content' = content \o d /\ got' = <<>>

\* A writer adds bytes in front of the ones that are there.
Push(d) == content' = d \o content /\ got' = <<>>

\* A reader receives the first n bytes.
Take(n) ==
  /\ got' = SubSeq(content, 1, n)
  /\ content' = SubSeq(content, n + 1, Len(content))

\* A reader receives the number that the first n bytes encode, most
\* significant byte first, as the bytes of a little-endian host.
Decode(n) ==
  /\ got' = [i \in 1..n |-> content[n + 1 - i]]
  /\ content' = SubSeq(content, n + 1, Len(content))

\* The first n bytes are thrown away.
Drop(n) ==
  /\ content' = SubSeq(content, n + 1, Len(content))
  /\ got' = <<>>

\* The last n bytes are withdrawn.
Withdraw(n) ==
  /\ content' = SubSeq(content, 1, Len(content) - n)
  /\ got' = <<>>

Next ==
  \/ \E d \in Data : Put(d) \/ Push(d)
  \/ \E n \in 0..Len(content) : Take(n) \/ Decode(n) \/ Drop(n) \/ Withdraw(n)

Spec == Init /\ [][Next]_vars
=============================================================================
