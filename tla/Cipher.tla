------------------------------- MODULE Cipher -------------------------------
(***************************************************************************)
(* The text encryption of namespace Crypto (thirdpart/https/aes.h): AES    *)
(* and DES in blocks, with the padding code around them.  A call is a      *)
(* sequence of steps, one per turn of its loop; afterwards the text may be *)
(* decrypted with the same or with another key.                            *)
(*                                                                         *)
(* Bytes are numbers, 0 is NUL.  OpenSSL and Base64 are external: a block  *)
(* of cipher text is the pair of a key schedule and the plain block, and   *)
(* Base64 text is the sequence of the blocks it encodes, which Decode      *)
(* gives back.  AES_set_encrypt_key cannot fail for 128 bits.              *)
(*                                                                         *)
(* Where the code writes or cuts outside its arrays the phase is           *)
(* "undefined": nothing is known of that process any more.                 *)
(***************************************************************************)
EXTENDS Integers, Sequences

CONSTANTS
  KEYCODELENGTH,  \* bytes of an AES block and of a 128-bit key
  AesKeyLengths,  \* bytes of the keys AES_set_decrypt_key accepts
  DesBlock,       \* sizeof(DES_cblock)
  CommandSize,    \* sizeof szCommand, where Des_Encrypt puts its blocks
  Printable,      \* bytes the regular expression of AES_ECBDecrypt accepts
  Texts,          \* the texts that are encrypted
  Keys,           \* the keys in use
  Garbage         \* blocks that decryption with a wrong key may give

Byte == 0..255

ASSUME CipherAssumption ==
  /\ KEYCODELENGTH \in 2..255
  /\ KEYCODELENGTH \in AesKeyLengths
  /\ DesBlock \in 1..255
  /\ CommandSize \in Nat
  /\ Printable \subseteq Byte /\ \A c \in Printable : c > KEYCODELENGTH
  /\ Texts \subseteq Seq(Byte)
  /\ Keys \subseteq Seq(Byte \ {0}) /\ \A k \in Keys : Len(k) >= DesBlock

\* A wrong key gives something for every block.
ASSUME GarbageAssumption ==
  /\ Garbage \subseteq Seq(Byte)
  /\ \A n \in {KEYCODELENGTH, DesBlock} : \E g \in Garbage : Len(g) = n

VARIABLES
  algo,   \* "AES" or "DES", the functions in use
  phase,  \* "idle", "encrypt", "text", "decrypt", "done" or "undefined"
  data,   \* the text to encrypt
  key,    \* the key it is encrypted with
  other,  \* the key it is decrypted with
  pos,    \* the loop's position: bytes for AES encryption, else blocks
  text,   \* the blocks of cipher text
  clear,  \* the bytes decrypted so far
  ret     \* what the decryption returned

cipherVars == <<algo, phase, data, key, other, pos, text, clear, ret>>

-----------------------------------------------------------------------------
\* strlen: the bytes in front of the first NUL; std::string(char const*)
\* keeps these.  The byte behind s is the terminator the code writes.
strlen(s) ==
  CHOOSE n \in 0..Len(s) :
    /\ \A i \in 1..n : s[i] # 0
    /\ n < Len(s) => s[n + 1] = 0

CString(s) == SubSeq(s, 1, strlen(s))

\* Padding: the missing bytes all hold their number.
Padding(s) ==
  s \o [i \in 1..(KEYCODELENGTH - Len(s)) |-> KEYCODELENGTH - Len(s)]

\* StringToHex: one block of the C string s; a null pointer is <<>>.
StringToHex(s) ==
  Padding(SubSeq(s, 1, IF strlen(s) > KEYCODELENGTH THEN KEYCODELENGTH ELSE strlen(s)))

\* Mutant of ClearPadding: the loop stops short of a whole block of padding.
ClearPaddingShort(s) ==
  LET n == Len(s)
      ends == {i \in 2..(KEYCODELENGTH - 1) : s[n - i] # s[n]}
      clearAt(i) == [s EXCEPT ![n - i + 1] = 0]
  IN  IF s[n] # s[n - 1]
        THEN {IF s[n] < KEYCODELENGTH THEN clearAt(1) ELSE s}
        ELSE IF ends = {} THEN {s}
             ELSE {clearAt(i) : i \in {e \in ends : \A f \in ends : e <= f}}

\* ClearPadding: ends the string where the run of equal bytes at its end
\* begins.  In a string of one block the last turn reads the byte in front of
\* the array, which may or may not equal the last byte: both results.
ClearPadding(s) ==
  LET n == Len(s)
      ends == {i \in 2..KEYCODELENGTH : i < n => s[n - i] # s[n]}
      clearAt(i) == [s EXCEPT ![n - i + 1] = 0]
      first == {e \in ends : \A f \in ends : e <= f}
  IN  IF s[n] # s[n - 1]
        THEN {IF s[n] < KEYCODELENGTH THEN clearAt(1) ELSE s}
        ELSE {clearAt(i) : i \in first} \cup {s : i \in {e \in first : e = n}}
                                        \cup (IF ends = {} THEN {s} ELSE {})

\* PKCS5Padding: always adds bytes, each of which holds their number.
PKCS5Padding(s) ==
  LET n == DesBlock - (Len(s) % DesBlock) IN s \o [i \in 1..n |-> n]

\* External: the block ciphers.  Only the schedule that encrypted a block
\* gives it back; another one gives some block of that length.
Crypt(schedule, block) == [schedule |-> schedule, plain |-> block]

Decrypt(schedule, c) ==
  IF c.schedule = schedule THEN {c.plain} ELSE {g \in Garbage : Len(g) = Len(c.plain)}

\* DES_set_key_unchecked takes the first eight bytes of the key.
DesSchedule(k) == SubSeq(k, 1, DesBlock)

-----------------------------------------------------------------------------
CipherInit ==
  /\ algo = "AES" /\ phase = "idle"
  /\ data = <<>> /\ key = <<>> /\ other = <<>>
  /\ pos = 0 /\ text = <<>> /\ clear = <<>> /\ ret = <<>>

\* AES_ECBEncrypt or Des_Encrypt is called.
BeginEncrypt(a, d, k) ==
  /\ phase = "idle"
  /\ phase' = "encrypt"
  /\ algo' = a /\ data' = d /\ key' = k
  /\ pos' = 0 /\ text' = <<>>
  /\ UNCHANGED <<other, clear, ret>>

In(a, p) == algo = a /\ phase = p

\* Mutant of AesEncryptBlock: goes on by the length of the C string it took.
AesEncryptBlockByString ==
  LET rest == SubSeq(data, pos + 1, Len(data))
      n == IF strlen(rest) > KEYCODELENGTH THEN KEYCODELENGTH ELSE strlen(rest)
  IN  /\ In("AES", "encrypt") /\ pos < Len(data)
      /\ text' = IF n = 0 THEN text
                 ELSE Append(text, Crypt(StringToHex(key), StringToHex(rest)))
      /\ pos' = pos + n
      /\ UNCHANGED <<algo, phase, data, key, other, clear, ret>>

\* Mutant of AesEncryptBlock: the source pointer is advanced twice.
AesEncryptBlockTwice ==
  /\ In("AES", "encrypt") /\ pos < Len(data)
  /\ text' = Append(text, Crypt(StringToHex(key),
                                StringToHex(SubSeq(data, pos + 1, Len(data)))))
  /\ pos' = pos + 2 * KEYCODELENGTH
  /\ UNCHANGED <<algo, phase, data, key, other, clear, ret>>

AesEncryptBlock ==
  /\ In("AES", "encrypt") /\ pos < Len(data)
  /\ text' = Append(text, Crypt(StringToHex(key),
                                StringToHex(SubSeq(data, pos + 1, Len(data)))))
  /\ pos' = pos + KEYCODELENGTH
  /\ UNCHANGED <<algo, phase, data, key, other, clear, ret>>

\* A text that fills its blocks gets one more block, of padding alone.
AesEncryptEnd ==
  LET nDestLen == (Len(data) \div KEYCODELENGTH) * KEYCODELENGTH + KEYCODELENGTH
  IN  /\ In("AES", "encrypt") /\ pos >= Len(data)
      /\ text' = IF Len(text) * KEYCODELENGTH < nDestLen
                   THEN Append(text, Crypt(StringToHex(key), StringToHex(<<>>)))
                   ELSE text
      /\ phase' = "text"
      /\ UNCHANGED <<algo, data, key, other, pos, clear, ret>>

\* The loop of Des_Encrypt, which goes over the padded text.
DesLoop == In("DES", "encrypt") /\ pos < Len(data) \div DesBlock + 1

DesEncryptBlock ==
  /\ DesLoop /\ (pos + 1) * DesBlock <= CommandSize
  /\ text' = Append(text, Crypt(DesSchedule(key),
               SubSeq(PKCS5Padding(data), pos * DesBlock + 1, (pos + 1) * DesBlock)))
  /\ pos' = pos + 1
  /\ UNCHANGED <<algo, phase, data, key, other, clear, ret>>

\* The block goes to szCommand without a check for its end.
DesOverrun ==
  /\ DesLoop /\ (pos + 1) * DesBlock > CommandSize
  /\ phase' = "undefined"
  /\ UNCHANGED <<algo, data, key, other, pos, text, clear, ret>>

DesEncryptEnd ==
  /\ In("DES", "encrypt") /\ pos = Len(data) \div DesBlock + 1
  /\ phase' = "text"
  /\ UNCHANGED <<algo, data, key, other, pos, text, clear, ret>>

\* AES_ECBDecrypt is called: the key must have one of the AES lengths.
AesBeginDecrypt(k) ==
  /\ In("AES", "text")
  /\ other' = k
  /\ pos' = 0 /\ clear' = <<>>
  /\ IF text # <<>> /\ Len(k) \in AesKeyLengths
       THEN phase' = "decrypt" /\ ret' = ret
       ELSE phase' = "done" /\ ret' = <<>>
  /\ UNCHANGED <<algo, data, key, text>>

AesDecryptBlock ==
  /\ In("AES", "decrypt") /\ pos < Len(text)
  /\ \E plain \in Decrypt(other, text[pos + 1]) : clear' = clear \o plain
  /\ pos' = pos + 1
  /\ UNCHANGED <<algo, phase, data, key, other, text, ret>>

\* The result is returned only if it matches the regular expression.
AesDecryptEnd ==
  /\ In("AES", "decrypt") /\ pos = Len(text)
  /\ \E dst \in ClearPadding(clear) :
       LET s == CString(dst)
       IN  ret' = IF s # <<>> /\ \A i \in 1..Len(s) : s[i] \in Printable THEN s ELSE <<>>
  /\ phase' = "done"
  /\ UNCHANGED <<algo, data, key, other, pos, text, clear>>

\* Des_Decrypt is called.
DesBeginDecrypt(k) ==
  /\ In("DES", "text")
  /\ other' = k
  /\ pos' = 0 /\ clear' = <<>>
  /\ phase' = "decrypt"
  /\ UNCHANGED <<algo, data, key, text, ret>>

DesDecryptBlock ==
  /\ In("DES", "decrypt") /\ pos < Len(text)
  /\ \E plain \in Decrypt(DesSchedule(other), text[pos + 1]) : clear' = clear \o plain
  /\ pos' = pos + 1
  /\ UNCHANGED <<algo, phase, data, key, other, text, ret>>

\* The number of bytes to cut off is taken from the decrypted text.
nPadNum == clear[Len(text) * DesBlock]

DesDecryptEnd ==
  /\ In("DES", "decrypt") /\ pos = Len(text)
  /\ nPadNum <= Len(clear)
  /\ ret' = SubSeq(clear, 1, Len(clear) - nPadNum)
  /\ phase' = "done"
  /\ UNCHANGED <<algo, data, key, other, pos, text, clear>>

\* end() - nPadNum lies in front of begin().
DesUnderrun ==
  /\ In("DES", "decrypt") /\ pos = Len(text)
  /\ nPadNum > Len(clear)
  /\ phase' = "undefined"
  /\ UNCHANGED <<algo, data, key, other, pos, text, clear, ret>>

\* The result has been used and nothing of the call remains, or a new process
\* has taken the place of one of which nothing is known.
CipherReturn ==
  /\ phase \in {"done", "undefined"}
  /\ algo' = "AES" /\ phase' = "idle"
  /\ data' = <<>> /\ key' = <<>> /\ other' = <<>>
  /\ pos' = 0 /\ text' = <<>> /\ clear' = <<>> /\ ret' = <<>>

\* A step of the loops and of what follows them.
CipherStep ==
  \/ AesEncryptBlock \/ AesEncryptEnd \/ DesEncryptBlock \/ DesEncryptEnd
  \/ AesDecryptBlock \/ AesDecryptEnd \/ DesDecryptBlock \/ DesDecryptEnd
  \/ DesOverrun \/ DesUnderrun

CipherNext ==
  \/ \E a \in {"AES", "DES"}, d \in Texts, k \in Keys : BeginEncrypt(a, d, k)
  \/ \E k \in Keys : AesBeginDecrypt(k) \/ DesBeginDecrypt(k)
  \/ CipherStep
  \/ CipherReturn

-----------------------------------------------------------------------------
CipherTypeOK ==
  /\ algo \in {"AES", "DES"}
  /\ phase \in {"idle", "encrypt", "text", "decrypt", "done", "undefined"}
  /\ data \in Texts \cup {<<>>}
  /\ {key, other} \subseteq Keys \cup {<<>>}
  /\ pos \in 0..(Len(data) + KEYCODELENGTH)
  /\ clear \in Seq(Byte) /\ ret \in Seq(Byte)
  /\ text \in Seq([schedule : Seq(Byte), plain : Seq(Byte)])

\* Decryption with a DES key of another schedule.
WrongKey == DesSchedule(other) # DesSchedule(key)

\* What Des_Encrypt encrypts, Des_Decrypt gives back with the same schedule:
\* every sequence of bytes that fits szCommand with its padding, NUL and the
\* values of the padding included.  Only a longer text, or another schedule,
\* makes DES leave its arrays, and AES never does.  What AES_ECBEncrypt
\* encrypts with a key of one block, AES_ECBDecrypt gives back with that key
\* if it is printable: also the empty text, one that ends with its block and
\* every length of the last block.  A key that only AES encryption accepts,
\* because it pads or cuts it, never yields a wrong text but the empty one.
CipherRoundTrip ==
  /\ In("DES", "done") => ret = data \/ WrongKey
  /\ phase = "undefined" =>
       algo = "DES" /\ (Len(PKCS5Padding(data)) > CommandSize \/ WrongKey)
  /\ In("AES", "done") /\ other = key /\ (\A i \in 1..Len(data) : data[i] \in Printable) =>
       /\ Len(key) = KEYCODELENGTH => ret = data
       /\ Len(key) \notin AesKeyLengths => ret = <<>>
=============================================================================
