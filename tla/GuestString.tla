----------------------------- MODULE GuestString -----------------------------
(***************************************************************************)
(* The strings of the guest runtime (lean/wasm-backend/runtime.wat): an    *)
(* object that holds its length in bytes, and its bytes behind it.  A      *)
(* string is built from a chain of boxed characters in two passes: one     *)
(* counts the bytes to size the block, one encodes into it.                *)
(***************************************************************************)
EXTENDS Naturals, FiniteSets, SequencesExt

CONSTANTS Chars,       \* code points a guest puts in a chain
          MaxChars     \* bound: characters of a chain

\* Four bytes carry 21 bits; a character has no more.
ASSUME CharsAssumption == \A cp \in Chars : cp \in Nat /\ cp < 2097152

VARIABLE chain         \* the chain: its code points from the head

GuestInit == chain = <<>>

Prepend(cp) ==
  /\ Len(chain) < MaxChars
  /\ chain' = <<cp>> \o chain

GuestNext == \E cp \in Chars : Prepend(cp)

GuestSpec == GuestInit /\ [][GuestNext]_chain

-----------------------------------------------------------------------------
(* $string_oflist.                                                         *)

\* Mutant of EncodedBytes: the first bound is off by one.
EncodedBytesOneOff(cp) == 1 + Cardinality({bound \in {129, 2048, 65536} : cp >= bound})

\* The bytes of a character.
EncodedBytes(cp) == 1 + Cardinality({bound \in {128, 2048, 65536} : cp >= bound})

\* The first pass.
Counted(list) ==
  LET n[i \in 0..Len(list)] == IF i = 0 THEN 0 ELSE n[i - 1] + EncodedBytes(list[i])
  IN n[Len(list)]

\* The six bits of cp from the one worth `unit` on, as a byte behind the first.
Cont(cp, unit) == 128 + ((cp \div unit) % 64)

\* The second pass.
Encode(cp) ==
  CASE cp < 128 -> <<cp>>
    [] cp >= 128 /\ cp < 2048 -> <<192 + cp \div 64, Cont(cp, 1)>>
    [] cp >= 2048 /\ cp < 65536 -> <<224 + cp \div 4096, Cont(cp, 64), Cont(cp, 1)>>
    [] cp >= 65536 -> <<240 + cp \div 262144, Cont(cp, 4096), Cont(cp, 64), Cont(cp, 1)>>

Encoded(list) == FlattenSeq([i \in DOMAIN list |-> Encode(list[i])])

string_oflist(list) == [len |-> Counted(list), bytes |-> Encoded(list)]

-----------------------------------------------------------------------------
(* The operations on strings.                                              *)

string_len(s) == s.len

string_cat(a, b) ==
  [len |-> a.len + b.len,
   bytes |-> [i \in 1..(a.len + b.len) |->
                IF i <= a.len THEN a.bytes[i] ELSE b.bytes[i - a.len]]]

\* One object is equal to itself without a walk, which is no other answer.
string_eq(a, b) ==
  /\ a.len = b.len
  /\ \A i \in 1..a.len : a.bytes[i] = b.bytes[i]

-----------------------------------------------------------------------------

\* The two passes agree: what is written fills the block that was asked for, and the
\* length is the number of characters exactly where all of them are ASCII.
BlockFilled ==
  LET s == string_oflist(chain)
  IN /\ string_len(s) = Len(s.bytes)
     /\ string_len(s) = Len(chain) <=> \A i \in DOMAIN chain : chain[i] < 128

\* UTF-8 read back, byte by byte: the characters so far, the bits of one begun, and how
\* many bytes its first announced that are still to come, four where it is no UTF-8.
Following(r, byte) ==
  LET bits == 64 * r.now + (byte % 64)
      read(cp) == [text |-> Append(r.text, cp), now |-> 0, owed |-> 0]
      begun(value, owed) == [text |-> r.text, now |-> value, owed |-> owed]
      follows == byte >= 128 /\ byte < 192
  IN CASE r.owed = 0 /\ byte < 128 -> read(byte)
       [] r.owed = 0 /\ byte >= 192 /\ byte < 224 -> begun(byte % 32, 1)
       [] r.owed = 0 /\ byte >= 224 /\ byte < 240 -> begun(byte % 16, 2)
       [] r.owed = 0 /\ byte >= 240 /\ byte < 248 -> begun(byte % 8, 3)
       [] r.owed = 1 /\ follows -> read(bits)
       [] r.owed \in {2, 3} /\ follows -> begun(bits, r.owed - 1)
       [] OTHER -> begun(0, 4)

Decoded(bytes) ==
  LET r[i \in 0..Len(bytes)] == IF i = 0 THEN [text |-> <<>>, now |-> 0, owed |-> 0]
                                ELSE Following(r[i - 1], bytes[i])
  IN r[Len(bytes)]

\* The bytes of a string spell the characters it was built from.
TextReturns == Decoded(string_oflist(chain).bytes) = [text |-> chain, now |-> 0, owed |-> 0]

\* However a text is cut in two, the strings of the halves concatenate to its string.
CatIsAppend ==
  \A i \in 0..Len(chain) :
    string_cat(string_oflist(SubSeq(chain, 1, i)), string_oflist(SubSeq(chain, i + 1, Len(chain))))
      = string_oflist(chain)

\* Two strings are equal exactly when their texts are: one changed character or one
\* missing character is noticed.
EqualMeansSame ==
  LET same(other) == string_eq(string_oflist(chain), string_oflist(other)) <=> chain = other
  IN \A i \in DOMAIN chain :
       /\ \A cp \in Chars : same(ReplaceAt(chain, i, cp))
       /\ same(RemoveAt(chain, i))

\* A guest string fills its block, spells its characters, and is concatenated and
\* compared as its text.
StringsAreTexts == BlockFilled /\ TextReturns /\ CatIsAppend /\ EqualMeansSame
=============================================================================
