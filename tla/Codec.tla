------------------------------- MODULE Codec --------------------------------
(***************************************************************************)
(* The wire codec of the journal (crates/wasm-delta/src/codec.rs): LEB128  *)
(* numbers, length-prefixed bytes and the versioned envelope, encoder and  *)
(* strict decoder, with the word and digit widths as parameters: u64 and   *)
(* seven-bit digits in the code, smaller words of the same shape here (the *)
(* last digit a word can need has more bits than the word has left).       *)
(*                                                                         *)
(* A decoder answers with a verdict and, when it is "ok", what it decoded  *)
(* and the bytes it consumed.                                              *)
(***************************************************************************)
EXTENDS Integers, Sequences, FiniteSetsExt

CONSTANTS WordBits,    \* 64 in the code
          DigitBits    \* 7 in the code

ASSUME WidthAssumption == /\ DigitBits \in Nat \ {0}
                          /\ WordBits \in Nat /\ WordBits > DigitBits

\* Powers of two; ^ is opaque to the provers.
Pow2[n \in Nat] == IF n = 0 THEN 1 ELSE 2 * Pow2[n - 1]

Base == Pow2[DigitBits]
WordSize == Pow2[WordBits]
Word == 0..(WordSize - 1)
Byte == 0..(2 * Base - 1)

\* VARNAT_MAX_BYTES: the digits a word can need.
MaxDigits == (WordBits + DigitBits - 1) \div DigitBits

Torn == [verdict |-> "torn"]
Corrupt == [verdict |-> "corrupt"]
Ok(v, n) == [verdict |-> "ok", val |-> v, used |-> n]

\* The bytes from position i on (the slice &bs[i..], positions from 0).
From(bs, i) == SubSeq(bs, i + 1, Len(bs))

-----------------------------------------------------------------------------
(* Numbers.                                                                *)

EncVarnat(n) ==
  LET enc[m \in 0..n] == IF m < Base THEN <<m>>
                         ELSE <<Base + (m % Base)>> \o enc[m \div Base]
  IN enc[n]

\* u64::checked_shl refuses a shift of the word's width or more; bits shifted
\* out of the word are dropped without notice.
ShiftRefused(shift) == shift >= WordBits
Shifted(digit, shift) == (digit * Pow2[shift]) % WordSize

\* The loop adds up digits, from the lowest: what it has after its first i turns.
Sums(terms) ==
  LET sum[i \in {0} \cup DOMAIN terms] == IF i = 0 THEN 0 ELSE sum[i - 1] + terms[i]
  IN sum

\* Turn i refuses one digit too many, a shift or a sum past the word.
Refuses(acc, i) ==
  i > MaxDigits \/ ShiftRefused((i - 1) * DigitBits) \/ acc[i] \notin Word

\* Mutant of Answer: a digit too many reads as the end of the input.
AnswerTorn(acc, i) == IF Refuses(acc, i) THEN Torn ELSE Ok(acc[i], i)

Answer(acc, i) == IF Refuses(acc, i) THEN Corrupt ELSE Ok(acc[i], i)

\* One turn per byte, of which the first that returns decides: it refuses, or it has met
\* the last digit.
Loop(bs, acc) ==
  LET returns == {i \in DOMAIN bs : Refuses(acc, i) \/ bs[i] < Base}
  IN IF returns = {} THEN Torn ELSE Answer(acc, Min(returns))

DecVarnat(bs) ==
  Loop(bs, Sums([i \in DOMAIN bs |-> Shifted(bs[i] % Base, (i - 1) * DigitBits)]))

-----------------------------------------------------------------------------
(* Bytes and envelopes.                                                    *)

EncBytes(p) == EncVarnat(Len(p)) \o p

\* Mutant of DecBytes: a payload that overruns the input is corrupt, not torn.
DecBytesOverrunCorrupt(bs) ==
  LET n == DecVarnat(bs)
  IN IF n.verdict # "ok" THEN n
     ELSE IF Len(bs) - n.used < n.val THEN Corrupt
     ELSE Ok(SubSeq(bs, n.used + 1, n.used + n.val), n.used + n.val)

DecBytes(bs) ==
  LET n == DecVarnat(bs)
  IN IF n.verdict # "ok" THEN n
     ELSE IF Len(bs) - n.used < n.val THEN Torn
     ELSE Ok(SubSeq(bs, n.used + 1, n.used + n.val), n.used + n.val)

EncEnvelope(version, fingerprint, payload) ==
  EncVarnat(version) \o EncVarnat(fingerprint) \o EncBytes(payload)

\* The three items in order; the first that is not there decides.
DecEnvelopePrefix(bs) ==
  LET v == DecVarnat(bs)
      f == DecVarnat(From(bs, v.used))
      p == DecBytes(From(bs, v.used + f.used))
  IN IF v.verdict # "ok" THEN v
     ELSE IF f.verdict # "ok" THEN f
     ELSE IF p.verdict # "ok" THEN p
     ELSE Ok([version |-> v.val, fingerprint |-> f.val, payload |-> p.val],
             v.used + f.used + p.used)
=============================================================================
