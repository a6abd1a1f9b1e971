----------------------------- MODULE ByteStream -----------------------------
(***************************************************************************)
(* The number decoder looking at a stream that arrives byte by byte: bs is *)
(* what a partial write left so far.                                       *)
(***************************************************************************)
EXTENDS Codec

CONSTANT MaxBytes      \* bound: length of the stream

VARIABLE bs

StreamInit == bs = <<>>

ByteArrives(b) ==
  /\ Len(bs) < MaxBytes
  /\ bs' = Append(bs, b)

StreamNext == \E b \in Byte : ByteArrives(b)

StreamSpec == StreamInit /\ [][StreamNext]_bs

-----------------------------------------------------------------------------

\* The number the first n digits of a stream spell, at full precision.
Spelled(s, n) == Sums([i \in DOMAIN s |-> (s[i] % Base) * Pow2[(i - 1) * DigitBits]])[n]

\* What dec_varnat accepts within the word it decodes exactly, and it consumes the
\* digits up to the first without a continuation bit and no more.
NumberExact ==
  LET d == DecVarnat(bs)
  IN d.verdict = "ok" =>
       /\ \A i \in 1..d.used : (bs[i] >= Base) <=> (i < d.used)
       /\ Spelled(bs, d.used) \in Word => d.val = Spelled(bs, d.used)

\* dec_varnat gives back every word enc_varnat wrote.
EveryWordReturns ==
  bs # <<>> => \A n \in Word : bs = EncVarnat(n) => DecVarnat(bs) = Ok(n, Len(bs))

\* "Torn when the input ends before the terminating digit": a number is torn
\* exactly while every byte so far has the continuation bit and more may come.
TornMeansUnfinished ==
  DecVarnat(bs).verdict = "torn" <=>
    /\ Len(bs) <= MaxDigits
    /\ \A i \in 1..Len(bs) : bs[i] >= Base

\* dec_varnat and enc_varnat: a number is what its digits spell, every word returns, and a
\* number is torn exactly while its last digit may still come.
NumbersExact == NumberExact /\ EveryWordReturns /\ TornMeansUnfinished

\* A verdict other than torn is final, of numbers, byte strings and envelopes.
Sharpens(before, after) == before.verdict # "torn" => after = before
FramesSharpen ==
  /\ Sharpens(DecVarnat(bs), DecVarnat(bs'))
  /\ Sharpens(DecBytes(bs), DecBytes(bs'))
  /\ Sharpens(DecEnvelopePrefix(bs), DecEnvelopePrefix(bs'))
=============================================================================
