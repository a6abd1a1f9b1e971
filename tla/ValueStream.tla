----------------------------- MODULE ValueStream ----------------------------
(***************************************************************************)
(* The decoders of numbers, byte strings, envelopes, typed values and      *)
(* changes looking at a stream that arrives byte by byte.  The recovery    *)
(* scan relies on verdicts that can only sharpen: "torn" while bytes are   *)
(* missing, and once it is something else, no further byte changes it.     *)
(***************************************************************************)
EXTENDS ValueCodec, ByteStream

CONSTANT Samples       \* types, with values of each: [types -> sets of values]

-----------------------------------------------------------------------------

\* A verdict other than torn is final, also of typed values and of the changes of every
\* table.
VerdictsSharpen ==
  /\ FramesSharpen
  /\ \A ty \in DOMAIN Samples : Sharpens(DecValue(ty, bs), DecValue(ty, bs'))
  /\ \A t \in DOMAIN SchemaOf :
       Sharpens(DecChange(SchemaOf[t], bs), DecChange(SchemaOf[t], bs'))

\* decode_encodeValue_append: a value comes back from its own bytes whatever follows them.
ValuesReturn ==
  Len(bs) <= 2 =>
    \A ty \in DOMAIN Samples : \A v \in Samples[ty] :
      DecValue(ty, EncValue(ty, v) \o bs) = Ok(v, Len(EncValue(ty, v)))

\* What dec_value accepts, minimal or not, wrapped or not, is a value of the type, and the
\* bytes enc_value writes for it decode to it again: what a host reads from a journal or a
\* guest it can write back.
DecodedIsAValue ==
  \A ty \in DOMAIN Samples :
    LET d == DecValue(ty, bs)
    IN d.verdict = "ok" => /\ d.used <= Len(bs)
                           /\ ValueTyMatches(ty, d.val)
                           /\ DecValue(ty, EncValue(ty, d.val)).val = d.val
=============================================================================
