----------------------------- MODULE ValueCodec -----------------------------
(***************************************************************************)
(* Typed values, rows, changes and journal entries on the wire             *)
(* (crates/wasm-delta/src/value.rs, row.rs and the payload codec of        *)
(* log.rs), over the numbers and byte strings of Codec.                    *)
(*                                                                         *)
(* A type is a sequence of its name and its arguments, <<"opt", t>>.       *)
(* "u16" stands for the unsigned types narrower than a word, "i16" for the *)
(* signed ones, "char" for the items of a string.  Values are numbers,     *)
(* BOOLEANs and sequences: <<>> or <<x>> for an option, <<0, x>> or        *)
(* <<1, e>> for a result.  A schema is the sequence of its fields' types,  *)
(* the first the key's.                                                    *)
(***************************************************************************)
EXTENDS Codec, SequencesExt

CONSTANTS NarrowBits,    \* 8 to 32 in the code
          Scalars,       \* the numbers that are characters (char::from_u32)
          SchemaOf       \* SchemaSet: [table names -> sequences of types]

Narrow == 0..(2 ^ NarrowBits - 1)
SignedNarrow == -(2 ^ (NarrowBits - 1))..(2 ^ (NarrowBits - 1) - 1)
SignedWord == -(2 ^ (WordBits - 1))..(2 ^ (WordBits - 1) - 1)

Zigzag(i) == IF i >= 0 THEN 2 * i ELSE -2 * i - 1

Unzigzag(n) == IF n % 2 = 0 THEN n \div 2 ELSE -(n \div 2) - 1

\* Mutant of AsNarrow: the value is kept as it is.
AsIs(i) == i

\* The cast `as i16`: what does not fit wraps.
AsNarrow(i) == ((i + 2 ^ (NarrowBits - 1)) % 2 ^ NarrowBits) - 2 ^ (NarrowBits - 1)

RECURSIVE ValueTyMatches(_, _)
ValueTyMatches(ty, v) ==
  CASE ty[1] = "bool" -> v \in BOOLEAN
    [] ty[1] = "u8" -> v \in Byte
    [] ty[1] = "u16" -> v \in Narrow
    [] ty[1] = "u64" -> v \in Word
    [] ty[1] = "i16" -> v \in SignedNarrow
    [] ty[1] = "i64" -> v \in SignedWord
    [] ty[1] = "char" -> v \in Scalars
    [] ty[1] = "str" -> v \in Seq(Scalars)
    [] ty[1] = "bytes" -> v \in Seq(Byte)
    [] ty[1] = "opt" -> v = <<>> \/ ValueTyMatches(ty[2], v[1])
    [] ty[1] = "res" -> ValueTyMatches(ty[2 + v[1]], v[2])
    [] ty[1] = "list" -> \A i \in DOMAIN v : ValueTyMatches(ty[2], v[i])

Copies(n, ty) == [i \in 1..n |-> ty]

RECURSIVE EncValue(_, _)
EncMany(types, values) == FlattenSeq([i \in DOMAIN types |-> EncValue(types[i], values[i])])
EncValue(ty, v) ==
  CASE ty[1] = "bool" -> <<IF v THEN 1 ELSE 0>>
    [] ty[1] = "u8" -> <<v>>
    [] ty[1] \in {"u16", "u64", "char"} -> EncVarnat(v)
    [] ty[1] \in {"i16", "i64"} -> EncVarnat(Zigzag(v))
    [] ty[1] = "bytes" -> EncBytes(v)
    [] ty[1] = "str" -> EncVarnat(Len(v)) \o EncMany(Copies(Len(v), <<"char">>), v)
    [] ty[1] = "list" -> EncVarnat(Len(v)) \o EncMany(Copies(Len(v), ty[2]), v)
    [] ty[1] = "opt" -> IF v = <<>> THEN <<0>> ELSE <<1>> \o EncValue(ty[2], v[1])
    [] ty[1] = "res" -> <<v[1]>> \o EncValue(ty[2 + v[1]], v[2])

-----------------------------------------------------------------------------
(* Decoding.                                                               *)

\* The operator `?`: a failure is the answer, a success goes on.
Try(d, Go(_)) == IF d.verdict = "ok" THEN Go(d) ELSE d

\* Go on with d's value turned into v, or refused.
Accept(d, ok, v) == IF ok THEN Ok(v, d.used) ELSE Corrupt

DecTag(bs) ==
  IF bs = <<>> THEN Torn ELSE IF bs[1] \in {0, 1} THEN Ok(bs[1], 1) ELSE Corrupt

\* What Dec finds behind d, with the bytes of both.
Behind(d, bs, Dec(_)) ==
  Try(Dec(From(bs, d.used)), LAMBDA e : Ok(e.val, d.used + e.used))

RECURSIVE DecValue(_, _), DecMany(_, _)
\* A row's fields, or a list's items, in order.
DecMany(types, bs) ==
  IF types = <<>> THEN Ok(<<>>, 0)
  ELSE Try(DecValue(Head(types), bs), LAMBDA x :
         Behind(x, bs, LAMBDA rest :
           Try(DecMany(Tail(types), rest), LAMBDA xs : Ok(<<x.val>> \o xs.val, xs.used))))
DecValue(ty, bs) ==
  CASE ty[1] = "bool" -> Try(DecTag(bs), LAMBDA d : Ok(d.val = 1, 1))
    [] ty[1] = "u8" -> IF bs = <<>> THEN Torn ELSE Ok(bs[1], 1)
    [] ty[1] = "u16" -> Try(DecVarnat(bs), LAMBDA d : Accept(d, d.val \in Narrow, d.val))
    [] ty[1] = "u64" -> DecVarnat(bs)
    [] ty[1] = "char" -> Try(DecVarnat(bs), LAMBDA d : Accept(d, d.val \in Scalars, d.val))
    [] ty[1] = "i16" -> Try(DecVarnat(bs), LAMBDA d : Ok(AsNarrow(Unzigzag(d.val)), d.used))
    [] ty[1] = "i64" -> Try(DecVarnat(bs), LAMBDA d : Ok(Unzigzag(d.val), d.used))
    [] ty[1] = "bytes" -> DecBytes(bs)
    [] ty[1] \in {"str", "list"} ->
         Try(DecVarnat(bs), LAMBDA n : Behind(n, bs, LAMBDA rest :
           DecMany(Copies(n.val, IF ty[1] = "str" THEN <<"char">> ELSE ty[2]), rest)))
    [] ty[1] = "opt" ->
         Try(DecTag(bs), LAMBDA t :
           IF t.val = 0 THEN Ok(<<>>, 1)
           ELSE Behind(t, bs, LAMBDA rest : DecMany(<<ty[2]>>, rest)))
    [] ty[1] = "res" ->
         Try(DecTag(bs), LAMBDA t : Behind(t, bs, LAMBDA rest :
           Try(DecValue(ty[2 + t.val], rest), LAMBDA x : Ok(<<t.val, x.val>>, x.used))))

-----------------------------------------------------------------------------
(* Changes and entries: [table, change, inverse] with changes [tag, row];  *)
(* the row of a removal is the key alone.                                  *)

\* Change::tag
ChangeTag == [insert |-> 0, update |-> 1, remove |-> 2]

\* A table's name travels as a string.
EncString(s) == EncValue(<<"str">>, s)
DecString(bs) == DecValue(<<"str">>, bs)

Carries(tag, schema) == IF tag = ChangeTag.remove THEN <<schema[1]>> ELSE schema

EncChange(schema, c) == EncVarnat(c.tag) \o EncMany(Carries(c.tag, schema), c.row)

DecChange(schema, bs) ==
  Try(DecVarnat(bs), LAMBDA t :
    IF t.val \notin Range(ChangeTag) THEN Corrupt
    ELSE Behind(t, bs, LAMBDA rest :
           Try(DecMany(Carries(t.val, schema), rest), LAMBDA row :
             Ok([tag |-> t.val, row |-> row.val], row.used))))

EntryBytes(schemas, e) ==
  EncString(e.table) \o EncChange(schemas[e.table], e.change)
                     \o EncChange(schemas[e.table], e.inverse)

\* Mutant of ReadEntry: bytes behind the entry are ignored.
ReadEntryLoose(schemas, payload) ==
  LET t == DecString(payload)
      c == DecChange(schemas[t.val], From(payload, t.used))
      i == DecChange(schemas[t.val], From(payload, t.used + c.used))
  IN IF t.verdict = "ok" /\ t.val \in DOMAIN schemas /\ c.verdict = "ok" /\ i.verdict = "ok"
     THEN Ok([table |-> t.val, change |-> c.val, inverse |-> i.val], t.used + c.used + i.used)
     ELSE Corrupt

\* No entry, torn or corrupt, is one answer: None.
ReadEntry(schemas, payload) ==
  LET t == DecString(payload)
      c == DecChange(schemas[t.val], From(payload, t.used))
      i == DecChange(schemas[t.val], From(payload, t.used + c.used))
  IN IF /\ t.verdict = "ok" /\ t.val \in DOMAIN schemas
        /\ c.verdict = "ok" /\ i.verdict = "ok"
        /\ t.used + c.used + i.used = Len(payload)
     THEN Ok([table |-> t.val, change |-> c.val, inverse |-> i.val], Len(payload))
     ELSE Corrupt

EncEntryPayload(e) == EntryBytes(SchemaOf, e)
DecEntryPayload(payload) == ReadEntry(SchemaOf, payload)
=============================================================================
