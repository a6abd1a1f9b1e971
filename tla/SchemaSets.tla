----------------------------- MODULE SchemaSets ------------------------------
(***************************************************************************)
(* What pins a journal to the schemas it was written under                 *)
(* (crates/wasm-delta/src/log.rs and row.rs): every record carries the     *)
(* fingerprint of the schema set, a hash of the names and types in it run  *)
(* together.  Here two schema sets, the one a journal was written under    *)
(* and the one it is opened with, are registered table by table; that two  *)
(* texts hash alike by chance is left out, that two sets have one text is  *)
(* not.                                                                    *)
(*                                                                         *)
(* A schema is the sequence of its fields, [name, ty]; the first is the    *)
(* key.  A name is a sequence of characters; a type's tag is none of them  *)
(* (1 to 14 in the code, below every printable character; here above 100). *)
(***************************************************************************)
EXTENDS ValueCodec

CONSTANTS TableNames,    \* names of tables, smallest first
          FieldNames,
          FieldTypes,
          KeyType,       \* the type of every key
          RowValues      \* [types -> values]: what rows hold

VARIABLES kept,    \* the schemas the journal was written under
          now      \* the schemas it is opened with

vars == <<kept, now>>

\* A SchemaSet: a schema, or <<>> where none is registered.
Init == kept = [t \in Range(TableNames) |-> <<>>] /\ now = kept

Field(name, ty) == [name |-> name, ty |-> ty]
Schemas ==
  {<<Field(k, KeyType)>> : k \in FieldNames}
  \cup {<<Field(k, KeyType), Field(f, ty)>> : k \in FieldNames, f \in FieldNames, ty \in FieldTypes}

\* SchemaSet::register; a second one replaces the first.
Register(t, schema) ==
  \/ kept' = [kept EXCEPT ![t] = schema] /\ UNCHANGED now
  \/ now' = [now EXCEPT ![t] = schema] /\ UNCHANGED kept

Next == \E t \in Range(TableNames), schema \in Schemas : Register(t, schema)

Spec == Init /\ [][Next]_vars

-----------------------------------------------------------------------------

TyNames == <<"bool", "u8", "u16", "u32", "u64", "i8", "i16", "i32", "i64", "str", "bytes", "opt", "res", "list">>

RECURSIVE TyTag(_)
TyTag(ty) ==
  <<100 + SelectInSeq(TyNames, LAMBDA name : name = ty[1])>>
    \o FlattenSeq([i \in 1..(Len(ty) - 1) |-> TyTag(ty[i + 1])])

Mixed(t, schema) == t \o FlattenSeq([i \in DOMAIN schema |-> schema[i].name \o TyTag(schema[i].ty)])

\* The text the fingerprint hashes: the tables in the order of their names.
FingerprintText(set) ==
  FlattenSeq([i \in DOMAIN TableNames |->
                IF set[TableNames[i]] = <<>> THEN <<>> ELSE Mixed(TableNames[i], set[TableNames[i]])])

-----------------------------------------------------------------------------

Types(schema) == [i \in DOMAIN schema |-> schema[i].ty]
Decodable(set) == [t \in {n \in DOMAIN set : set[n] # <<>>} |-> Types(set[t])]

Check(schema, values) ==
  /\ Len(schema) = Len(values)
  /\ \A i \in DOMAIN schema : ValueTyMatches(schema[i].ty, values[i])

Rows(schema) ==
  LET values(i) == RowValues[schema[i].ty]
  IN {row \in IF Len(schema) = 1 THEN {<<k>> : k \in values(1)}
             ELSE {<<k, v>> : k \in values(1), v \in values(2)} : Check(schema, row)}

\* The entries append logs for a table: a change, with the inverse it has where no row
\* was at the key and where an old row was.
Entry(t, change, inverse) == [table |-> t, change |-> change, inverse |-> inverse]
Change(tag, row) == [tag |-> tag, row |-> row]
Key(row) == <<row[1]>>
EntriesOf(t, schema) ==
  LET tag   == ChangeTag
      rows  == Rows(schema)
      at(k) == {old \in rows : Key(old) = k}
      put(row) == {Entry(t, Change(set, row), inverse) :
                     set \in {tag.insert, tag.update},
                     inverse \in {Change(tag.remove, Key(row))}
                                   \cup {Change(tag.update, old) : old \in at(Key(row))}}
      remove(k) == {Entry(t, Change(tag.remove, k), inverse) :
                      inverse \in {Change(tag.remove, k)} \cup {Change(tag.insert, old) : old \in at(k)}}
  IN UNION {put(row) \cup remove(Key(row)) : row \in rows}

\* One fingerprint for two sets does not make the one misread the other's journal where
\* keys are numbers: an entry written under the first is read under the second as it was
\* written, or refused.  With lists of bytes for keys it can be misread.
NeverMisread ==
  FingerprintText(kept) = FingerprintText(now) =>
    \A t \in DOMAIN kept : kept[t] # <<>> =>
      \A e \in EntriesOf(t, kept[t]) :
        LET read == ReadEntry(Decodable(now), EntryBytes(Decodable(kept), e))
        IN read.verdict = "ok" => read.val = e

\* Sets with one fingerprint spell the same fields' types in the same order: they
\* differ at most in where a name or a table ends.
FingerprintPinsTypes ==
  LET types(set) == FlattenSeq([i \in DOMAIN TableNames |-> Types(set[TableNames[i]])])
  IN FingerprintText(kept) = FingerprintText(now) => types(kept) = types(now)
=============================================================================
