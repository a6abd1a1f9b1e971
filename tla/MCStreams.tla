------------------------------ MODULE MCStreams ------------------------------
(* The sequential readers of the project side by side, one of them at work *)
(* in a behaviour: the recovery scan, the decoders, schema sets under one  *)
(* fingerprint, the snapshot gate, the circuits modulo 16, the order       *)
(* machine, guest strings and the oracle's texts.  Words have 7 bits and   *)
(* digits two: four digits at most, the last with one bit too many, as the *)
(* tenth of a u64 has six.                                                 *)
EXTENDS EnvelopeScan, ValueCodec, SnapshotTypes, Snapshot, Generated, ByteStream, GuestString

CONSTANT MaxDepth

VARIABLES reader, kept, now, left, right, over

scan == vars
orders == <<order, trail, fired>>
sets == <<kept, now>>
forms == <<left, right, over>>

-----------------------------------------------------------------------------
(* Journals: a table of a key and a flag, entries that insert and remove.  *)

MCSchemaOf == (<<1>> :> <<<<"u64">>, <<"bool">>>>)
MCEntries ==
  {[table |-> <<1>>, change |-> [tag |-> 0, row |-> <<1, TRUE>>], inverse |-> [tag |-> 2, row |-> <<1>>]],
   [table |-> <<1>>, change |-> [tag |-> 2, row |-> <<100>>], inverse |-> [tag |-> 0, row |-> <<100, FALSE>>]]}

-----------------------------------------------------------------------------
(* Decoders.                                                               *)

Num(t) == <<t>>
MCSamples ==
  (<<"bool">> :> BOOLEAN) @@ (Num("u8") :> {0, 7}) @@ (Num("u16") :> {0, 5, 7}) @@ (Num("u64") :> {0, 4, 127})
  @@ (Num("i16") :> {-4, -1, 0, 3}) @@ (Num("i64") :> {-64, -1, 0, 63}) @@ (Num("char") :> {1, 2})
  @@ (<<"str">> :> {<<>>, <<2, 1>>}) @@ (<<"bytes">> :> {<<>>, <<7, 0>>})
  @@ (<<"opt", <<"i16">>>> :> {<<>>, <<-4>>}) @@ (<<"list", <<"u8">>>> :> {<<>>, <<0, 7, 3>>})
  @@ (<<"res", <<"i64">>, <<"list", <<"opt", <<"bool">>>>>>>> :>
        {<<0, -64>>, <<1, <<>>>>, <<1, <<<<TRUE>>, <<>>>>>>})

Values == INSTANCE ValueStream WITH Samples <- MCSamples

-----------------------------------------------------------------------------
(* The snapshot gate: every line a file can hold, and type texts one       *)
(* character away from a legal one.                                        *)

OptionOf(text) == <<"option", "(">> \o text \o <<")">>
RefU == <<"ty", "(", "U", ")">>
Seeds ==
  {OptionOf(OptionOf(OptionOf(<<"u64">>))),
   <<"map", "(", "u64", ",", "set", "(", "u64", ")", ")">>, <<"set", "(", "f64", ")">>,
   <<"tensor", "(", "2", ";", "f64", ")">>, <<"result", "(", "u64", ",">> \o RefU \o <<")">>}
Damaged ==
  UNION {{RemoveAt(t, i) : i \in DOMAIN t} \cup {ReplaceAt(t, i, x) : i \in DOMAIN t, x \in {"u64", ")"}}
           \cup {Append(t, ")")} : t \in Seeds}
SnapshotLines ==
  {<<"record", <<"U">>>>, <<"variant", <<"U">>>>, <<"resource", <<"U">>>>,
   <<"func", <<"U">>>>, <<"func", <<"g", "U">>>>, <<"func">>,
   <<"field", <<"a">>, <<"u64">>>>, <<"field", <<"a">>, RefU>>, <<"case", <<"a">>>>, <<"case", <<"a">>, <<"u64">>>>,
   <<"param", <<"a">>, RefU>>, <<"param", <<"a">>, <<"tensor", "(", "u64", ")">>>>,
   <<"sem", "strict", "pure">>, <<"sem", "custom", "stable", "stream">>, <<"sem", "lax", "pure">>}
  \cup {<<"ret", t>> : t \in Damaged \cup Seeds}

MCLegalTexts ==
  {TyRender(t) : t \in TypesTo(MAX_TY_DEPTH, {"u64", "f64"}, {"option"}, {<<"U">>, <<"u64">>})}
MCLegalText(text) == text \in MCLegalTexts

MCLowerOf == [U |-> "u"]
MCContract == <<<<<<"g", "-", "u">>, 2>>, <<<<"u">>, 1>>>>

MCInputs == {-8, -1, 3, 5}

-----------------------------------------------------------------------------
(* Schema sets: the name of a second field is that of a second table and   *)
(* its key run together.  Guest strings: the ends of every range of UTF-8. *)
(* Texts: two numbers that differ from a third by a comma, and a comma.    *)

Prints == INSTANCE SchemaSets WITH
  TableNames <- <<<<1>>, <<2>>>>, FieldNames <- {<<1>>, <<2, 1>>}, KeyType <- Num("u64"),
  FieldTypes <- {Num("u64"), Num("u8")}, RowValues <- (Num("u64") :> {0, 1, 2, 4} @@ Num("u8") :> {0, 1, 2})

MCChars == {65, 127, 128, 2047, 2048, 65535, 65536, 1114111}

Oracle == INSTANCE RowForms WITH Texts <- {<<>>, <<"a">>, <<"a", ",", "a">>}, Numbers <- {1, 2, 12}

-----------------------------------------------------------------------------

MCInit ==
  /\ reader \in {"scan", "bytes", "snapshot", "circuit", "order", "schemas", "string", "forms"}
  /\ Init /\ StreamInit /\ GateInit /\ EmittedInit /\ Prints!Init /\ GuestInit
  /\ IF reader = "forms" THEN Oracle!Init ELSE left = <<>> /\ right = <<>> /\ over = <<>>

MCNext ==
  /\ UNCHANGED reader
  /\ \/ reader = "scan" /\ Next /\ UNCHANGED <<bs, gate, s, orders, sets, chain, forms>>
     \/ reader = "bytes" /\ StreamNext /\ UNCHANGED <<scan, gate, s, orders, sets, chain, forms>>
     \/ reader = "snapshot" /\ GateNext /\ UNCHANGED <<scan, bs, s, orders, sets, chain, forms>>
     \/ reader = "circuit" /\ Dbsp!Next /\ UNCHANGED <<scan, bs, gate, orders, sets, chain, forms>>
     \/ reader = "order" /\ Life!Next /\ UNCHANGED <<scan, bs, gate, s, sets, chain, forms>>
     \/ reader = "schemas" /\ Prints!Next /\ UNCHANGED <<scan, bs, gate, s, orders, chain, forms>>
     \/ reader = "string" /\ GuestNext /\ UNCHANGED <<scan, bs, gate, s, orders, sets, forms>>
     \/ reader = "forms" /\ Oracle!Next /\ UNCHANGED <<scan, bs, gate, s, orders, sets, chain>>

MCSpec == MCInit /\ [][MCNext]_<<reader, scan, bs, gate, s, orders, sets, chain, forms>>

-----------------------------------------------------------------------------

\* Of numbers, byte strings, envelopes, values and changes: a verdict but torn is final.
VerdictIsFinal == [][Values!VerdictsSharpen]_bs
\* dec_value gives back every value enc_value wrote, whatever follows it, and what it
\* accepts of other bytes is a value of the type that can be written again.
ValuesReturn == reader = "bytes" => Values!ValuesReturn /\ Values!DecodedIsAValue
\* With numbers for keys, an entry opened under another schema set of its fingerprint is
\* read as written or refused; such sets have the same types in the same order.
NeverMisread == reader = "schemas" => Prints!NeverMisread /\ Prints!FingerprintPinsTypes
\* ser_val tells results of a type apart, but for streams and texts in lists and records,
\* and build_args gives back what the manifest's flat texts were written for.
TextsDetermine == reader = "forms" => Oracle!FormsSeparate /\ Oracle!ArgsReturn
=============================================================================
