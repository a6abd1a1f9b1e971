------------------------------ MODULE RowForms -------------------------------
(***************************************************************************)
(* The texts of a manifest's rows: how the driver builds a call's          *)
(* arguments from the texts of a row (crates/oracle-runner/src/main.rs),   *)
(* and the form a result is compared in (ser_val of                        *)
(* generated/rust/oracle_mirror_generated.rs).                             *)
(*                                                                         *)
(* A text is a sequence of characters; a fixed word counts as one.  A      *)
(* value is <<"bool", b>>, <<"num", n>>, <<"float", text>>,                *)
(* <<"str", text>>, <<"opt", 0 or 1 values>>, <<"res", "ok" or "err", 0 or *)
(* 1 values>>, <<"variant", name, 0 or 1 values>>, <<"list", values>>,     *)
(* <<"stream", values>> or <<"record", pairs of a name and a value>>.      *)
(***************************************************************************)
EXTENDS Naturals, SequencesExt

CONSTANTS Texts,      \* the texts of strings
          Numbers,    \* the numbers, below 100
          MaxDepth    \* bound: constructors around a scalar

VARIABLES left, right,   \* two results of one type
          over           \* the constructors of the type, its scalar first

vars == <<left, right, over>>

-----------------------------------------------------------------------------
(* ser_val.                                                                *)

Decimal(n) == [i \in 1..(IF n < 10 THEN 1 ELSE 2) |->
                 ToString(IF n < 10 THEN n ELSE IF i = 1 THEN n \div 10 ELSE n % 10)]

Wrapped(word, inner) == IF inner = <<>> THEN <<word>> ELSE <<word, "(">> \o inner[1] \o <<")">>

\* Mutant of Joined: nothing between the items.
JoinedBare(items, separator) == FlattenSeq(items)

Joined(items, separator) ==
  FlattenSeq([i \in DOMAIN items |-> IF i = 1 THEN items[i] ELSE separator \o items[i]])

RECURSIVE ser_val(_)
ser_val(v) ==
  LET forms(vs) == [i \in DOMAIN vs |-> ser_val(vs[i])]
  IN CASE v[1] = "bool" -> <<IF v[2] THEN "1" ELSE "0">>
       [] v[1] = "num" -> Decimal(v[2])
       [] v[1] \in {"float", "str"} -> v[2]
       [] v[1] = "opt" -> Wrapped(IF v[2] = <<>> THEN "none" ELSE "some", forms(v[2]))
       [] v[1] \in {"res", "variant"} -> Wrapped(v[2], forms(v[3]))
       [] v[1] = "list" -> <<"(">> \o Joined(forms(v[2]), <<",">>) \o <<")">>
       [] v[1] = "record" ->
            <<"{ ">> \o Joined([i \in DOMAIN v[2] |-> <<v[2][i][1], "=">> \o ser_val(v[2][i][2])],
                               <<",", " ">>) \o <<" }">>
       [] v[1] = "stream" -> <<"<stream>">>

-----------------------------------------------------------------------------
(* build_args.                                                             *)

\* The parts of a text between separators, at least one even of the empty text.
Split(text, separator) ==
  LET ends == <<0>> \o SetToSortSeq({i \in DOMAIN text : text[i] = separator}, <) \o <<Len(text) + 1>>
  IN [k \in 1..(Len(ends) - 1) |-> SubSeq(text, ends[k] + 1, ends[k + 1] - 1)]

IsNumber(text) == \E n \in 0..99 : Decimal(n) = text
NumberOf(text) == <<"num", CHOOSE n \in 0..99 : Decimal(n) = text>>
IsFloat(text) ==
  LET parts == Split(text, ".")
  IN Len(parts) <= 2 /\ \A k \in DOMAIN parts : IsNumber(parts[k])
Str(text) == <<"str", text>>

user_record(strs) ==
  LET tags == Split(strs[4], ",")
  IN <<"record", <<<<"id", NumberOf(strs[1])>>, <<"name", Str(strs[2])>>, <<"email", Str(strs[3])>>,
                   <<"tags", <<"list", [i \in DOMAIN tags |-> Str(tags[i])]>>>>>>>>

\* Whatever is no known discriminant is the last case.
order_error_variant(strs) ==
  CASE strs[1] = <<"0">> -> <<"variant", "empty-cart", <<>>>>
    [] strs[1] = <<"1">> -> <<"variant", "invalid-item", <<NumberOf(strs[2])>>>>
    [] strs[1] \notin {<<"0">>, <<"1">>} -> <<"variant", "insufficient-funds", <<<<"float", strs[2]>>>>>>

OrderErrorParses(strs) ==
  Len(strs) >= 1 /\ (strs[1] = <<"0">> \/ (Len(strs) >= 2 /\ IF strs[1] = <<"1">> THEN IsNumber(strs[2]) ELSE IsFloat(strs[2])))

\* A flag is the first argument of pick, if it is written as one.
IsFlag(f, strs, i) == f = "pick" /\ i = 1 /\ strs[i] \in {<<"0">>, <<"1">>}

\* The arguments of the call, or none: the row is refused (RowArgs).
build_args(f, strs) ==
  CASE f \in {"user-valid", "user-complete"} ->
         IF Len(strs) >= 4 /\ IsNumber(strs[1]) THEN {<<user_record(strs)>>} ELSE {}
    [] f = "order-error-valid" ->
         IF OrderErrorParses(strs) THEN {<<order_error_variant(strs)>>} ELSE {}
    [] f \notin {"user-valid", "user-complete", "order-error-valid"} ->
         IF \E i \in DOMAIN strs : ~IsFlag(f, strs, i) /\ ~IsNumber(strs[i]) THEN {}
         ELSE {[i \in DOMAIN strs |-> IF IsFlag(f, strs, i) THEN <<"bool", strs[i] = <<"1">>>>
                                       ELSE NumberOf(strs[i])]}

-----------------------------------------------------------------------------
(* Two results of one type, from the inside out.                           *)

ScalarsOf(kind) ==
  CASE kind = "bool" -> {<<"bool", b>> : b \in BOOLEAN}
    [] kind = "num" -> {<<"num", n>> : n \in Numbers}
    [] kind = "str" -> {Str(text) : text \in Texts}

Init ==
  \E kind \in {"bool", "num", "str"} :
    /\ left \in ScalarsOf(kind) /\ right \in ScalarsOf(kind)
    /\ over = <<kind>>

\* The values of one more constructor over values of a type.
Over(constructor, inner) ==
  CASE constructor = "opt" -> {<<"opt", x>> : x \in {<<>>} \cup {<<v>> : v \in inner}}
    [] constructor = "res" -> {<<"res", "err", <<>>>>} \cup {<<"res", "ok", <<v>>>> : v \in inner}
    [] constructor = "variant" ->
         {<<"variant", "a", <<>>>>} \cup {<<"variant", c, <<v>>>> : c \in {"b", "c"}, v \in inner}
    [] constructor \in {"list", "stream"} -> {<<constructor, items>> : items \in BoundedSeq(inner, 2)}
    [] constructor = "record" ->
         {<<"record", <<<<"a", v>>, <<"b", w>>>>>> : v \in inner, w \in inner}

Wrap(constructor) ==
  /\ Len(over) <= MaxDepth
  /\ left' \in Over(constructor, {left, right})
  /\ right' \in Over(constructor, {left, right})
  /\ over' = Append(over, constructor)

Next == \E constructor \in {"opt", "res", "variant", "list", "stream", "record"} : Wrap(constructor)

Spec == Init /\ [][Next]_vars

-----------------------------------------------------------------------------

\* The form tells the results of a type apart, but for streams, whose items it leaves
\* out, and for texts in lists and records, whose characters may be the form's own.
FormsSeparate ==
  left # right /\ ser_val(left) = ser_val(right) =>
    "stream" \in Range(over) \/ (over[1] = "str" /\ Range(over) \cap {"list", "record"} # {})

User(id, name, tags) ==
  <<"record", <<<<"id", <<"num", id>>>>, <<"name", Str(name)>>, <<"email", Str(name)>>,
                <<"tags", <<"list", [i \in DOMAIN tags |-> Str(tags[i])]>>>>>>>>

\* The flat arguments of a manifest become the values they were written for.  "The
\* flat-string convention cannot express the empty list": it is read as one empty tag,
\* and a tag with a comma as two; all else returns.
ArgsReturn ==
  /\ over = <<"str", "list">> =>
       LET tags == [i \in DOMAIN left[2] |-> left[2][i][2]]
       IN \A id \in Numbers, name \in Texts :
            build_args("user-valid", <<Decimal(id), name, name, Joined(tags, <<",">>)>>) = {<<User(id, name, tags)>>}
              <=> tags # <<>> /\ \A i \in DOMAIN tags : "," \notin Range(tags[i])
  /\ over = <<"num">> =>
       LET digits == Decimal(left[2])
           half == digits \o <<".", "5">>
           Case(name, payload) == {<<<<"variant", name, <<payload>>>>>>}
       IN /\ \A flag \in BOOLEAN :
               build_args("pick", <<<<IF flag THEN "1" ELSE "0">>, digits>>) = {<<<<"bool", flag>>, left>>}
          /\ build_args("order-error-valid", <<<<"1">>, digits>>) = Case("invalid-item", left)
          /\ build_args("order-error-valid", <<<<"2">>, half>>) = Case("insufficient-funds", <<"float", half>>)
          /\ build_args("order-error-valid", <<<<"1">>, half>>) = {}
=============================================================================
