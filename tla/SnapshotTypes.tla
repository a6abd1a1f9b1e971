--------------------------- MODULE SnapshotTypes ----------------------------
(***************************************************************************)
(* The type texts of universe.snapshot: parse_ty_text of                   *)
(* crates/guestlang-host/src/hostgen.rs, and the format they are written   *)
(* in.  A text is a sequence of lexemes: keywords, letters, dimensions,    *)
(* "(", ")", "," and ";".  A type is its keyword and its arguments.        *)
(***************************************************************************)
EXTENDS Integers, SequencesExt

CONSTANTS MAX_TY_DEPTH,
          Dims           \* the digit runs that fit a u64

KeyTys == {"bool", "u8", "u16", "u32", "u64", "i8", "i16", "i32", "i64", "string"}
Atoms == KeyTys \cup {"f32", "f64", "bytes"}
OneArgTys == {"option", "list", "future", "stream"}

At(cs, lexeme) == cs # <<>> /\ cs[1] = lexeme
Refused == [ok |-> FALSE]
Parsed(ty, rest) == [ok |-> TRUE, ty |-> ty, rest |-> rest]

AnyTy(ty) == TRUE
IsKeyTy(ty) == ty[1] \in KeyTys

TyRef(rest) ==
  LET ends == {i \in DOMAIN rest : rest[i] = ")"}
      end == CHOOSE i \in ends : \A j \in ends : i <= j
  IN IF At(rest, "(") /\ ends # {} /\ end > 2
     THEN Parsed(<<"ty", SubSeq(rest, 2, end - 1)>>, SubSeq(rest, end + 1, Len(rest)))
     ELSE Refused

RECURSIVE TyAt(_, _), TensorAt(_, _, _)
OneArg(kw, rest, depth, Gate(_)) ==
  LET t == TyAt(Tail(rest), depth + 1)
  IN IF At(rest, "(") /\ t.ok /\ Gate(t.ty) /\ At(t.rest, ")")
     THEN Parsed(<<kw, t.ty>>, Tail(t.rest)) ELSE Refused
TwoArgs(kw, rest, depth, Gate(_)) ==
  LET a == TyAt(Tail(rest), depth + 1)
      b == TyAt(Tail(a.rest), depth + 1)
  IN IF At(rest, "(") /\ a.ok /\ Gate(a.ty) /\ At(a.rest, ",") /\ b.ok /\ At(b.rest, ")")
     THEN Parsed(<<kw, a.ty, b.ty>>, Tail(b.rest)) ELSE Refused
\* Each dimension is consumed with its semicolon, then the element.  So one without
\* dimensions is `tensor(elem)`; the `tensor(;elem)` of the comments is refused.
TensorAt(dims, cs, depth) ==
  LET t == TyAt(cs, depth + 1)
  IN IF cs # <<>> /\ cs[1] \in Dims
     THEN IF At(Tail(cs), ";") THEN TensorAt(Append(dims, cs[1]), Tail(Tail(cs)), depth)
                               ELSE Refused
     ELSE IF t.ok /\ At(t.rest, ")")
     THEN Parsed(<<"tensor", dims, t.ty>>, Tail(t.rest)) ELSE Refused
TyAt(cs, depth) ==
  IF depth > MAX_TY_DEPTH \/ cs = <<>> THEN Refused
  ELSE LET kw == Head(cs)
           rest == Tail(cs)
       IN CASE kw \in Atoms -> Parsed(<<kw>>, rest)
            [] kw \in OneArgTys -> OneArg(kw, rest, depth, AnyTy)
            [] kw = "set" -> OneArg(kw, rest, depth, IsKeyTy)
            [] kw = "map" -> TwoArgs(kw, rest, depth, IsKeyTy)
            [] kw = "result" -> TwoArgs(kw, rest, depth, AnyTy)
            [] kw = "ty" -> TyRef(rest)
            [] kw = "tensor" -> IF At(rest, "(") THEN TensorAt(<<>>, Tail(rest), depth)
                                                 ELSE Refused
            [] OTHER -> Refused

TyText(text) ==
  LET t == TyAt(text, 0) IN IF t.ok /\ t.rest = <<>> THEN t ELSE Refused

-----------------------------------------------------------------------------
(* The format, as Ty.toSnapshot prints it and the tests of both sides pin  *)
(* it.  It is not what the comments say of a tensor without dimensions     *)
(* (hostgen.rs:359-360, Snapshot.lean:89 and :360: `tensor(;elem)`): the   *)
(* printer writes `tensor(elem)`, and no reader takes the other text.      *)

RECURSIVE TyRender(_)
TyRender(ty) ==
  CASE ty[1] \in Atoms -> <<ty[1]>>
    [] ty[1] = "ty" -> <<"ty", "(">> \o ty[2] \o <<")">>
    [] ty[1] = "tensor" ->
         <<"tensor", "(">> \o FlattenSeq([i \in DOMAIN ty[2] |-> <<ty[2][i], ";">>])
                           \o TyRender(ty[3]) \o <<")">>
    [] ty[1] \in {"map", "result"} ->
         <<ty[1], "(">> \o TyRender(ty[2]) \o <<",">> \o TyRender(ty[3]) \o <<")">>
    [] OTHER -> <<ty[1], "(">> \o TyRender(ty[2]) \o <<")">>

\* The types over some keywords and names, nested at most d deep.
TypesTo(depth, SomeAtoms, SomeOneArgs, SomeRefs) ==
 LET types[d \in 0..depth] ==
  LET base == {<<a>> : a \in SomeAtoms} \cup {<<"ty", n>> : n \in SomeRefs}
      keys == {<<a>> : a \in SomeAtoms \cap KeyTys}
  IN IF d = 0 THEN base
     ELSE LET inner == types[d - 1]
          IN base \cup {<<k, t>> : k \in SomeOneArgs, t \in inner}
                  \cup {<<"set", t>> : t \in keys}
                  \cup {<<"map", k, t>> : k \in keys, t \in inner}
                  \cup {<<"result", t, u>> : t \in inner, u \in inner}
                  \cup {<<"tensor", ds, t>> : ds \in {<<>>} \cup {<<n>> : n \in Dims}, t \in inner}
 IN types[depth]
=============================================================================
