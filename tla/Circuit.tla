------------------------------ MODULE Circuit -------------------------------
(***************************************************************************)
(* The generated circuit evaluator (generated/rust/circuit_generated.rs):  *)
(* a stream of 64-bit integers arrives tick by tick, and a circuit's value *)
(* at every tick is eval of what arrived so far.  Here a stream is the     *)
(* sequence of its values, a Node is an operator from streams to streams,  *)
(* and Seq is the composition of two.  Arithmetic wraps, as it does in a   *)
(* release build; a debug build stops.                                     *)
(*                                                                         *)
(* A value is a tree of pairs with integers at its leaves: a function from *)
(* the paths of its leaves, the empty one in a number, 1 and 2 leading     *)
(* into the halves of a pair.                                              *)
(***************************************************************************)
EXTENDS Integers, Sequences

CONSTANTS Modulus,     \* 2^64 in the code
          Inputs,      \* values that arrive
          MaxTicks     \* bound: length of the stream

VARIABLE s

Init == s = <<>>

Wrapped(x) == ((x + Modulus \div 2) % Modulus) - Modulus \div 2

I(x) == [path \in {<<>>} |-> Wrapped(x)]
P(a, b) ==
  [path \in {<<1>> \o p : p \in DOMAIN a} \cup {<<2>> \o p : p \in DOMAIN b} |->
     IF path[1] = 1 THEN a[Tail(path)] ELSE b[Tail(path)]]

Zero == I(0)
IsNumber(v) == <<>> \in DOMAIN v
Half(v, h) ==
  IF IsNumber(v) THEN v
  ELSE [p \in {Tail(q) : q \in {x \in DOMAIN v : x[1] = h}} |-> v[<<h>> \o p]]
Fst(v) == Half(v, 1)
Snd(v) == Half(v, 2)

\* Leaf by leaf; where the shapes differ, the left one is the result.
Plus(v, o) == [p \in DOMAIN v |-> IF p \in DOMAIN o THEN Wrapped(v[p] + o[p]) ELSE v[p]]
Minus(v, o) == [p \in DOMAIN v |-> IF p \in DOMAIN o THEN Wrapped(v[p] - o[p]) ELSE v[p]]

Arrive(x) ==
  /\ Len(s) < MaxTicks
  /\ s' = Append(s, I(x))

Next == \E x \in Inputs : Arrive(x)

Spec == Init /\ [][Next]_s

-----------------------------------------------------------------------------
(* eval, node by node.                                                     *)

Before(xs, n) == IF n = 1 THEN Zero ELSE xs[n - 1]
Delay(xs) == [n \in DOMAIN xs |-> Before(xs, n)]
Derivative(xs) == [n \in DOMAIN xs |-> Minus(xs[n], Before(xs, n))]

Integral(xs) ==
  LET sum[n \in {0} \cup DOMAIN xs] == IF n = 0 THEN Zero ELSE Plus(sum[n - 1], xs[n])
  IN [n \in DOMAIN xs |-> sum[n]]

Incremental(Q(_), xs) == Derivative(Q(Integral(xs)))

Lift(f(_), xs) == [n \in DOMAIN xs |-> IF IsNumber(xs[n]) THEN I(f(xs[n][<<>>])) ELSE xs[n]]

Par(F(_), G(_), xs) ==
  LET left == F([n \in DOMAIN xs |-> Fst(xs[n])])
      right == G([n \in DOMAIN xs |-> Snd(xs[n])])
  IN [n \in DOMAIN xs |-> P(left[n], right[n])]

\* What the body of a feedback reads: the input, and its own output one tick ago.
Paired(xs, alpha) == [n \in DOMAIN xs |-> P(xs[n], Before(alpha, n))]
Feedback(Body(_), xs) ==
  LET alpha[n \in DOMAIN xs] == Body(Paired(SubSeq(xs, 1, n), alpha))[n]
  IN alpha

-----------------------------------------------------------------------------
(* The emitted circuits.                                                   *)

demo_line_total(x) == x * x
demo_double(x) == 2 * x
LineTotals(xs) == Lift(demo_line_total, xs)
Doubled(xs) == Lift(demo_double, xs)

order_total_circuit(xs) == Integral(Doubled(LineTotals(xs)))

\* Mutant of order_total_incremental: the square is treated as linear.
order_total_all_linear(xs) == Integral(Doubled(LineTotals(xs)))

order_total_incremental(xs) == Integral(Doubled(Incremental(LineTotals, xs)))

-----------------------------------------------------------------------------

\* Dbsp.incrementalize_ok, in 64 bits: fed with the changes, the emitted incremental circuit
\* gives the changes of the batch circuit's result, tick for tick, also where sums wrap.
IncrementalAgrees == order_total_incremental(s) = Incremental(order_total_circuit, s)

\* Summing and differencing undo each other, also where sums wrap.
SumsUndoDifferences == Derivative(Integral(s)) = s /\ Integral(Derivative(s)) = s

\* The laws the emitter's rewrites lean on: sums and differences are inverse, a pair of
\* circuits runs each on its own half, and a feedback solves its equation
\* alpha = body(input, alpha one tick ago), for a body that looks further back as well.
StreamLaws ==
  LET Both(xs) == Par(Integral, Delay, xs)
      sums == Integral(s)
      alpha == Feedback(Both, s)
  IN /\ SumsUndoDifferences
     /\ Both([n \in DOMAIN s |-> P(s[n], sums[n])]) = [n \in DOMAIN s |-> P(sums[n], Delay(sums)[n])]
     /\ alpha = Both(Paired(s, alpha))
=============================================================================
