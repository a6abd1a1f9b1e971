---------------------------- MODULE OrderMachine ----------------------------
(***************************************************************************)
(* The life of an order as the two generated modules give it: the step     *)
(* table (generated/rust/order_machine_generated.rs), and the typestate    *)
(* whose methods are its edges (order_typestate_generated.rs).             *)
(***************************************************************************)
EXTENDS Naturals, Sequences

CONSTANT MaxEvents    \* bound: events fired

OrderStatus == {"Cart", "Placed", "Shipped", "Delivered", "Cancelled", "Stray"}
OrderEvent == {"Place", "Ship", "Deliver", "Cancel", "Reset"}

VARIABLES status,    \* the order's status
          trail,     \* the events accepted since the last Reset
          fired      \* how many events were fired

vars == <<status, trail, fired>>

Init == status = "Cart" /\ trail = <<>> /\ fired = 0

\* Mutant of Edges: a shipped order can be cancelled.
EdgesCancelLate ==
  {<<"Cart", "Place", "Placed">>, <<"Placed", "Ship", "Shipped">>,
   <<"Shipped", "Deliver", "Delivered">>, <<"Cart", "Cancel", "Cancelled">>,
   <<"Placed", "Cancel", "Cancelled">>, <<"Shipped", "Cancel", "Cancelled">>}

\* step's table but for Reset, which every status takes back to Cart.
Edges ==
  {<<"Cart", "Place", "Placed">>, <<"Placed", "Ship", "Shipped">>,
   <<"Shipped", "Deliver", "Delivered">>, <<"Cart", "Cancel", "Cancelled">>,
   <<"Placed", "Cancel", "Cancelled">>}

Fire(e, to) ==
  /\ fired < MaxEvents
  /\ <<status, e, to>> \in Edges
  /\ status' = to
  /\ trail' = Append(trail, e)
  /\ fired' = fired + 1

Reset ==
  /\ fired < MaxEvents
  /\ status' = "Cart" /\ trail' = <<>>
  /\ fired' = fired + 1

\* step answers None: the order stays as it is.
Reject(e) ==
  /\ fired < MaxEvents
  /\ e # "Reset" /\ \A to \in OrderStatus : <<status, e, to>> \notin Edges
  /\ fired' = fired + 1
  /\ UNCHANGED <<status, trail>>

Next ==
  \/ \E e \in OrderEvent, to \in OrderStatus : Fire(e, to)
  \/ Reset
  \/ \E e \in OrderEvent : Reject(e)

Spec == Init /\ [][Next]_vars

-----------------------------------------------------------------------------

\* The methods of each struct and the struct they return; a status without one ends.
Methods ==
  [Cart |-> [Place |-> "Placed", Cancel |-> "Cancelled"],
   Placed |-> [Ship |-> "Shipped", Cancel |-> "Cancelled"],
   Shipped |-> [Deliver |-> "Delivered"],
   Delivered |-> <<>>, Cancelled |-> <<>>]

\* The typestate admits exactly the machine's lives: calling the methods along the events
\* the table accepted since the last reset type-checks and ends in a value of the order's
\* status, whose methods are the events the table would still take.
TypestateFollows ==
  LET walk[n \in 0..Len(trail)] ==
        IF n = 0 THEN "Cart"
        ELSE IF walk[n - 1] # "no method" /\ trail[n] \in DOMAIN Methods[walk[n - 1]]
        THEN Methods[walk[n - 1]][trail[n]] ELSE "no method"
  IN /\ walk[Len(trail)] = status
     /\ DOMAIN Methods[status] = {edge[2] : edge \in {x \in Edges : x[1] = status}}
=============================================================================
