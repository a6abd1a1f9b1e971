---------------------------- MODULE UndoHistory -----------------------------
(***************************************************************************)
(* What the delta log promises its client, with no deltas, inverses or     *)
(* entries in sight: a history of whole states that only grows.  A write   *)
(* adds a state that differs from the current one in one row.  An undo to  *)
(* a past state adds the past states between there and here, latest first, *)
(* exactly as they were, and stops after adding the one it was asked for.  *)
(* It may be abandoned on the way, and a crash may come just after a write *)
(* or one step of an undo took place.                                      *)
(***************************************************************************)
EXTENDS Integers, Sequences

CONSTANTS Tables, Keys, Values, Absent

VARIABLES
  hist,   \* the states so far, oldest first; the last one is current
  back,   \* during an undo, the position of the state to restore next; else 0
  goal    \* during an undo, the position of the state asked for; else 0

hvars == <<hist, back, goal>>

Current == hist[Len(hist)]

Init ==
  /\ hist = <<[t \in Tables |-> [k \in Keys |-> Absent]]>>
  /\ back = 0
  /\ goal = 0

OneRowChanged ==
  \E t \in Tables, k \in Keys, v \in Values \cup {Absent} :
    hist' = Append(hist, [Current EXCEPT ![t][k] = v])

Write ==
  /\ back = 0
  /\ OneRowChanged
  /\ UNCHANGED <<back, goal>>

BeginUndo ==
  /\ back = 0
  /\ \E n \in 1..(Len(hist) - 1) : goal' = n
  /\ back' = Len(hist) - 1
  /\ UNCHANGED hist

UndoOne ==
  /\ back > 0
  /\ hist' = Append(hist, hist[back])
  /\ IF back = goal THEN back' = 0 /\ goal' = 0
                    ELSE back' = back - 1 /\ goal' = goal

\* An error or a crash ends an undo; the crash may follow an unreturned step.
Interrupted ==
  /\ \/ UNCHANGED hist
     \/ back = 0 /\ OneRowChanged
     \/ back > 0 /\ hist' = Append(hist, hist[back])
  /\ back' = 0
  /\ goal' = 0

HNext == Write \/ BeginUndo \/ UndoOne \/ Interrupted

HSpec == Init /\ [][HNext]_hvars
=============================================================================
