----------------------------- MODULE BoundedFifo -----------------------------
(***************************************************************************)
(* What the firmware's queues promise: a first-in first-out queue of at    *)
(* most Capacity items.  A push on a full queue is refused and changes     *)
(* nothing; a pop on an empty one yields nothing.                          *)
(***************************************************************************)
EXTENDS Naturals, Sequences

CONSTANTS Item, Capacity, NoItem

VARIABLES
  fifo,     \* the items pushed and not yet popped, oldest first
  pushed,   \* answer of the last push
  popped    \* item the last pop yielded, NoItem if none

Init == fifo = <<>> /\ pushed = FALSE /\ popped = NoItem

Push(x) ==
  /\ IF Len(fifo) < Capacity
     THEN fifo' = Append(fifo, x) /\ pushed' = TRUE
     ELSE fifo' = fifo /\ pushed' = FALSE
  /\ popped' = popped

Pop ==
  /\ IF fifo # <<>>
     THEN fifo' = Tail(fifo) /\ popped' = Head(fifo)
     ELSE fifo' = fifo /\ popped' = NoItem
  /\ pushed' = pushed

Next == Pop \/ \E x \in Item : Push(x)

Spec == Init /\ [][Next]_<<fifo, pushed, popped>>
=============================================================================
