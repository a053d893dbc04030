------------------------------ MODULE RingQueue ------------------------------
(***************************************************************************)
(* The ring buffer of io_command.c.  head is the next slot to write, tail  *)
(* the next one to read; the ring is empty when they are equal and full    *)
(* when head is one behind tail, so one slot is never used.  Both          *)
(* operations run inside one critical section.  event_bus.c keeps the same *)
(* ring, with a mask in place of the remainder: its size is a power of     *)
(* two, for which the two agree.                                           *)
(***************************************************************************)
EXTENDS Integers, Sequences

CONSTANTS
  Item,     \* what is queued
  Size,     \* slots of the ring (IO_CMD_QUEUE_SIZE = 32)
  NoItem    \* marks a pop that found nothing

(* head and tail are uint8_t.                                              *)
ASSUME RingAssumption == Size \in 1..256 /\ NoItem \notin Item

VARIABLES queue, head, tail, pushed, popped

vars == <<queue, head, tail, pushed, popped>>

Slots == 0..(Size - 1)

(* io_command_init leaves the slots as they are; they hold whatever was    *)
(* there before.                                                           *)
Init ==
  /\ queue \in [Slots -> Item]
  /\ head = 0 /\ tail = 0
  /\ pushed = FALSE /\ popped = NoItem

(* Mutant: the index does not wrap.                                        *)
SuccNoWrap(i) == i + 1

(* The index after i.                                                      *)
Succ(i) == (i + 1) % Size

(* Mutant: the ring is taken to be full only when every slot is used.      *)
PushAll(x) ==
  /\ queue' = [queue EXCEPT ![head] = x]
  /\ head' = Succ(head)
  /\ pushed' = TRUE
  /\ UNCHANGED <<tail, popped>>

Push(x) ==
  /\ IF Succ(head) # tail
     THEN /\ queue' = [queue EXCEPT ![head] = x]
          /\ head' = Succ(head)
          /\ pushed' = TRUE
     ELSE /\ pushed' = FALSE
          /\ UNCHANGED <<queue, head>>
  /\ UNCHANGED <<tail, popped>>

Pop ==
  /\ IF tail # head
     THEN /\ popped' = queue[tail]
          /\ tail' = Succ(tail)
     ELSE /\ popped' = NoItem
          /\ UNCHANGED tail
  /\ UNCHANGED <<queue, head, pushed>>

Next == Pop \/ \E x \in Item : Push(x)

Spec == Init /\ [][Next]_vars

-----------------------------------------------------------------------------
(* Type invariant.                                                         *)
TypeOK ==
  /\ queue \in [Slots -> Item]
  /\ head \in Slots /\ tail \in Slots
  /\ pushed \in BOOLEAN
  /\ popped \in Item \cup {NoItem}

(* Items between tail and head, and the slot of the k-th of them.          *)
Count == IF head >= tail THEN head - tail ELSE head + Size - tail
SlotOf(k) == IF tail + k <= Size THEN tail + k - 1 ELSE tail + k - 1 - Size

Contents == [k \in 1..Count |-> queue[SlotOf(k)]]

Fifo == INSTANCE BoundedFifo WITH fifo <- Contents, Capacity <- Size - 1

(* The ring of io_command_push and io_command_pop is a FIFO of Size - 1    *)
(* items: nothing is lost, duplicated, reordered or overwritten, whatever  *)
(* the indices wrap to.                                                    *)
ImplementsFifo == Fifo!Spec
=============================================================================
